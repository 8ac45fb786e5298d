SPECIFICATION TextSpec
CONSTANTS
    Width = 2
    Height = 3
    a = a
    nl = nl
    Glyphs <- MCGlyphs
    NewLine = nl
    MainTexts <- MCMainTexts
    IsrTexts <- MCIsrTexts
INVARIANTS
    DrawsBounded
    CursorOnScreen
PROPERTIES HandlerReturns ImplementsTerminal
