--------------------------- MODULE MCConsoleText ----------------------------
EXTENDS ConsoleText
CONSTANTS a, nl
MCGlyphs    == {a}
MCMainTexts == {<<a>>, <<nl>>}
MCIsrTexts  == {<<a>>, <<a, nl>>}
=============================================================================
