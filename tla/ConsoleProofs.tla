--------------------------- MODULE ConsoleProofs ----------------------------
(***************************************************************************)
(* The cursor of the console under interrupts, for every screen size and   *)
(* every text.  The invariant says how far off the screen the cursor may   *)
(* be, for each place kernel_main may have been interrupted at and each    *)
(* step of the handler.                                                    *)
(* Alone, kernel_main sees a Terminal: at each place of vbe_put_char the   *)
(* frame buffer is the terminal's lines, with the character or a copied    *)
(* line more.                                                              *)
(***************************************************************************)
EXTENDS ConsoleText, SequenceTheorems, FiniteSetTheorems, TLAPS

Labelled ==
    /\ current_cursor_x \in Nat /\ current_cursor_y \in Nat
    /\ pc \in [Process -> Labels]
    /\ reg \in [Process -> Nat]
    /\ at \in [Process -> [x : Nat, y : Nat]]

\* x is on the screen, or kernel_main stored the width and has not yet
\* compared it.
XSettled == \/ current_cursor_x < Width
            \/ current_cursor_x = Width /\ pc["main"] \in {"wrap", "zero"}

\* y is on the screen, or kernel_main stored the height and is yet to scroll.
YSettled == \/ current_cursor_y < Height
            \/ /\ current_cursor_y = Height
               /\ pc["main"] \in {"full", "scroll", "copy", "copyStore", "clear",
                                  "home"}

MainInv ==
    /\ pc["main"] = "incStore" => reg["main"] < Width
    /\ pc["main"] = "downStore" => reg["main"] < Height
    /\ pc["main"] \in {"loadX", "draw"} => at["main"].y < Height
    /\ pc["main"] = "draw" => at["main"].x < Width

IsrInv ==
    /\ pc["isr"] \in {"idle", "next", "loadY", "loadX", "draw", "inc", "incStore"}
         => XSettled /\ YSettled
    /\ pc["isr"] = "incStore" => reg["isr"] <= Width
    /\ pc["isr"] = "wrap" => current_cursor_x <= Width + 1 /\ YSettled
    /\ pc["isr"] = "zero" => current_cursor_x <= Width + 1 /\ YSettled
    /\ pc["isr"] \in {"down", "downStore"} => XSettled /\ YSettled
    /\ pc["isr"] = "downStore" => reg["isr"] <= Height
    /\ pc["isr"] \in {"full", "scroll", "copy", "copyStore", "clear", "home"}
         => XSettled /\ current_cursor_y <= Height + 1
    /\ pc["isr"] \in {"loadX", "draw"} => at["isr"].y <= Height
    /\ pc["isr"] = "draw" => at["isr"].x <= Width

CursorInv == Labelled /\ MainInv /\ IsrInv

LEMMA Sizes == Width \in Nat \ {0} /\ Height \in Nat \ {0}
  BY ConsoleAssumption

LEMMA CursorInit == Init => CursorInv
  BY Sizes DEF Init, CursorInv, Labelled, MainInv, IsrInv, XSettled, YSettled,
               Process, Labels

LEMMA PrintkKeeps ==
    ASSUME NEW p \in Process, NEW texts, CursorInv, printk(p, texts)
    PROVE  CursorInv'
  BY Sizes DEF printk, At, Goto, CursorInv, Labelled, MainInv, IsrInv, XSettled,
               YSettled, Process, Labels

\* vbe_put_string takes a character; a new line sets x to 0 in between.
LEMMA PutStringKeeps ==
    ASSUME NEW p \in Process, CursorInv, PutString(p)
    PROVE  CursorInv'
  BY Sizes DEF PutString, At, Goto, Continue, CursorInv, Labelled, MainInv,
               IsrInv, XSettled, YSettled, Process, Labels

\* What kernel_main loads is on the screen, what a handler loads nearly.
LEMMA LoadYKeeps ==
    ASSUME NEW p \in Process, CursorInv, LoadY(p)
    PROVE  CursorInv'
  BY Sizes DEF LoadY, At, Goto, Continue, CursorInv, Labelled, MainInv,
               IsrInv, XSettled, YSettled, Process, Labels

LEMMA LoadXKeeps ==
    ASSUME NEW p \in Process, CursorInv, LoadX(p)
    PROVE  CursorInv'
  BY Sizes DEF LoadX, At, Goto, Continue, CursorInv, Labelled, MainInv,
               IsrInv, XSettled, YSettled, Process, Labels

LEMMA DrawKeeps ==
    ASSUME NEW p \in Process, CursorInv, vbe_draw_char(p)
    PROVE  CursorInv'
  BY Sizes DEF vbe_draw_char, At, Goto, Continue, CursorInv, Labelled, MainInv,
               IsrInv, XSettled, YSettled, Process, Labels

\* kernel_main increments a value below the width: nothing a handler left
\* behind can be larger.
LEMMA IncXKeeps ==
    ASSUME NEW p \in Process, CursorInv, IncX(p)
    PROVE  CursorInv'
  BY Sizes DEF IncX, At, Goto, Continue, CursorInv, Labelled, MainInv,
               IsrInv, XSettled, YSettled, Process, Labels

LEMMA IncStoreXKeeps ==
    ASSUME NEW p \in Process, CursorInv, IncStoreX(p)
    PROVE  CursorInv'
  BY Sizes DEF IncStoreX, At, Goto, Continue, CursorInv, Labelled, MainInv,
               IsrInv, XSettled, YSettled, Process, Labels

\* advance_cursor lets go of x only when it is on the screen.
LEMMA WrapKeeps ==
    ASSUME NEW p \in Process, CursorInv, Wrap(p)
    PROVE  CursorInv'
  BY Sizes DEF Wrap, At, Goto, Continue, EndChar, CursorInv, Labelled, MainInv,
               IsrInv, XSettled, YSettled, Process, Labels

LEMMA ZeroXKeeps ==
    ASSUME NEW p \in Process, CursorInv, ZeroX(p)
    PROVE  CursorInv'
  BY Sizes DEF ZeroX, At, Goto, Continue, CursorInv, Labelled, MainInv,
               IsrInv, XSettled, YSettled, Process, Labels

\* The same for y.
LEMMA DownKeeps ==
    ASSUME NEW p \in Process, CursorInv, Down(p)
    PROVE  CursorInv'
  BY Sizes DEF Down, At, Goto, Continue, CursorInv, Labelled, MainInv,
               IsrInv, XSettled, YSettled, Process, Labels

LEMMA DownStoreKeeps ==
    ASSUME NEW p \in Process, CursorInv, DownStore(p)
    PROVE  CursorInv'
  BY Sizes DEF DownStore, At, Goto, Continue, CursorInv, Labelled, MainInv,
               IsrInv, XSettled, YSettled, Process, Labels

LEMMA FullKeeps ==
    ASSUME NEW p \in Process, CursorInv, Full(p)
    PROVE  CursorInv'
  BY Sizes DEF Full, At, Goto, Continue, EndChar, CursorInv, Labelled, MainInv,
               IsrInv, XSettled, YSettled, Process, Labels

\* And vbe_scroll of y.
LEMMA ScrollKeeps ==
    ASSUME NEW p \in Process, CursorInv, vbe_scroll(p)
    PROVE  CursorInv'
  BY Sizes DEF vbe_scroll, At, Goto, Continue, EndChar, CursorInv, Labelled, MainInv,
               IsrInv, XSettled, YSettled, Process, Labels

LEMMA CopyLoadKeeps ==
    ASSUME NEW p \in Process, CursorInv, CopyLoad(p)
    PROVE  CursorInv'
  BY Sizes DEF CopyLoad, At, Goto, Continue, CursorInv, Labelled, MainInv,
               IsrInv, XSettled, YSettled, Process, Labels

LEMMA CopyStoreKeeps ==
    ASSUME NEW p \in Process, CursorInv, CopyStore(p)
    PROVE  CursorInv'
  BY Sizes DEF CopyStore, At, Goto, Continue, CursorInv, Labelled, MainInv,
               IsrInv, XSettled, YSettled, Process, Labels

LEMMA ClearKeeps ==
    ASSUME NEW p \in Process, CursorInv, Clear(p)
    PROVE  CursorInv'
  BY Sizes DEF Clear, At, Goto, Continue, CursorInv, Labelled, MainInv,
               IsrInv, XSettled, YSettled, Process, Labels

LEMMA HomeKeeps ==
    ASSUME NEW p \in Process, CursorInv, Home(p)
    PROVE  CursorInv'
  BY Sizes DEF Home, At, Goto, EndChar, CursorInv, Labelled, MainInv,
               IsrInv, XSettled, YSettled, Process, Labels

LEMMA CursorStep == CursorInv /\ [Next]_vars => CursorInv'
  <1> SUFFICES ASSUME CursorInv, [Next]_vars PROVE CursorInv'
    OBVIOUS
  <1>1. CASE UNCHANGED vars
    BY <1>1 DEF vars, CursorInv, Labelled, MainInv, IsrInv, XSettled, YSettled
  <1>2. CASE printk("main", MainTexts) \/ printk("isr", IsrTexts)
    BY <1>2, PrintkKeeps DEF Process
  <1>3. ASSUME NEW p \in Process, Step(p) PROVE CursorInv'
    BY <1>3, PutStringKeeps, LoadYKeeps, LoadXKeeps, DrawKeeps, IncXKeeps,
            IncStoreXKeeps, WrapKeeps, ZeroXKeeps, DownKeeps,
            DownStoreKeeps, FullKeeps, ScrollKeeps, CopyLoadKeeps,
            CopyStoreKeeps, ClearKeeps, HomeKeeps
       DEF Step
  <1> QED BY <1>1, <1>2, <1>3 DEF Next

LEMMA CursorInvHolds == Spec => []CursorInv
  BY CursorInit, CursorStep, PTL DEF Spec
-----------------------------------------------------------------------------
\* What is printed and copied: a text is not exhausted inside vbe_put_char, a
\* line that is copied is not the last.
Storage ==
    /\ framebuffer \in [0..(Height - 1) -> Line]
    /\ xmm \in Line
    /\ str \in [Process -> Seq(Glyphs \cup {NewLine})]
    /\ line \in [Process -> 0..(Height - 1)]

StorageInv ==
    /\ Storage
    /\ \A p \in Process :
         /\ pc[p] \notin {"idle", "next"} => str[p] # <<>>
         /\ pc[p] \in {"loadY", "loadX", "draw"} => Head(str[p]) \in Glyphs
         /\ pc[p] = "copyStore" => line[p] < Height - 1

LEMMA BlankLine == Blank \in Line
  BY DEF Blank, Line

LEMMA StorageInit == Init => StorageInv
  <1> SUFFICES ASSUME Init PROVE StorageInv
    OBVIOUS
  <1>1. framebuffer \in [0..(Height - 1) -> Line] /\ xmm \in Line
    BY BlankLine DEF Init
  <1>2. line \in [Process -> 0..(Height - 1)]
    BY Sizes DEF Init
  <1>3. str \in [Process -> Seq(Glyphs \cup {NewLine})]
    BY DEF Init
  <1> QED BY <1>1, <1>2, <1>3 DEF Init, StorageInv, Storage, Process

LEMMA PrintkStores ==
    ASSUME NEW p \in Process, NEW texts \in SUBSET Seq(Glyphs \cup {NewLine}),
           pc \in [Process -> Labels], StorageInv, printk(p, texts)
    PROVE  StorageInv'
  BY DEF printk, At, Goto, StorageInv, Storage, Process, Labels

\* A character is done with: what is left of the text is a text.
LEMMA EndCharStores ==
    ASSUME NEW p \in Process, pc \in [Process -> Labels], StorageInv,
           pc[p] \notin {"idle", "next"}, EndChar(p),
           UNCHANGED <<framebuffer, xmm>>,
           line' = line \/ line' = [line EXCEPT ![p] = 0]
    PROVE  StorageInv'
  <1>1. Tail(str[p]) \in Seq(Glyphs \cup {NewLine})
    <2> DEFINE S == Glyphs \cup {NewLine}
               t == str[p]
    <2>1. t \in Seq(S) /\ t # <<>>
      BY DEF StorageInv, Storage
    <2> HIDE DEF S, t
    <2>2. Tail(t) \in Seq(S)
      BY <2>1
    <2> QED BY <2>2 DEF S, t
  <1>2. str' \in [Process -> Seq(Glyphs \cup {NewLine})]
    BY <1>1 DEF EndChar, StorageInv, Storage
  <1>3. \A q \in Process : q # p => pc'[q] = pc[q] /\ str'[q] = str[q] /\ line'[q] = line[q]
    BY DEF EndChar, Goto, StorageInv, Storage, Process
  <1>4. pc'[p] = "next"
    BY DEF EndChar, Goto
  <1>5. line' \in [Process -> 0..(Height - 1)]
    <2> DEFINE L == 0..(Height - 1)
    <2>1. 0 \in L
      BY Sizes
    <2>2. line \in [Process -> L]
      BY DEF StorageInv, Storage
    <2> HIDE DEF L
    <2>3. line' \in [Process -> L]
      BY <2>1, <2>2
    <2> QED BY <2>3 DEF L
  <1>6. Storage'
    BY <1>2, <1>5 DEF StorageInv, Storage
  <1> QED BY <1>3, <1>4, <1>6 DEF StorageInv

LEMMA PutStringStores ==
    ASSUME NEW p \in Process, pc \in [Process -> Labels], StorageInv, PutString(p)
    PROVE  StorageInv'
  BY Sizes, BlankLine DEF PutString, At, Goto, Continue, StorageInv, Storage, Process, Labels

LEMMA LoadYStores ==
    ASSUME NEW p \in Process, pc \in [Process -> Labels], StorageInv, LoadY(p)
    PROVE  StorageInv'
  BY Sizes, BlankLine DEF LoadY, At, Goto, Continue, StorageInv, Storage, Process, Labels

LEMMA LoadXStores ==
    ASSUME NEW p \in Process, pc \in [Process -> Labels], StorageInv, LoadX(p)
    PROVE  StorageInv'
  BY Sizes, BlankLine DEF LoadX, At, Goto, Continue, StorageInv, Storage, Process, Labels

LEMMA DrawStores ==
    ASSUME NEW p \in Process, pc \in [Process -> Labels], StorageInv, vbe_draw_char(p)
    PROVE  StorageInv'
  <1>1. Head(str[p]) \in Glyphs
    BY DEF vbe_draw_char, At, StorageInv
  <1>2. framebuffer' \in [0..(Height - 1) -> Line]
    BY <1>1 DEF vbe_draw_char, StorageInv, Storage, Line
  <1> QED BY <1>2 DEF vbe_draw_char, At, Goto, Continue, StorageInv, Storage, Process, Labels

LEMMA IncXStores ==
    ASSUME NEW p \in Process, pc \in [Process -> Labels], StorageInv, IncX(p)
    PROVE  StorageInv'
  BY Sizes, BlankLine DEF IncX, At, Goto, Continue, StorageInv, Storage, Process, Labels

LEMMA IncStoreXStores ==
    ASSUME NEW p \in Process, pc \in [Process -> Labels], StorageInv, IncStoreX(p)
    PROVE  StorageInv'
  BY Sizes, BlankLine DEF IncStoreX, At, Goto, Continue, StorageInv, Storage, Process, Labels

LEMMA WrapStores ==
    ASSUME NEW p \in Process, pc \in [Process -> Labels], StorageInv, Wrap(p)
    PROVE  StorageInv'
  <1>1. CASE EndChar(p)
    BY <1>1, EndCharStores DEF Wrap, At
  <1>2. CASE ~ EndChar(p)
    BY <1>2, Sizes DEF Wrap, At, Goto, Continue, StorageInv, Storage, Process, Labels
  <1> QED BY <1>1, <1>2

LEMMA ZeroXStores ==
    ASSUME NEW p \in Process, pc \in [Process -> Labels], StorageInv, ZeroX(p)
    PROVE  StorageInv'
  BY Sizes, BlankLine DEF ZeroX, At, Goto, Continue, StorageInv, Storage, Process, Labels

LEMMA DownStores ==
    ASSUME NEW p \in Process, pc \in [Process -> Labels], StorageInv, Down(p)
    PROVE  StorageInv'
  BY Sizes, BlankLine DEF Down, At, Goto, Continue, StorageInv, Storage, Process, Labels

LEMMA DownStoreStores ==
    ASSUME NEW p \in Process, pc \in [Process -> Labels], StorageInv, DownStore(p)
    PROVE  StorageInv'
  BY Sizes, BlankLine DEF DownStore, At, Goto, Continue, StorageInv, Storage, Process, Labels

LEMMA FullStores ==
    ASSUME NEW p \in Process, pc \in [Process -> Labels], StorageInv, Full(p)
    PROVE  StorageInv'
  <1>1. CASE EndChar(p)
    BY <1>1, EndCharStores DEF Full, At
  <1>2. CASE ~ EndChar(p)
    BY <1>2, Sizes DEF Full, At, Goto, Continue, StorageInv, Storage, Process, Labels
  <1> QED BY <1>1, <1>2

LEMMA ScrollStores ==
    ASSUME NEW p \in Process, pc \in [Process -> Labels], StorageInv, vbe_scroll(p)
    PROVE  StorageInv'
  <1>1. CASE EndChar(p)
    BY <1>1, EndCharStores DEF vbe_scroll, At
  <1>2. CASE ~ EndChar(p)
    BY <1>2, Sizes DEF vbe_scroll, At, Goto, Continue, StorageInv, Storage, Process, Labels
  <1> QED BY <1>1, <1>2

LEMMA CopyLoadStores ==
    ASSUME NEW p \in Process, pc \in [Process -> Labels], StorageInv, CopyLoad(p)
    PROVE  StorageInv'
  BY Sizes, BlankLine DEF CopyLoad, At, Goto, Continue, StorageInv, Storage, Process, Labels

LEMMA CopyStoreStores ==
    ASSUME NEW p \in Process, pc \in [Process -> Labels], StorageInv, CopyStore(p)
    PROVE  StorageInv'
  BY Sizes, BlankLine DEF CopyStore, At, Goto, Continue, StorageInv, Storage, Process, Labels

LEMMA ClearStores ==
    ASSUME NEW p \in Process, pc \in [Process -> Labels], StorageInv, Clear(p)
    PROVE  StorageInv'
  BY Sizes, BlankLine DEF Clear, At, Goto, Continue, StorageInv, Storage, Process, Labels

LEMMA HomeStores ==
    ASSUME NEW p \in Process, pc \in [Process -> Labels], StorageInv, Home(p)
    PROVE  StorageInv'
  BY EndCharStores DEF Home, At

LEMMA StorageStep ==
    ASSUME pc \in [Process -> Labels], StorageInv, [Next]_vars
    PROVE  StorageInv'
  <1>1. CASE UNCHANGED vars
    BY <1>1 DEF vars, StorageInv, Storage
  <1>2. CASE printk("main", MainTexts) \/ printk("isr", IsrTexts)
    BY <1>2, PrintkStores, ConsoleAssumption DEF Process
  <1>3. ASSUME NEW p \in Process, Step(p) PROVE StorageInv'
    BY <1>3, PutStringStores, LoadYStores, LoadXStores, DrawStores,
            IncXStores, IncStoreXStores, WrapStores, ZeroXStores,
            DownStores, DownStoreStores, FullStores, ScrollStores,
            CopyLoadStores, CopyStoreStores, ClearStores, HomeStores
       DEF Step
  <1> QED BY <1>1, <1>2, <1>3 DEF Next

\* The variables of the console keep their types; in particular the cursor is
\* never more than one past the edges (vbe.c:78-84, 105).
THEOREM ConsoleTyping == Spec => []TypeOK
  <1>1. CursorInv => pc \in [Process -> Labels]
    BY DEF CursorInv, Labelled
  <1>2. CursorInv /\ StorageInv /\ [Next]_vars => StorageInv'
    BY <1>1, StorageStep
  <1>3. CursorInv /\ StorageInv => TypeOK
    <2> SUFFICES ASSUME CursorInv, StorageInv PROVE TypeOK
      OBVIOUS
    <2>1. current_cursor_x \in 0..(Width + 1) /\ current_cursor_y \in 0..(Height + 1)
      BY Sizes DEF CursorInv, Labelled, IsrInv, XSettled, YSettled, Process, Labels
    <2> QED BY <2>1 DEF TypeOK, CursorInv, Labelled, StorageInv, Storage
  <1> QED BY CursorInvHolds, StorageInit, <1>2, <1>3, PTL DEF Spec

-----------------------------------------------------------------------------
\* Wherever the interrupts fall, kernel_main draws on the screen and a handler
\* overruns it by at most one cell and one line (vbe.c:76-112).
THEOREM DrawsStayBounded == Spec => []DrawsBounded
  <1>1. CursorInv => DrawsBounded
    BY DEF CursorInv, Labelled, MainInv, IsrInv, DrawsBounded, Process
  <1> QED BY CursorInvHolds, <1>1, PTL

\* A handler that interrupted kernel_main anywhere leaves a cursor kernel_main
\* finds on the screen at its next character (vbe.c:102-112).
THEOREM CursorComesBack == Spec => []CursorOnScreen
  <1>1. CursorInv => CursorOnScreen
    BY DEF CursorInv, IsrInv, XSettled, YSettled, CursorOnScreen
  <1> QED BY CursorInvHolds, <1>1, PTL
-----------------------------------------------------------------------------
\* The history variable and the screen while nothing interrupts kernel_main.

\* Lines of at most the width, of cells that were drawn into.
Sheet(lines) ==
    /\ lines \in Seq(Seq(SUBSET Glyphs)) /\ Len(lines) \in 1..Height
    /\ \A n \in 1..Len(lines) :
         /\ Len(lines[n]) <= Width
         /\ \A c \in 1..Len(lines[n]) : lines[n][c] # {}

\* A character fits in the last line.
Room(lines) == Len(lines[Len(lines)]) < Width

\* The frame buffer with the lines on it.
Drawn(lines) ==
    [l \in 0..(Height - 1) |-> [c \in 0..(Width - 1) |->
       IF l < Len(lines) /\ c < Len(lines[l + 1]) THEN lines[l + 1][c + 1] ELSE {}]]

\* The same when k lines were copied to the one above.
Moved(lines, k) ==
    [l \in 0..(Height - 1) |-> IF l < k THEN Drawn(lines)[l + 1] ELSE Drawn(lines)[l]]

\* The character vbe_put_char is printing, and the lines with it.
Char == Head(str["main"])

Typed ==
    [shown EXCEPT ![Len(shown)] =
       IF Char = NewLine THEN shown[Len(shown)] ELSE Append(shown[Len(shown)], {Char})]

\* The lines once the terminal has made room for a new one.
Broken(lines) ==
    IF Len(lines) = Height THEN Tail(Append(lines, <<>>)) ELSE Append(lines, <<>>)

LineFull == Char # NewLine => Len(Typed[Len(shown)]) = Width

\* What is on the screen at each place of vbe_put_char.
Printing ==
    LET n     == Len(shown)
        label == pc["main"]
    IN  /\ label \in {"idle", "next", "loadY", "loadX", "draw", "inc", "incStore"} =>
             current_cursor_x = Len(shown[n]) /\ current_cursor_y = n - 1
        /\ label \in {"idle", "next", "loadY", "loadX", "draw"} => framebuffer = Drawn(shown)
        /\ label \in {"loadX", "draw"} => at["main"].y = current_cursor_y
        /\ label = "draw" => at["main"].x = current_cursor_x
        /\ label \in {"loadY", "loadX", "draw", "inc", "incStore", "wrap", "zero", "full"} =>
             Char # NewLine
        /\ label \in {"inc", "incStore", "wrap", "zero", "down", "downStore", "full", "scroll"} =>
             framebuffer = Drawn(Typed)
        /\ label = "incStore" => reg["main"] = current_cursor_x
        /\ label = "wrap" => current_cursor_x = Len(Typed[n])
        /\ label \in {"wrap", "zero", "down", "downStore"} => current_cursor_y = n - 1
        /\ label = "downStore" => reg["main"] = current_cursor_y
        /\ label \in {"full", "scroll", "copy", "copyStore", "clear", "home"} =>
             current_cursor_y = n
        /\ label \in {"zero", "down", "downStore", "full", "scroll", "copy", "copyStore",
                      "clear", "home"} => LineFull
        /\ label \in {"down", "downStore", "full", "scroll", "copy", "copyStore",
                      "clear", "home"} => current_cursor_x = 0
        /\ label \in {"copy", "copyStore", "clear", "home"} => n = Height
        /\ label \in {"copy", "copyStore"} => framebuffer = Moved(Typed, line["main"])
        /\ label = "copyStore" => xmm = Drawn(Typed)[line["main"] + 1]
        /\ label = "clear" => framebuffer = Moved(Typed, Height - 1) /\ xmm = Blank
        /\ label = "home" => framebuffer = Drawn(Broken(Typed))

AloneInv ==
    alone => pc["isr"] = "idle" /\ Sheet(shown) /\ Room(shown) /\ Printing
-----------------------------------------------------------------------------
LEMMA MinOfTwo ==
    ASSUME NEW x \in Int, NEW y \in Int, x <= y
    PROVE  Min({x, y}) = x
  BY DEF Min

LEMMA SheetLines ==
    ASSUME NEW lines, Sheet(lines)
    PROVE  /\ Len(lines) \in Nat /\ Len(lines) >= 1 /\ Len(lines) <= Height
           /\ \A n \in 1..Len(lines) :
                /\ lines[n] \in Seq(SUBSET Glyphs) /\ Len(lines[n]) \in Nat
                /\ Len(lines[n]) <= Width
                /\ \A c \in 1..Len(lines[n]) : lines[n][c] # {}
  <1> DEFINE S == Seq(SUBSET Glyphs)
  <1>1. \A text \in S : Len(text) \in Nat
    OBVIOUS
  <1> HIDE DEF S
  <1>2. lines \in Seq(S) /\ Len(lines) \in 1..Height
    BY DEF Sheet, S
  <1>3. \A n \in 1..Len(lines) : lines[n] \in S
    BY <1>2
  <1>4. Len(lines) \in Nat /\ Len(lines) >= 1 /\ Len(lines) <= Height
    BY <1>2, Sizes
  <1>5. \A n \in 1..Len(lines) :
          Len(lines[n]) <= Width /\ \A c \in 1..Len(lines[n]) : lines[n][c] # {}
    BY DEF Sheet
  <1> QED BY <1>1, <1>3, <1>4, <1>5 DEF S

LEMMA SheetOf ==
    ASSUME NEW lines \in Seq(Seq(SUBSET Glyphs)), Len(lines) >= 1, Len(lines) <= Height,
           \A n \in 1..Len(lines) :
             Len(lines[n]) <= Width /\ \A c \in 1..Len(lines[n]) : lines[n][c] # {}
    PROVE  Sheet(lines)
  <1> DEFINE S == Seq(SUBSET Glyphs)
  <1>1. lines \in Seq(S)
    OBVIOUS
  <1> HIDE DEF S
  <1>2. Len(lines) \in Nat
    BY <1>1
  <1>3. Len(lines) \in 1..Height
    BY <1>2, Sizes
  <1> QED BY <1>3 DEF Sheet

\* A line is read back from its cells.
LEMMA TextIs ==
    ASSUME NEW text \in Seq(SUBSET Glyphs), Len(text) <= Width,
           \A c \in 1..Len(text) : text[c] # {},
           NEW cells, cells = [c \in 0..(Width - 1) |-> IF c < Len(text) THEN text[c + 1] ELSE {}]
    PROVE  Text(cells) = text
  <1> DEFINE n == Len(text)
             written == {d \in DOMAIN cells : cells[d] # {}}
  <1>1. n \in Nat /\ n <= Width
    OBVIOUS
  <1>2. written = 0..(n - 1)
    <2>1. ASSUME NEW d \in 0..(Width - 1) PROVE cells[d] # {} <=> d < n
      <3>1. CASE d < n
        <4>1. d + 1 \in 1..n
          BY <1>1, <3>1
        <4> QED BY <3>1, <4>1
      <3>2. CASE ~ (d < n)
        BY <3>2
      <3> QED BY <3>1, <3>2
    <2>2. DOMAIN cells = 0..(Width - 1)
      OBVIOUS
    <2>3. written = {d \in 0..(Width - 1) : d < n}
      BY <2>1, <2>2
    <2> HIDE DEF n, written
    <2> QED BY <1>1, <2>3, Sizes
  <1>3. Cardinality(written) = n
    <2> HIDE DEF n, written
    <2>1. 0 \in Int /\ n - 1 \in Int
      BY <1>1
    <2>2. Cardinality(0..(n - 1)) = IF 0 > n - 1 THEN 0 ELSE (n - 1) - 0 + 1
      BY <2>1, FS_Interval
    <2>3. (IF 0 > n - 1 THEN 0 ELSE (n - 1) - 0 + 1) = n
      BY <1>1
    <2> QED BY <1>2, <2>2, <2>3
  <1>4. Text(cells) = [c \in 1..n |-> cells[c - 1]]
    BY <1>3 DEF Text
  <1>5. \A c \in 1..n : cells[c - 1] = text[c]
    <2> SUFFICES ASSUME NEW c \in 1..n PROVE cells[c - 1] = text[c]
      OBVIOUS
    <2>1. c - 1 \in 0..(Width - 1) /\ c - 1 < n /\ (c - 1) + 1 = c
      BY <1>1, Sizes
    <2> QED BY <2>1
  <1>6. text = [c \in 1..n |-> text[c]]
    OBVIOUS
  <1> QED BY <1>4, <1>5, <1>6

\* The screen is read back from the frame buffer.
LEMMA ScreenIs ==
    ASSUME NEW lines, Sheet(lines), NEW y, y = Len(lines) - 1
    PROVE  [l \in 1..Min({y + 1, Height}) |-> Text(Drawn(lines)[l - 1])] = lines
  <1>1. lines \in Seq(Seq(SUBSET Glyphs)) /\ Len(lines) \in 1..Height /\ Len(lines) \in Nat
    BY DEF Sheet
  <1>2. Min({y + 1, Height}) = Len(lines)
    <2>1. y + 1 = Len(lines) /\ Len(lines) <= Height /\ Len(lines) \in Int /\ Height \in Int
      BY <1>1, Sizes
    <2> QED BY <2>1, MinOfTwo
  <1>3. ASSUME NEW l \in 1..Len(lines) PROVE Text(Drawn(lines)[l - 1]) = lines[l]
    <2>1. l - 1 \in 0..(Height - 1) /\ l - 1 < Len(lines) /\ (l - 1) + 1 = l
      BY <1>1, Sizes
    <2>2. Drawn(lines)[l - 1] =
            [c \in 0..(Width - 1) |-> IF c < Len(lines[l]) THEN lines[l][c + 1] ELSE {}]
      BY <2>1 DEF Drawn
    <2>3. lines[l] \in Seq(SUBSET Glyphs) /\ Len(lines[l]) <= Width
          /\ \A c \in 1..Len(lines[l]) : lines[l][c] # {}
      BY SheetLines
    <2> QED BY <2>2, <2>3, TextIs
  <1>4. lines = [l \in 1..Len(lines) |-> lines[l]]
    BY <1>1
  <1> QED BY <1>2, <1>3, <1>4

\* The lines with a character at their end.
LEMMA TypedIs ==
    ASSUME Sheet(shown), Room(shown), Char \in Glyphs \cup {NewLine}
    PROVE  /\ Sheet(Typed) /\ Len(Typed) = Len(shown)
           /\ \A n \in 1..(Len(shown) - 1) : Typed[n] = shown[n]
           /\ Char = NewLine => Typed = shown
           /\ Char # NewLine =>
                Typed[Len(shown)] = Append(shown[Len(shown)], {Char})
  <1> DEFINE n == Len(shown)
             last == shown[n]
             new == IF Char = NewLine THEN last ELSE Append(last, {Char})
  <1>1. /\ shown \in Seq(Seq(SUBSET Glyphs)) /\ n \in 1..n /\ n \in Nat
        /\ last \in Seq(SUBSET Glyphs) /\ Len(last) \in Nat /\ Len(last) < Width
        /\ \A c \in 1..Len(last) : last[c] # {}
    <2>1. shown \in Seq(Seq(SUBSET Glyphs))
      BY DEF Sheet
    <2>2. n \in Nat /\ n >= 1
      BY SheetLines
    <2>3. n \in 1..n
      BY <2>2
    <2>4. last \in Seq(SUBSET Glyphs) /\ Len(last) \in Nat
          /\ \A c \in 1..Len(last) : last[c] # {}
      BY <2>3, SheetLines
    <2> QED BY <2>1, <2>2, <2>3, <2>4 DEF Room
  <1>2. new \in Seq(SUBSET Glyphs) /\ Len(new) <= Width /\ \A c \in 1..Len(new) : new[c] # {}
    <2>1. CASE Char = NewLine
      <3>1. new = last
        BY <2>1
      <3> HIDE DEF new, last
      <3>2. Len(last) <= Width
        BY <1>1, Sizes
      <3> QED BY <1>1, <3>1, <3>2, Zenon
    <2>2. CASE Char # NewLine
      <3>1. {Char} \in SUBSET Glyphs /\ {Char} # {}
        BY <2>2
      <3>2. /\ Append(last, {Char}) \in Seq(SUBSET Glyphs)
            /\ Len(Append(last, {Char})) = Len(last) + 1
            /\ \A c \in 1..Len(last) : Append(last, {Char})[c] = last[c]
            /\ Append(last, {Char})[Len(last) + 1] = {Char}
        <4> HIDE DEF last
        <4> QED BY <1>1, <3>1, AppendProperties
      <3>3. Append(last, {Char})[Len(last) + 1] # {}
        BY <3>2
      <3>4. new = Append(last, {Char})
        BY <2>2
      <3> HIDE DEF last, new
      <3>5. ASSUME NEW c \in 1..(Len(last) + 1) PROVE new[c] # {}
        <4>1. c = Len(last) + 1 \/ c \in 1..Len(last)
          BY <1>1
        <4> QED BY <1>1, <3>2, <3>3, <3>4, <4>1
      <3>6. Len(new) = Len(last) + 1 /\ Len(new) <= Width
        BY <1>1, <3>2, <3>4, Sizes
      <3>7. new \in Seq(SUBSET Glyphs)
        BY <3>2, <3>4
      <3> QED BY <3>5, <3>6, <3>7
    <2> QED BY <2>1, <2>2
  <1>3. Typed = [shown EXCEPT ![n] = new]
    BY DEF Typed
  <1> HIDE DEF new
  <1>4. /\ Typed \in Seq(Seq(SUBSET Glyphs)) /\ Len(Typed) = n /\ Typed[n] = new
        /\ \A k \in 1..n : k # n => Typed[k] = shown[k]
    BY <1>1, <1>2, <1>3
  <1>5. Sheet(Typed)
    <2>1. \A k \in 1..n : Len(shown[k]) <= Width /\ \A c \in 1..Len(shown[k]) : shown[k][c] # {}
      BY SheetLines
    <2>2. \A k \in 1..n : Len(Typed[k]) <= Width /\ \A c \in 1..Len(Typed[k]) : Typed[k][c] # {}
      BY <1>2, <1>4, <2>1
    <2>3. n >= 1 /\ n <= Height
      BY SheetLines
    <2> QED BY <1>4, <2>2, <2>3, SheetOf
  <1>6. \A k \in 1..(n - 1) : k \in 1..n /\ k # n
    BY <1>1
  <1>7. Char = NewLine => Typed = shown
    BY <1>1, <1>3 DEF new
  <1> QED BY <1>4, <1>5, <1>6, <1>7 DEF new

\* A new line is blank; the oldest one leaves when there is no room.
LEMMA BrokenIs ==
    ASSUME NEW lines, Sheet(lines)
    PROVE  /\ Sheet(Broken(lines)) /\ Room(Broken(lines))
           /\ Broken(lines)[Len(Broken(lines))] = <<>>
           /\ Len(lines) < Height =>
                Len(Broken(lines)) = Len(lines) + 1 /\ Drawn(Broken(lines)) = Drawn(lines)
           /\ Len(lines) = Height =>
                /\ Len(Broken(lines)) = Height
                /\ Drawn(Broken(lines)) =
                     [l \in 0..(Height - 1) |->
                        IF l = Height - 1 THEN Blank ELSE Drawn(lines)[l + 1]]
  <1> DEFINE n == Len(lines)
             more == Append(lines, <<>>)
             S == Seq(SUBSET Glyphs)
  <1>1. lines \in Seq(S) /\ n \in Nat /\ n \in 1..Height
    BY SheetLines, Sizes DEF Sheet
  <1>2. <<>> \in S /\ Len(<<>>) = 0 /\ 0 <= Width /\ 0 < Width
    BY Sizes
  <1> HIDE DEF S
  <1>3. /\ more \in Seq(S) /\ Len(more) = n + 1 /\ more[n + 1] = <<>>
        /\ \A k \in 1..n : more[k] = lines[k]
    BY <1>1, <1>2, AppendProperties
  <1>4. \A k \in 1..n : Len(lines[k]) <= Width /\ \A c \in 1..Len(lines[k]) : lines[k][c] # {}
    BY DEF Sheet
  <1> HIDE DEF more
  <1>5. \A k \in 1..(n + 1) : Len(more[k]) <= Width /\ \A c \in 1..Len(more[k]) : more[k][c] # {}
    <2> SUFFICES ASSUME NEW k \in 1..(n + 1)
                 PROVE  Len(more[k]) <= Width /\ \A c \in 1..Len(more[k]) : more[k][c] # {}
      OBVIOUS
    <2>1. CASE k = n + 1
      <3>1. more[k] = <<>>
        BY <1>3, <2>1
      <3>2. Len(more[k]) = 0 /\ 1..0 = {}
        BY <1>2, <3>1
      <3> QED BY <1>2, <3>2
    <2>2. CASE k # n + 1
      <3>1. k \in 1..n /\ more[k] = lines[k]
        BY <1>1, <1>3, <2>2
      <3> QED BY <1>4, <3>1
    <2> QED BY <2>1, <2>2
  <1>6. CASE n < Height
    <2>1. Broken(lines) = more
      BY <1>1, <1>6, Sizes DEF Broken, more
    <2>2. Sheet(more)
      <3>1. Len(more) >= 1 /\ Len(more) <= Height
        BY <1>1, <1>3, <1>6, Sizes
      <3> QED BY <1>3, <1>5, <3>1, SheetOf DEF S
    <2>3. Room(more)
      BY <1>2, <1>3 DEF Room
    <2>4. Drawn(more) = Drawn(lines)
      <3>1. ASSUME NEW l \in 0..(Height - 1), NEW c \in 0..(Width - 1)
            PROVE  (IF l < Len(more) /\ c < Len(more[l + 1]) THEN more[l + 1][c + 1] ELSE {})
                   = (IF l < n /\ c < Len(lines[l + 1]) THEN lines[l + 1][c + 1] ELSE {})
        <4>1. CASE l < n
          <5>1. l + 1 \in 1..n /\ l < Len(more)
            BY <1>1, <1>3, <4>1
          <5> QED BY <1>3, <4>1, <5>1
        <4>2. CASE l = n
          <5>1. ~ (l < n) /\ more[l + 1] = <<>> /\ ~ (c < 0)
            BY <1>1, <1>3, <4>2
          <5> QED BY <1>2, <5>1
        <4>3. CASE l > n
          <5>1. ~ (l < n) /\ ~ (l < Len(more))
            BY <1>1, <1>3, <4>3
          <5> QED BY <5>1
        <4> QED BY <1>1, <4>1, <4>2, <4>3
      <3> QED BY <3>1 DEF Drawn
    <2>5. Len(more) = n + 1 /\ n # Height /\ more[Len(more)] = <<>>
      BY <1>1, <1>3, <1>6, Sizes
    <2> QED BY <2>1, <2>2, <2>3, <2>4, <2>5
  <1>7. CASE n = Height
    <2> DEFINE rest == Tail(more)
    <2>1. Broken(lines) = rest
      BY <1>7 DEF Broken, more
    <2>2. /\ rest \in Seq(S) /\ Len(rest) = n
          /\ \A k \in 1..n : rest[k] = more[k + 1]
      <3>1. more # <<>>
        BY <1>1, <1>3
      <3> QED BY <1>1, <1>3, <3>1, HeadTailProperties
    <2> HIDE DEF rest
    <2>3. \A k \in 1..n : k + 1 \in 1..(n + 1)
      BY <1>1
    <2>4. Sheet(rest)
      <3>1. Len(rest) >= 1 /\ Len(rest) <= Height
        BY <1>1, <1>7, <2>2, Sizes
      <3>2. \A k \in 1..n : Len(rest[k]) <= Width /\ \A c \in 1..Len(rest[k]) : rest[k][c] # {}
        BY <1>5, <2>2, <2>3
      <3> QED BY <2>2, <3>1, <3>2, SheetOf DEF S
    <2>5. rest[n] = <<>>
      BY <1>1, <1>3, <2>2
    <2>6. Room(rest)
      BY <1>2, <2>2, <2>5 DEF Room
    <2>7. Drawn(rest) = [l \in 0..(Height - 1) |->
                           IF l = Height - 1 THEN Blank ELSE Drawn(lines)[l + 1]]
      <3>1. ASSUME NEW l \in 0..(Height - 1)
            PROVE  Drawn(rest)[l] = IF l = Height - 1 THEN Blank ELSE Drawn(lines)[l + 1]
        <4>1. l + 1 \in 1..n /\ l < n /\ l \in 0..(Height - 1)
          BY <1>1, <1>7
        <4>2. Drawn(rest)[l] = [c \in 0..(Width - 1) |->
                                 IF c < Len(rest[l + 1]) THEN rest[l + 1][c + 1] ELSE {}]
          BY <2>2, <4>1 DEF Drawn
        <4>3. CASE l = Height - 1
          <5>1. rest[l + 1] = <<>>
            BY <1>1, <1>7, <2>5, <4>3, Sizes
          <5>2. \A c \in 0..(Width - 1) : ~ (c < 0)
            OBVIOUS
          <5>3. Drawn(rest)[l] = [c \in 0..(Width - 1) |-> {}]
            BY <1>2, <4>2, <5>1, <5>2
          <5> QED BY <4>3, <5>3 DEF Blank
        <4>4. CASE l # Height - 1
          <5>1. l + 1 \in 0..(Height - 1) /\ l + 1 < n /\ (l + 1) + 1 \in 1..n
            BY <1>1, <1>7, <4>4, Sizes
          <5>2. rest[l + 1] = lines[(l + 1) + 1]
            BY <1>3, <2>2, <4>1, <5>1
          <5>3. Drawn(lines)[l + 1] =
                  [c \in 0..(Width - 1) |->
                     IF c < Len(lines[(l + 1) + 1]) THEN lines[(l + 1) + 1][c + 1] ELSE {}]
            BY <5>1 DEF Drawn
          <5> QED BY <4>2, <4>4, <5>2, <5>3
        <4> QED BY <4>3, <4>4
      <3>2. DOMAIN Drawn(rest) = 0..(Height - 1)
            /\ Drawn(rest) = [l \in 0..(Height - 1) |-> Drawn(rest)[l]]
        BY DEF Drawn
      <3> QED BY <3>1, <3>2
    <2>8. Len(rest) = Height /\ ~ (n < Height) /\ rest[Len(rest)] = <<>>
      BY <1>1, <1>7, <2>2, <2>5, Sizes
    <2> QED BY <2>1, <2>4, <2>6, <2>7, <2>8
  <1>8. n < Height \/ n = Height
    BY <1>1, Sizes
  <1> QED BY <1>6, <1>7, <1>8, Sizes
-----------------------------------------------------------------------------
\* kernel_main prints alone.
Undisturbed ==
    /\ alone /\ pc["isr"] = "idle" /\ Labelled /\ StorageInv
    /\ Sheet(shown) /\ Room(shown) /\ Printing

\* A character is printed: the lines are on the screen, the cursor behind them.
Shows(lines) ==
    /\ Sheet(lines) /\ Room(lines) /\ framebuffer = Drawn(lines)
    /\ current_cursor_x = Len(lines[Len(lines)]) /\ current_cursor_y = Len(lines) - 1

LEMMA TypedFacts ==
    ASSUME Undisturbed, pc["main"] \notin {"idle", "next"}
    PROVE  /\ Char \in Glyphs \cup {NewLine}
           /\ Len(shown) \in Nat /\ Len(shown) >= 1 /\ Len(shown) <= Height
           /\ Len(shown[Len(shown)]) \in Nat /\ Len(shown[Len(shown)]) < Width
           /\ Sheet(Typed) /\ Len(Typed) = Len(shown)
           /\ Len(Typed[Len(shown)]) \in Nat /\ Len(Typed[Len(shown)]) <= Width
           /\ Char # NewLine => Len(Typed[Len(shown)]) = Len(shown[Len(shown)]) + 1
  <1> DEFINE n == Len(shown)
  <1>1. Char \in Glyphs \cup {NewLine}
    <2> DEFINE S == Glyphs \cup {NewLine}
               t == str["main"]
    <2>1. t \in Seq(S) /\ t # <<>>
      BY DEF Undisturbed, StorageInv, Storage, Process
    <2> HIDE DEF S, t
    <2>2. Head(t) \in S
      BY <2>1
    <2> QED BY <2>2 DEF S, t, Char
  <1>2. n \in Nat /\ n >= 1 /\ n <= Height /\ n \in 1..n
    <2>1. n \in Nat /\ n >= 1 /\ n <= Height
      BY SheetLines DEF Undisturbed
    <2> QED BY <2>1
  <1>3. shown[n] \in Seq(SUBSET Glyphs) /\ Len(shown[n]) \in Nat /\ Len(shown[n]) < Width
    BY <1>2, SheetLines DEF Undisturbed, Room
  <1>4. /\ Sheet(Typed) /\ Len(Typed) = n
        /\ Char # NewLine => Typed[n] = Append(shown[n], {Char})
    BY <1>1, TypedIs DEF Undisturbed
  <1>5. Len(Typed[n]) \in Nat /\ Len(Typed[n]) <= Width
    BY <1>2, <1>4, SheetLines
  <1>6. ASSUME Char # NewLine PROVE Len(Typed[n]) = Len(shown[n]) + 1
    <2>1. {Char} \in SUBSET Glyphs
      BY <1>1, <1>6
    <2> DEFINE text == shown[n]
    <2>2. text \in Seq(SUBSET Glyphs) /\ Typed[n] = Append(text, {Char})
      BY <1>3, <1>4, <1>6
    <2> HIDE DEF text
    <2>3. Len(Append(text, {Char})) = Len(text) + 1
      BY <2>1, <2>2
    <2> QED BY <2>2, <2>3 DEF text
  <1> QED BY <1>1, <1>2, <1>3, <1>4, <1>5, <1>6

LEMMA SameTyped ==
    ASSUME str' = str, shown' = shown
    PROVE  Typed' = Typed /\ Char' = Char /\ (LineFull' <=> LineFull)
  BY DEF Typed, Char, LineFull

\* The glyph goes into the blank cell behind the last line.
LEMMA DrawnTyped ==
    ASSUME Undisturbed, pc["main"] = "draw", vbe_draw_char("main")
    PROVE  framebuffer' = Drawn(Typed)
  <1> DEFINE n == Len(shown)
             x == Len(shown[n])
             D(l, c) == IF l < n /\ c < Len(shown[l + 1]) THEN shown[l + 1][c + 1] ELSE {}
             E(l, c) == IF l < n /\ c < Len(Typed[l + 1]) THEN Typed[l + 1][c + 1] ELSE {}
  <1>1. /\ n \in Nat /\ n >= 1 /\ n <= Height /\ x \in Nat /\ x < Width
        /\ Char \in Glyphs /\ Char # NewLine /\ Len(Typed) = n
        /\ at["main"].x = x /\ at["main"].y = n - 1 /\ framebuffer = Drawn(shown)
    <2>1. Char # NewLine
      BY DEF Undisturbed, Printing
    <2> QED BY <2>1, TypedFacts DEF Undisturbed, Printing
  <1>2. /\ \A k \in 1..(n - 1) : Typed[k] = shown[k]
        /\ Typed[n] = Append(shown[n], {Char})
    BY <1>1, TypedIs DEF Undisturbed
  <1>3. /\ Len(Typed[n]) = x + 1 /\ Typed[n][x + 1] = {Char}
        /\ \A k \in 1..x : Typed[n][k] = shown[n][k]
    <2> DEFINE text == shown[n]
    <2>1. text \in Seq(SUBSET Glyphs)
      <3>1. n \in 1..n
        BY <1>1
      <3> QED BY <3>1, SheetLines DEF Undisturbed
    <2>2. {Char} \in SUBSET Glyphs
      BY <1>1
    <2> HIDE DEF text
    <2>3. /\ Len(Append(text, {Char})) = Len(text) + 1
          /\ Append(text, {Char})[Len(text) + 1] = {Char}
          /\ \A k \in 1..Len(text) : Append(text, {Char})[k] = text[k]
      BY <2>1, <2>2, AppendProperties
    <2> QED BY <1>2, <2>3 DEF text
  <1>4. Cells(at["main"].x, at["main"].y) = {<<x, n - 1>>}
    BY <1>1 DEF Cells
  <1>5. framebuffer' = [l \in 0..(Height - 1) |-> [c \in 0..(Width - 1) |->
                          IF c = x /\ l = n - 1 THEN D(l, c) \cup {Char} ELSE D(l, c)]]
    <2>1. \A l \in 0..(Height - 1), c \in 0..(Width - 1) : framebuffer[l][c] = D(l, c)
      BY <1>1 DEF Drawn
    <2>2. \A l, c : <<c, l>> \in {<<x, n - 1>>} <=> (c = x /\ l = n - 1)
      OBVIOUS
    <2>3. framebuffer' = [l \in 0..(Height - 1) |-> [c \in 0..(Width - 1) |->
                            IF <<c, l>> \in {<<x, n - 1>>}
                            THEN framebuffer[l][c] \cup {Char} ELSE framebuffer[l][c]]]
      BY <1>4 DEF vbe_draw_char, Char
    <2> HIDE DEF D, n, x
    <2> QED BY <2>1, <2>2, <2>3
  <1>6. Drawn(Typed) = [l \in 0..(Height - 1) |-> [c \in 0..(Width - 1) |-> E(l, c)]]
    BY <1>1 DEF Drawn
  <1>7. ASSUME NEW l \in 0..(Height - 1), NEW c \in 0..(Width - 1)
        PROVE  E(l, c) = IF c = x /\ l = n - 1 THEN D(l, c) \cup {Char} ELSE D(l, c)
    <2>1. CASE l < n - 1
      <3>1. l + 1 \in 1..(n - 1)
        BY <1>1, <2>1
      <3>2. Typed[l + 1] = shown[l + 1] /\ l # n - 1
        BY <1>2, <2>1, <3>1
      <3> QED BY <3>2
    <2>2. CASE l = n - 1
      <3>1. l + 1 = n /\ l < n
        BY <1>1, <2>2
      <3>2. CASE c < x
        <4>1. c + 1 \in 1..x /\ c < x + 1 /\ c # x
          BY <1>1, <3>2
        <4> QED BY <1>3, <3>1, <3>2, <4>1
      <3>3. CASE c = x
        <4>1. c < x + 1 /\ ~ (c < x)
          BY <1>1, <3>3
        <4>2. E(l, c) = {Char} /\ D(l, c) = {}
          BY <1>3, <3>1, <3>3, <4>1
        <4> QED BY <2>2, <3>3, <4>2
      <3>4. CASE c > x
        <4>1. ~ (c < x + 1) /\ ~ (c < x) /\ c # x
          BY <1>1, <3>4
        <4> QED BY <1>3, <3>1, <4>1
      <3> QED BY <1>1, <3>2, <3>3, <3>4
    <2>3. CASE l > n - 1
      <3>1. ~ (l < n) /\ l # n - 1
        BY <1>1, <2>3
      <3> QED BY <3>1
    <2> QED BY <1>1, <2>1, <2>2, <2>3
  <1> HIDE DEF D, E, n, x
  <1> QED BY <1>5, <1>6, <1>7

\* The steps of vbe_put_char before it returns.
LEMMA LoadYShows ==
    ASSUME Undisturbed, LoadY("main"), shown' = shown
    PROVE  Printing'
  <1>1. Typed' = Typed /\ Char' = Char /\ (LineFull' <=> LineFull)
    BY SameTyped DEF LoadY, Continue
  <1> QED
    BY <1>1, TypedFacts, Sizes
    DEF LoadY, At, Goto, Continue, Undisturbed, Labelled, Process, Printing, LineFull

LEMMA LoadXShows ==
    ASSUME Undisturbed, LoadX("main"), shown' = shown
    PROVE  Printing'
  <1>1. Typed' = Typed /\ Char' = Char /\ (LineFull' <=> LineFull)
    BY SameTyped DEF LoadX, Continue
  <1> QED
    BY <1>1, TypedFacts, Sizes
    DEF LoadX, At, Goto, Continue, Undisturbed, Labelled, Process, Printing, LineFull

LEMMA DrawShows ==
    ASSUME Undisturbed, vbe_draw_char("main"), shown' = shown
    PROVE  Printing'
  <1>1. Typed' = Typed /\ Char' = Char /\ (LineFull' <=> LineFull)
    BY SameTyped DEF vbe_draw_char, Continue
  <1>2. framebuffer' = Drawn(Typed)
    BY DrawnTyped DEF vbe_draw_char, At
  <1>3. /\ pc["main"] = "draw" /\ pc'["main"] = "inc"
        /\ UNCHANGED <<current_cursor_x, current_cursor_y, reg, at, line, xmm>>
    BY DEF vbe_draw_char, At, Goto, Continue, Undisturbed, Labelled, Process
  <1> QED BY <1>1, <1>2, <1>3 DEF Undisturbed, Printing

LEMMA IncXShows ==
    ASSUME Undisturbed, IncX("main"), shown' = shown
    PROVE  Printing'
  <1>1. Typed' = Typed /\ Char' = Char /\ (LineFull' <=> LineFull)
    BY SameTyped DEF IncX, Continue
  <1> QED
    BY <1>1, TypedFacts, Sizes
    DEF IncX, At, Goto, Continue, Undisturbed, Labelled, Process, Printing, LineFull

LEMMA IncStoreXShows ==
    ASSUME Undisturbed, IncStoreX("main"), shown' = shown
    PROVE  Printing'
  <1>1. Typed' = Typed /\ Char' = Char /\ (LineFull' <=> LineFull)
    BY SameTyped DEF IncStoreX, Continue
  <1> QED
    BY <1>1, TypedFacts, Sizes
    DEF IncStoreX, At, Goto, Continue, Undisturbed, Labelled, Process, Printing, LineFull

LEMMA WrapShows ==
    ASSUME Undisturbed, Wrap("main"), ~ EndChar("main"), shown' = shown
    PROVE  Printing'
  <1>1. Typed' = Typed /\ Char' = Char /\ (LineFull' <=> LineFull)
    BY SameTyped DEF Wrap, Continue
  <1>2. /\ pc["main"] = "wrap" /\ pc'["main"] = "zero" /\ current_cursor_x >= Width
        /\ UNCHANGED <<current_cursor_x, current_cursor_y, framebuffer, reg, at, line, xmm>>
    BY DEF Wrap, At, Goto, Continue, Undisturbed, Labelled, Process
  <1>3. /\ current_cursor_y = Len(shown) - 1 /\ Char # NewLine /\ framebuffer = Drawn(Typed)
        /\ current_cursor_x = Len(Typed[Len(shown)])
    BY <1>2 DEF Undisturbed, Printing
  <1>4. LineFull
    BY <1>2, <1>3, TypedFacts, Sizes DEF LineFull
  <1> QED BY <1>1, <1>2, <1>3, <1>4 DEF Printing

LEMMA ZeroXShows ==
    ASSUME Undisturbed, ZeroX("main"), shown' = shown
    PROVE  Printing'
  <1>1. Typed' = Typed /\ Char' = Char /\ (LineFull' <=> LineFull)
    BY SameTyped DEF ZeroX, Continue
  <1> QED
    BY <1>1, TypedFacts, Sizes
    DEF ZeroX, At, Goto, Continue, Undisturbed, Labelled, Process, Printing, LineFull

LEMMA DownShows ==
    ASSUME Undisturbed, Down("main"), shown' = shown
    PROVE  Printing'
  <1>1. Typed' = Typed /\ Char' = Char /\ (LineFull' <=> LineFull)
    BY SameTyped DEF Down, Continue
  <1> QED
    BY <1>1, TypedFacts, Sizes
    DEF Down, At, Goto, Continue, Undisturbed, Labelled, Process, Printing, LineFull

LEMMA DownStoreShows ==
    ASSUME Undisturbed, DownStore("main"), shown' = shown
    PROVE  Printing'
  <1>1. Typed' = Typed /\ Char' = Char /\ (LineFull' <=> LineFull)
    BY SameTyped DEF DownStore, Continue
  <1>2. /\ pc["main"] = "downStore" /\ current_cursor_y' = reg["main"] + 1
        /\ pc'["main"] = IF Char = NewLine THEN "scroll" ELSE "full"
        /\ UNCHANGED <<current_cursor_x, framebuffer, line, xmm>>
    BY DEF DownStore, At, Goto, Continue, Char, Undisturbed, Labelled, Process
  <1>3. /\ reg["main"] = Len(shown) - 1 /\ framebuffer = Drawn(Typed)
        /\ LineFull /\ current_cursor_x = 0
    BY <1>2 DEF Undisturbed, Printing
  <1>4. current_cursor_y' = Len(shown)
    BY <1>2, <1>3, TypedFacts
  <1>5. pc'["main"] \in {"scroll", "full"} /\ (pc'["main"] = "full" => Char # NewLine)
    BY <1>2
  <1> QED BY <1>1, <1>2, <1>3, <1>4, <1>5 DEF Printing

LEMMA FullShows ==
    ASSUME Undisturbed, Full("main"), ~ EndChar("main"), shown' = shown
    PROVE  Printing'
  <1>1. Typed' = Typed /\ Char' = Char /\ (LineFull' <=> LineFull)
    BY SameTyped DEF Full, Continue
  <1> QED
    BY <1>1, TypedFacts, Sizes
    DEF Full, At, Goto, Continue, Undisturbed, Labelled, Process, Printing, LineFull

LEMMA MovedNone == ASSUME NEW lines PROVE Moved(lines, 0) = Drawn(lines)
  <1>1. \A l \in 0..(Height - 1) : ~ (l < 0)
    OBVIOUS
  <1>2. Drawn(lines) = [l \in 0..(Height - 1) |-> Drawn(lines)[l]]
    BY DEF Drawn
  <1> QED BY <1>1, <1>2 DEF Moved

LEMMA ScrollShows ==
    ASSUME Undisturbed, vbe_scroll("main"), ~ EndChar("main"), shown' = shown
    PROVE  Printing'
  <1>1. Typed' = Typed /\ Char' = Char /\ (LineFull' <=> LineFull)
    BY SameTyped DEF vbe_scroll, Continue
  <1>2. /\ pc["main"] = "scroll" /\ pc'["main"] = "copy" /\ current_cursor_y >= Height
        /\ line'["main"] = 0
        /\ UNCHANGED <<current_cursor_x, current_cursor_y, framebuffer, reg, at, xmm>>
    BY DEF vbe_scroll, At, Goto, Continue, Undisturbed, Labelled, StorageInv, Storage, Process
  <1>3. /\ current_cursor_y = Len(shown) /\ framebuffer = Drawn(Typed)
        /\ LineFull /\ current_cursor_x = 0
    BY <1>2 DEF Undisturbed, Printing
  <1>4. Len(shown) = Height
    BY <1>2, <1>3, TypedFacts, Sizes
  <1>5. framebuffer = Moved(Typed, 0)
    BY <1>3, MovedNone
  <1> QED BY <1>1, <1>2, <1>3, <1>4, <1>5 DEF Printing

LEMMA CopyLoadShows ==
    ASSUME Undisturbed, CopyLoad("main"), shown' = shown
    PROVE  Printing'
  <1>1. Typed' = Typed /\ Char' = Char /\ (LineFull' <=> LineFull)
    BY SameTyped DEF CopyLoad, Continue
  <1>2. /\ pc["main"] = "copy" /\ line["main"] \in 0..(Height - 1)
        /\ UNCHANGED <<current_cursor_x, current_cursor_y, framebuffer, reg, at, line>>
    BY DEF CopyLoad, At, Undisturbed, StorageInv, Storage, Process
  <1>3. /\ current_cursor_y = Len(shown) /\ Len(shown) = Height
        /\ framebuffer = Moved(Typed, line["main"]) /\ LineFull /\ current_cursor_x = 0
    BY <1>2 DEF Undisturbed, Printing
  <1>4. CASE line["main"] < Height - 1
    <2>1. pc'["main"] = "copyStore" /\ xmm' = framebuffer[line["main"] + 1]
      BY <1>4 DEF CopyLoad, Goto, Continue, Undisturbed, Labelled, Process
    <2>2. line["main"] + 1 \in 0..(Height - 1) /\ ~ (line["main"] + 1 < line["main"])
      BY <1>2, <1>4, Sizes
    <2>3. xmm' = Drawn(Typed)[line["main"] + 1]
      BY <1>3, <2>1, <2>2 DEF Moved
    <2> QED BY <1>1, <1>2, <1>3, <2>1, <2>3 DEF Printing
  <1>5. CASE ~ (line["main"] < Height - 1)
    <2>1. pc'["main"] = "clear" /\ xmm' = Blank
      BY <1>5 DEF CopyLoad, Goto, Continue, Undisturbed, Labelled, Process
    <2>2. line["main"] = Height - 1
      BY <1>2, <1>5, Sizes
    <2> QED BY <1>1, <1>2, <1>3, <2>1, <2>2 DEF Printing
  <1> QED BY <1>4, <1>5

LEMMA CopyStoreShows ==
    ASSUME Undisturbed, CopyStore("main"), shown' = shown
    PROVE  Printing'
  <1>1. Typed' = Typed /\ Char' = Char /\ (LineFull' <=> LineFull)
    BY SameTyped DEF CopyStore, Continue
  <1>2. /\ pc["main"] = "copyStore" /\ pc'["main"] = "copy"
        /\ line["main"] \in 0..(Height - 1) /\ line["main"] < Height - 1
        /\ line'["main"] = line["main"] + 1
        /\ framebuffer' = [framebuffer EXCEPT ![line["main"]] = xmm]
        /\ UNCHANGED <<current_cursor_x, current_cursor_y, reg, at>>
    BY DEF CopyStore, At, Goto, Continue, Undisturbed, Labelled, StorageInv, Storage, Process
  <1>3. /\ current_cursor_y = Len(shown) /\ Len(shown) = Height
        /\ framebuffer = Moved(Typed, line["main"]) /\ LineFull /\ current_cursor_x = 0
        /\ xmm = Drawn(Typed)[line["main"] + 1]
    BY <1>2 DEF Undisturbed, Printing
  <1>4. framebuffer' = Moved(Typed, line["main"] + 1)
    <2> DEFINE k == line["main"]
    <2>1. \A l \in 0..(Height - 1) : (l < k + 1) <=> (l < k \/ l = k)
      BY <1>2
    <2> HIDE DEF k
    <2> QED BY <1>2, <1>3, <2>1 DEF Moved, k
  <1> QED BY <1>1, <1>2, <1>3, <1>4 DEF Printing

LEMMA ClearShows ==
    ASSUME Undisturbed, Clear("main"), shown' = shown
    PROVE  Printing'
  <1>1. Typed' = Typed /\ Char' = Char /\ (LineFull' <=> LineFull)
    BY SameTyped DEF Clear, Continue
  <1>2. /\ pc["main"] = "clear" /\ pc'["main"] = "home"
        /\ framebuffer' = [framebuffer EXCEPT ![Height - 1] = xmm]
        /\ UNCHANGED <<current_cursor_x, current_cursor_y, reg, at>>
    BY DEF Clear, At, Goto, Continue, Undisturbed, Labelled, Process
  <1>3. /\ current_cursor_y = Len(shown) /\ Len(shown) = Height
        /\ framebuffer = Moved(Typed, Height - 1) /\ LineFull /\ current_cursor_x = 0
        /\ xmm = Blank
    BY <1>2 DEF Undisturbed, Printing
  <1>4. Drawn(Broken(Typed)) = [l \in 0..(Height - 1) |->
                                  IF l = Height - 1 THEN Blank ELSE Drawn(Typed)[l + 1]]
    BY <1>2, <1>3, TypedFacts, BrokenIs
  <1>5. framebuffer' = Drawn(Broken(Typed))
    <2>1. \A l \in 0..(Height - 1) : (l < Height - 1) <=> (l # Height - 1)
      BY Sizes
    <2> QED BY <1>2, <1>3, <1>4, <2>1 DEF Moved
  <1>6. Broken(Typed)' = Broken(Typed)
    BY <1>1 DEF Broken
  <1> QED BY <1>1, <1>2, <1>3, <1>5, <1>6 DEF Printing

-----------------------------------------------------------------------------
\* The lines the terminal has after the character.
Printed ==
    IF Char = NewLine \/ Len(Typed[Len(shown)]) = Width THEN Broken(Typed) ELSE Typed

\* The three places vbe_put_char returns from.
LEMMA WrapEnds ==
    ASSUME Undisturbed, Wrap("main"), EndChar("main"), pc'["main"] = "next"
    PROVE  Sheet(Printed) /\ Room(Printed) /\ framebuffer' = Drawn(Printed)
           /\ current_cursor_x' = Len(Printed[Len(Printed)])
           /\ current_cursor_y' = Len(Printed) - 1
  <1>1. /\ pc["main"] = "wrap" /\ ~ (current_cursor_x >= Width)
        /\ UNCHANGED <<current_cursor_x, current_cursor_y, framebuffer>>
    BY DEF Wrap, At, Goto, Continue, Undisturbed, Labelled, Process
  <1>2. /\ current_cursor_y = Len(shown) - 1 /\ Char # NewLine /\ framebuffer = Drawn(Typed)
        /\ current_cursor_x = Len(Typed[Len(shown)])
    BY <1>1 DEF Undisturbed, Printing
  <1>3. Printed = Typed /\ Sheet(Typed) /\ Len(Typed) = Len(shown) /\ Len(Typed[Len(Typed)]) < Width
    BY <1>1, <1>2, TypedFacts, Sizes DEF Printed
  <1> QED BY <1>1, <1>2, <1>3 DEF Room

\* A line was full, or a new line asked for, and there is room below.
LEMMA BreakEnds ==
    ASSUME Undisturbed, pc["main"] \in {"full", "scroll"}, current_cursor_y < Height,
           UNCHANGED <<current_cursor_x, current_cursor_y, framebuffer>>
    PROVE  Sheet(Printed) /\ Room(Printed) /\ framebuffer' = Drawn(Printed)
           /\ current_cursor_x' = Len(Printed[Len(Printed)])
           /\ current_cursor_y' = Len(Printed) - 1
  <1>1. /\ current_cursor_y = Len(shown) /\ current_cursor_x = 0 /\ framebuffer = Drawn(Typed)
        /\ LineFull
    BY DEF Undisturbed, Printing
  <1>2. Printed = Broken(Typed)
    BY <1>1 DEF LineFull, Printed
  <1>3. Sheet(Typed) /\ Len(Typed) = Len(shown) /\ Len(shown) \in Nat
    BY TypedFacts
  <1>4. /\ Sheet(Printed) /\ Room(Printed) /\ Printed[Len(Printed)] = <<>>
        /\ Len(Printed) = Len(shown) + 1 /\ Drawn(Printed) = Drawn(Typed)
    BY <1>1, <1>2, <1>3, BrokenIs
  <1>5. Len(<<>>) = 0
    OBVIOUS
  <1> QED BY <1>1, <1>3, <1>4, <1>5

\* The screen was full and has scrolled.
LEMMA HomeEnds ==
    ASSUME Undisturbed, Home("main")
    PROVE  Sheet(Printed) /\ Room(Printed) /\ framebuffer' = Drawn(Printed)
           /\ current_cursor_x' = Len(Printed[Len(Printed)])
           /\ current_cursor_y' = Len(Printed) - 1
  <1>1. /\ pc["main"] = "home" /\ current_cursor_y' = Height - 1
        /\ UNCHANGED <<current_cursor_x, framebuffer>>
    BY DEF Home, At
  <1>2. /\ current_cursor_x = 0 /\ framebuffer = Drawn(Broken(Typed))
        /\ Len(shown) = Height /\ LineFull
    BY <1>1 DEF Undisturbed, Printing
  <1>3. Printed = Broken(Typed)
    BY <1>2 DEF LineFull, Printed
  <1>4. Sheet(Typed) /\ Len(Typed) = Len(shown)
    BY <1>1, TypedFacts
  <1>5. Sheet(Printed) /\ Room(Printed) /\ Printed[Len(Printed)] = <<>> /\ Len(Printed) = Height
    BY <1>2, <1>3, <1>4, BrokenIs
  <1>6. Len(<<>>) = 0
    OBVIOUS
  <1> QED BY <1>1, <1>2, <1>3, <1>5, <1>6

\* The character is the terminal's next.
LEMMA PrintedIsPut ==
    ASSUME Undisturbed, pc["main"] \notin {"idle", "next"}, shown' = Printed
    PROVE  T!Next
  <1> DEFINE n == Len(shown)
             last == IF Char = NewLine THEN shown[n] ELSE Append(shown[n], {Char})
             lines == [shown EXCEPT ![n] = last]
  <1>1. lines = Typed
    BY DEF Typed
  <1>2. /\ Char \in Glyphs \cup {NewLine} /\ n \in Nat /\ n >= 1 /\ n <= Height
        /\ Len(Typed) = n /\ Sheet(Typed)
    BY TypedFacts
  <1>3. Typed[n] = last
    BY <1>2, TypedIs DEF Undisturbed
  <1>4. T!Newest(Append(Typed, <<>>)) = Broken(Typed)
    <2>1. Len(Append(Typed, <<>>)) = n + 1
      <3>1. Typed \in Seq(Seq(SUBSET Glyphs)) /\ <<>> \in Seq(SUBSET Glyphs)
        BY <1>2 DEF Sheet
      <3> QED BY <1>2, <3>1, AppendProperties
    <2>2. (n + 1 > Height) <=> (n = Height)
      BY <1>2, Sizes
    <2> QED BY <1>2, <2>1, <2>2 DEF T!Newest, Broken
  <1>5. T!Put(Char)
    <2>1. shown' = IF Char = NewLine \/ Len(last) = Width
                   THEN T!Newest(Append(lines, <<>>)) ELSE lines
      <3> HIDE DEF lines, last
      <3> QED BY <1>1, <1>3, <1>4 DEF Printed
    <2> QED BY <2>1 DEF T!Put
  <1> QED BY <1>2, <1>5 DEF T!Next
-----------------------------------------------------------------------------
\* Between two characters `shown' is what the screen shows.
LEMMA ReadScreen ==
    ASSUME NEW lines, Sheet(lines), framebuffer' = Drawn(lines),
           current_cursor_y' = Len(lines) - 1
    PROVE  Screen' = lines
  <1>1. Screen' = [l \in 1..Min({current_cursor_y' + 1, Height}) |-> Text(framebuffer'[l - 1])]
    BY DEF Screen
  <1> QED BY <1>1, ScreenIs

\* The console is at rest with the lines of `shown' on it.
LEMMA RestShows ==
    ASSUME pc'["main"] \in {"idle", "next"}, framebuffer' = Drawn(shown'),
           current_cursor_x' = Len(shown'[Len(shown')]), current_cursor_y' = Len(shown') - 1
    PROVE  Printing'
  BY DEF Printing

LEMMA AloneStep ==
    ASSUME Undisturbed, CursorInv, TextNext
    PROVE  Undisturbed' /\ (T!Next \/ shown' = shown)
  <1>1. alone' /\ pc'["isr"] = "idle" /\ Labelled' /\ StorageInv'
    <2>1. [Next]_vars /\ alone' = alone /\ pc'["isr"] = "idle"
      BY DEF TextNext, Undisturbed
    <2>2. CursorInv'
      BY <2>1, CursorStep
    <2>3. StorageInv'
      BY <2>1, StorageStep DEF Undisturbed, Labelled
    <2> QED BY <2>1, <2>2, <2>3 DEF Undisturbed, CursorInv
  <1>2. Next /\ shown' = IF pc'["main"] \in {"idle", "next"} THEN Screen' ELSE shown
    BY DEF TextNext, Undisturbed
  \* Nothing was drawn: the screen still shows the same.
  <1>3. ASSUME pc["main"] \in {"idle", "next"}, pc'["main"] \in {"idle", "next"},
               UNCHANGED <<current_cursor_x, current_cursor_y, framebuffer>>
        PROVE  Undisturbed' /\ shown' = shown
    <2>1. /\ framebuffer = Drawn(shown) /\ current_cursor_x = Len(shown[Len(shown)])
          /\ current_cursor_y = Len(shown) - 1 /\ Sheet(shown) /\ Room(shown)
      BY <1>3 DEF Undisturbed, Printing
    <2>2. shown' = shown
      BY <1>2, <1>3, <2>1, ReadScreen
    <2>3. Printing'
      BY <1>3, <2>1, <2>2, RestShows
    <2> QED BY <1>1, <2>1, <2>2, <2>3 DEF Undisturbed
  \* vbe_put_char goes on.
  <1>4. ASSUME pc'["main"] \notin {"idle", "next"}, shown' = shown => Printing'
        PROVE  Undisturbed' /\ shown' = shown
    <2>1. shown' = shown
      BY <1>2, <1>4
    <2> QED BY <1>1, <1>4, <2>1 DEF Undisturbed
  \* vbe_put_char returns.
  <1>5. ASSUME pc["main"] \notin {"idle", "next"}, pc'["main"] = "next",
               Sheet(Printed), Room(Printed), framebuffer' = Drawn(Printed),
               current_cursor_x' = Len(Printed[Len(Printed)]),
               current_cursor_y' = Len(Printed) - 1
        PROVE  Undisturbed' /\ T!Next
    <2>1. shown' = Printed
      BY <1>2, <1>5, ReadScreen
    <2>2. Printing'
      BY <1>5, <2>1, RestShows
    <2>3. T!Next
      BY <1>5, <2>1, PrintedIsPut
    <2> QED BY <1>1, <1>5, <2>1, <2>2, <2>3 DEF Undisturbed
  <1>6. ASSUME NEW texts, printk("main", texts)
        PROVE  Undisturbed' /\ shown' = shown
    <2>1. /\ pc["main"] = "idle" /\ pc'["main"] = "next"
          /\ UNCHANGED <<current_cursor_x, current_cursor_y, framebuffer>>
      BY <1>6 DEF printk, At, Goto, Undisturbed, Labelled, Process
    <2> QED BY <1>3, <2>1
  <1>7. CASE PutString("main")
    <2>1. pc["main"] = "next" /\ UNCHANGED <<current_cursor_y, framebuffer>>
      BY <1>7 DEF PutString, At
    <2>2. /\ framebuffer = Drawn(shown) /\ current_cursor_x = Len(shown[Len(shown)])
          /\ current_cursor_y = Len(shown) - 1
      BY <2>1 DEF Undisturbed, Printing
    <2>3. CASE str["main"] = <<>>
      <3>1. pc'["main"] = "idle" /\ UNCHANGED current_cursor_x
        BY <1>7, <2>3 DEF PutString, Continue, Goto, Undisturbed, Labelled, Process
      <3> QED BY <1>3, <2>1, <3>1
    <2>4. CASE str["main"] # <<>> /\ Char = NewLine
      <3>1. pc'["main"] = "down" /\ current_cursor_x' = 0 /\ UNCHANGED str
        BY <1>7, <2>4 DEF PutString, Continue, Goto, Char, Undisturbed, Labelled, Process
      <3>2. Typed = shown
        BY <2>4, TypedIs DEF Undisturbed
      <3>3. ASSUME shown' = shown PROVE Printing'
        <4>1. Typed' = Typed /\ Char' = Char /\ (LineFull' <=> LineFull)
          BY <3>1, <3>3, SameTyped
        <4>2. LineFull
          BY <2>4 DEF LineFull
        <4> QED BY <2>1, <2>2, <3>1, <3>2, <3>3, <4>1, <4>2 DEF Printing
      <3> QED BY <1>4, <3>1, <3>3
    <2>5. CASE str["main"] # <<>> /\ Char # NewLine
      <3>1. pc'["main"] = "loadY" /\ UNCHANGED <<current_cursor_x, str>>
        BY <1>7, <2>5 DEF PutString, Continue, Goto, Char, Undisturbed, Labelled, Process
      <3>2. ASSUME shown' = shown PROVE Printing'
        <4>1. Char' = Char
          BY <3>1 DEF Char
        <4> QED BY <2>1, <2>2, <2>5, <3>1, <3>2, <4>1 DEF Printing
      <3> QED BY <1>4, <3>1, <3>2
    <2> QED BY <2>3, <2>4, <2>5
  <1>8. CASE LoadY("main") \/ LoadX("main") \/ vbe_draw_char("main") \/ IncX("main")
             \/ IncStoreX("main") \/ ZeroX("main") \/ Down("main") \/ DownStore("main")
             \/ CopyLoad("main") \/ CopyStore("main") \/ Clear("main")
    <2>1. pc'["main"] \notin {"idle", "next"}
      BY <1>8
      DEF LoadY, LoadX, vbe_draw_char, IncX, IncStoreX, ZeroX, Down, DownStore, CopyLoad,
          CopyStore, Clear, Goto, Continue, Undisturbed, Labelled, Process
    <2>2. ASSUME shown' = shown PROVE Printing'
      BY <1>8, <2>2, LoadYShows, LoadXShows, DrawShows, IncXShows, IncStoreXShows,
         ZeroXShows, DownShows, DownStoreShows, CopyLoadShows, CopyStoreShows, ClearShows
    <2> QED BY <1>4, <2>1, <2>2
  <1>9. CASE Wrap("main")
    <2>1. CASE EndChar("main")
      <3>1. pc["main"] = "wrap" /\ pc'["main"] = "next"
        BY <1>9, <2>1 DEF Wrap, At, EndChar, Goto, Undisturbed, Labelled, Process
      <3> QED BY <1>5, <1>9, <2>1, <3>1, WrapEnds
    <2>2. CASE ~ EndChar("main")
      <3>1. pc'["main"] = "zero"
        BY <1>9, <2>2 DEF Wrap, Continue, Goto, Undisturbed, Labelled, Process
      <3> QED BY <1>4, <1>9, <2>2, <3>1, WrapShows
    <2> QED BY <2>1, <2>2
  <1>10. CASE Full("main")
    <2>1. CASE current_cursor_y < Height
      <3>1. /\ pc["main"] = "full" /\ pc'["main"] = "next"
            /\ UNCHANGED <<current_cursor_x, current_cursor_y, framebuffer>>
        BY <1>10, <2>1, Sizes DEF Full, At, EndChar, Goto, Undisturbed, Labelled, Process
      <3> QED BY <1>5, <2>1, <3>1, BreakEnds
    <2>2. CASE ~ (current_cursor_y < Height)
      <3>1. pc'["main"] = "scroll"
        BY <1>10, <2>2, Sizes DEF Full, Continue, Goto, Undisturbed, Labelled, Process
      <3>2. ~ EndChar("main")
        BY <3>1 DEF EndChar, Goto, Undisturbed, Labelled, Process
      <3> QED BY <1>4, <1>10, <3>1, <3>2, FullShows
    <2> QED BY <2>1, <2>2
  <1>11. CASE vbe_scroll("main")
    <2>1. CASE current_cursor_y < Height
      <3>1. /\ pc["main"] = "scroll" /\ pc'["main"] = "next"
            /\ UNCHANGED <<current_cursor_x, current_cursor_y, framebuffer>>
        BY <1>11, <2>1, Sizes DEF vbe_scroll, At, EndChar, Goto, Undisturbed, Labelled, Process
      <3> QED BY <1>5, <2>1, <3>1, BreakEnds
    <2>2. CASE ~ (current_cursor_y < Height)
      <3>1. pc'["main"] = "copy"
        BY <1>11, <2>2, Sizes DEF vbe_scroll, Continue, Goto, Undisturbed, Labelled, Process
      <3>2. ~ EndChar("main")
        BY <3>1 DEF EndChar, Goto, Undisturbed, Labelled, Process
      <3> QED BY <1>4, <1>11, <3>1, <3>2, ScrollShows
    <2> QED BY <2>1, <2>2
  <1>12. CASE Home("main")
    <2>1. pc["main"] = "home" /\ pc'["main"] = "next"
      BY <1>12 DEF Home, At, EndChar, Goto, Undisturbed, Labelled, Process
    <2> QED BY <1>5, <1>12, <2>1, HomeEnds
  \* No handler runs.
  <1>13. ~ printk("isr", IsrTexts) /\ ~ Step("isr")
    <2>1. ~ printk("isr", IsrTexts)
      BY <1>1 DEF printk, Goto, Undisturbed, Labelled, Process
    <2>2. ~ Step("isr")
      BY DEF Undisturbed, Step, At, PutString, LoadY, LoadX, vbe_draw_char, IncX, IncStoreX,
             Wrap, ZeroX, Down, DownStore, Full, vbe_scroll, CopyLoad, CopyStore, Clear, Home
    <2> QED BY <2>1, <2>2
  <1> QED
    BY <1>2, <1>6, <1>7, <1>8, <1>9, <1>10, <1>11, <1>12, <1>13 DEF Next, Step, Process

\* What kernel_main prints alone appears as on a terminal: every character is
\* one step of Terminal, whatever the screen and the text (vbe.c:24-112).
THEOREM ConsoleImplementsTerminal == TextSpec => ImplementsTerminal
  <1> DEFINE Inv == CursorInv /\ StorageInv /\ (alone => Undisturbed)
  <1>1. TextInit => Inv /\ T!Init
    <2> SUFFICES ASSUME TextInit PROVE Inv /\ T!Init
      OBVIOUS
    <2>1. Init /\ shown = << <<>> >>
      BY DEF TextInit
    <2>2. CursorInv /\ StorageInv
      BY <2>1, CursorInit, StorageInit
    <2>3. /\ shown \in Seq(Seq(SUBSET Glyphs)) /\ Len(shown) = 1 /\ Len(shown[1]) = 0
          /\ shown[1] = <<>>
      BY <2>1
    <2>4. Sheet(shown) /\ Room(shown)
      <3>1. \A n \in 1..Len(shown) : n = 1
        BY <2>3
      <3>2. \A n \in 1..Len(shown) :
              Len(shown[n]) <= Width /\ \A c \in 1..Len(shown[n]) : shown[n][c] # {}
        BY <2>3, <3>1, Sizes
      <3>3. Len(shown) >= 1 /\ Len(shown) <= Height /\ Len(shown[Len(shown)]) = 0
        BY <2>3, Sizes
      <3>4. Sheet(shown)
        BY <2>3, <3>2, <3>3, SheetOf
      <3> QED BY <3>3, <3>4, Sizes DEF Room
    <2>5. framebuffer = Drawn(shown)
      <3>1. \A l \in 0..(Height - 1), c \in 0..(Width - 1) :
              ~ (l < Len(shown) /\ c < Len(shown[l + 1]))
        <4> SUFFICES ASSUME NEW l \in 0..(Height - 1), NEW c \in 0..(Width - 1),
                            l < Len(shown)
                     PROVE  ~ (c < Len(shown[l + 1]))
          OBVIOUS
        <4>1. l + 1 = 1
          BY <2>3
        <4> QED BY <2>3, <4>1
      <3> QED BY <2>1, <3>1 DEF Init, Blank, Drawn
    <2>6. Printing
      <3>1. pc["main"] = "idle" /\ current_cursor_x = 0 /\ current_cursor_y = 0
        BY <2>1 DEF Init, Process
      <3>2. Len(shown[Len(shown)]) = 0 /\ Len(shown) - 1 = 0
        BY <2>3
      <3> QED BY <2>5, <3>1, <3>2 DEF Printing
    <2>7. pc["isr"] = "idle"
      BY <2>1 DEF Init, Process
    <2> QED BY <2>1, <2>2, <2>4, <2>6, <2>7 DEF Undisturbed, CursorInv, T!Init
  <1>2. Inv /\ [TextNext]_textVars => Inv' /\ [T!Next]_shown
    <2> SUFFICES ASSUME Inv, [TextNext]_textVars PROVE Inv' /\ [T!Next]_shown
      OBVIOUS
    <2>1. CASE UNCHANGED textVars
      <3>1. UNCHANGED <<current_cursor_x, current_cursor_y, framebuffer, xmm, pc, str, reg, at,
                        line, shown, alone>>
        BY <2>1 DEF textVars, vars
      <3>2. CursorInv' /\ StorageInv'
        <4>1. [Next]_vars
          BY <3>1 DEF vars
        <4> QED BY <4>1, CursorStep, StorageStep DEF CursorInv, Labelled
      <3>3. alone' => Undisturbed'
        <4>1. Typed' = Typed /\ Char' = Char /\ (LineFull' <=> LineFull)
          BY <3>1, SameTyped
        <4>2. Broken(Typed)' = Broken(Typed)
          BY <4>1 DEF Broken
        <4>3. Printing' <=> Printing
          BY <3>1, <4>1, <4>2 DEF Printing
        <4>4. (Sheet(shown)' <=> Sheet(shown)) /\ (Room(shown)' <=> Room(shown))
          BY <3>1
        <4>5. Labelled'
          BY <3>2 DEF CursorInv
        <4> QED BY <3>1, <3>2, <4>3, <4>4, <4>5 DEF Undisturbed
      <3> QED BY <3>1, <3>2, <3>3
    <2>2. CASE TextNext /\ alone
      <3>1. Undisturbed' /\ (T!Next \/ shown' = shown)
        BY <2>2, AloneStep
      <3>2. CursorInv' /\ StorageInv'
        <4>1. [Next]_vars
          BY <2>2 DEF TextNext
        <4> QED BY <3>1, <4>1, CursorStep DEF Undisturbed
      <3> QED BY <3>1, <3>2
    <2>3. CASE TextNext /\ ~ alone
      <3>1. [Next]_vars /\ shown' = shown /\ ~ alone'
        BY <2>3 DEF TextNext
      <3>2. CursorInv' /\ StorageInv'
        BY <3>1, CursorStep, StorageStep DEF CursorInv, Labelled
      <3> QED BY <3>1, <3>2
    <2> QED BY <2>1, <2>2, <2>3
  <1> QED BY <1>1, <1>2, PTL DEF TextSpec, ImplementsTerminal, T!Spec

-----------------------------------------------------------------------------
(***************************************************************************)
(* A handler that prints returns.                                          *)
(***************************************************************************)

\* The steps from a place of vbe_put_char to the next character, at most.
Within(label, l) ==
    CASE label = "idle"      -> 0
      [] label = "home"      -> 1
      [] label = "clear"     -> 2
      [] label = "copyStore" -> 2 * (Height - l)
      [] label = "copy"      -> 2 * (Height - l) + 1
      [] label = "scroll"    -> 2 * Height + 2
      [] label = "full"      -> 2 * Height + 3
      [] label = "downStore" -> 2 * Height + 4
      [] label = "down"      -> 2 * Height + 5
      [] label = "zero"      -> 2 * Height + 6
      [] label = "wrap"      -> 2 * Height + 7
      [] label = "incStore"  -> 2 * Height + 8
      [] label = "inc"       -> 2 * Height + 9
      [] label = "draw"      -> 2 * Height + 10
      [] label = "loadX"     -> 2 * Height + 11
      [] label = "loadY"     -> 2 * Height + 12
      [] label = "next"      -> 2 * Height + 13

\* The steps a handler has left, at most.
IsrLeft == Len(str["isr"]) * (2 * Height + 14) + Within(pc["isr"], line["isr"])

\* A step of the handler brings it further in its character, or ends it.
Further ==
    \/ /\ str'["isr"] = str["isr"]
       /\ Within(pc'["isr"], line'["isr"]) < Within(pc["isr"], line["isr"])
    \/ pc'["isr"] = "next" /\ str'["isr"] = Tail(str["isr"]) /\ str["isr"] # <<>>

\* What is used of the state of the handler.
IsrPlace ==
    /\ pc \in [Process -> Labels] /\ str \in [Process -> Seq(Glyphs \cup {NewLine})]
    /\ line \in [Process -> 0..(Height - 1)]
    /\ pc["isr"] \notin {"idle", "next"} => str["isr"] # <<>>

LEMMA IsrPlaceIs == ASSUME CursorInv, StorageInv PROVE IsrPlace
  BY DEF CursorInv, Labelled, StorageInv, Storage, IsrPlace, Process

LEMMA EndCharFurther ==
    ASSUME IsrPlace, pc["isr"] \notin {"idle", "next"}, EndChar("isr") PROVE Further
  BY DEF IsrPlace, EndChar, Goto, Further, Process

\* Places and those that follow them, but for the copying.
Follows ==
    {<<"next", "idle">>, <<"next", "down">>, <<"next", "loadY">>, <<"loadY", "loadX">>,
     <<"loadX", "draw">>, <<"draw", "inc">>, <<"inc", "incStore">>, <<"incStore", "wrap">>,
     <<"wrap", "zero">>, <<"zero", "down">>, <<"down", "downStore">>, <<"downStore", "full">>,
     <<"downStore", "scroll">>, <<"full", "scroll">>, <<"clear", "home">>}

LEMMA Onwards ==
    ASSUME NEW a, NEW b, <<a, b>> \in Follows, NEW k, NEW l
    PROVE  Within(b, l) < Within(a, k)
  <1>1. 2 * Height \in Nat
    BY Sizes
  <1>2. CASE <<a, b>> \in {<<"next", "idle">>, <<"clear", "home">>}
    BY <1>1, <1>2 DEF Within
  <1>3. CASE <<a, b>> \notin {<<"next", "idle">>, <<"clear", "home">>}
    <2>1. /\ Within("next", k) = 2 * Height + 13 /\ Within("loadY", k) = 2 * Height + 12
          /\ Within("loadX", k) = 2 * Height + 11 /\ Within("draw", k) = 2 * Height + 10
          /\ Within("inc", k) = 2 * Height + 9 /\ Within("incStore", k) = 2 * Height + 8
          /\ Within("wrap", k) = 2 * Height + 7 /\ Within("zero", k) = 2 * Height + 6
          /\ Within("down", k) = 2 * Height + 5 /\ Within("downStore", k) = 2 * Height + 4
          /\ Within("full", k) = 2 * Height + 3
      BY DEF Within
    <2>2. /\ Within("loadY", l) = 2 * Height + 12
          /\ Within("loadX", l) = 2 * Height + 11 /\ Within("draw", l) = 2 * Height + 10
          /\ Within("inc", l) = 2 * Height + 9 /\ Within("incStore", l) = 2 * Height + 8
          /\ Within("wrap", l) = 2 * Height + 7 /\ Within("zero", l) = 2 * Height + 6
          /\ Within("down", l) = 2 * Height + 5 /\ Within("downStore", l) = 2 * Height + 4
          /\ Within("full", l) = 2 * Height + 3 /\ Within("scroll", l) = 2 * Height + 2
      BY DEF Within
    <2> DEFINE h == 2 * Height
    <2> HIDE DEF h
    <2> QED BY <1>1, <1>3, <2>1, <2>2 DEF Follows, h
  <1> QED BY <1>2, <1>3

\* A step of the handler takes it to a place that follows.
LEMMA FollowsFurther ==
    ASSUME <<pc["isr"], pc'["isr"]>> \in Follows, UNCHANGED str PROVE Further
  <1>1. Within(pc'["isr"], line'["isr"]) < Within(pc["isr"], line["isr"])
    BY Onwards
  <1> QED BY <1>1 DEF Further

LEMMA StepFurther ==
    ASSUME IsrPlace, Step("isr") PROVE Further
  <1>0. Height \in Nat \ {0} /\ line["isr"] \in 0..(Height - 1)
    BY Sizes DEF IsrPlace, Process
  <1>1. ASSUME NEW label \in Labels, Continue("isr", label)
        PROVE  pc'["isr"] = label /\ str' = str
    BY <1>1 DEF Continue, Goto, IsrPlace, Process
  <1>2. CASE PutString("isr")
    <2>1. pc["isr"] = "next" /\ pc'["isr"] \in {"idle", "down", "loadY"} /\ str' = str
      BY <1>1, <1>2 DEF PutString, At, Labels
    <2> QED BY <2>1, FollowsFurther DEF Follows
  <1>3. CASE LoadY("isr") \/ LoadX("isr") \/ vbe_draw_char("isr")
    <2>1. /\ <<pc["isr"], pc'["isr"]>> \in {<<"loadY", "loadX">>, <<"loadX", "draw">>, <<"draw", "inc">>}
          /\ str' = str
      BY <1>1, <1>3 DEF LoadY, LoadX, vbe_draw_char, At, Labels
    <2> QED BY <2>1, FollowsFurther DEF Follows
  <1>4. CASE IncX("isr") \/ IncStoreX("isr") \/ ZeroX("isr") \/ Down("isr")
    <2>1. /\ <<pc["isr"], pc'["isr"]>> \in {<<"inc", "incStore">>, <<"incStore", "wrap">>,
                                          <<"zero", "down">>, <<"down", "downStore">>}
          /\ str' = str
      BY <1>1, <1>4 DEF IncX, IncStoreX, ZeroX, Down, At, Labels
    <2> QED BY <2>1, FollowsFurther DEF Follows
  <1>5. CASE DownStore("isr")
    <2>1. pc["isr"] = "downStore" /\ pc'["isr"] \in {"scroll", "full"} /\ str' = str
      BY <1>1, <1>5 DEF DownStore, At, Labels
    <2> QED BY <2>1, FollowsFurther DEF Follows
  <1>6. CASE Wrap("isr") \/ Full("isr")
    <2>1. \/ /\ <<pc["isr"], pc'["isr"]>> \in {<<"wrap", "zero">>, <<"full", "scroll">>}
             /\ str' = str
          \/ pc["isr"] \in {"wrap", "full"} /\ EndChar("isr")
      BY <1>1, <1>6 DEF Wrap, Full, At, Labels
    <2> QED BY <2>1, FollowsFurther, EndCharFurther DEF Follows
  <1>7. CASE vbe_scroll("isr")
    <2>1. /\ pc["isr"] = "scroll" /\ line'["isr"] = 0
          /\ \/ pc'["isr"] = "copy" /\ str' = str
             \/ EndChar("isr")
      BY <1>1, <1>7 DEF vbe_scroll, At, Labels, IsrPlace, Process
    <2>2. CASE pc'["isr"] = "copy" /\ str' = str
      <3>1. Within("copy", 0) < Within("scroll", line["isr"])
        BY <1>0 DEF Within
      <3> QED BY <2>1, <2>2, <3>1 DEF Further
    <2> QED BY <2>1, <2>2, EndCharFurther
  <1>8. CASE CopyLoad("isr")
    <2>1. /\ pc["isr"] = "copy" /\ str' = str /\ line' = line
          /\ pc'["isr"] \in {"copyStore", "clear"}
      BY <1>1, <1>8 DEF CopyLoad, At, Labels
    <2> DEFINE l == line["isr"]
    <2>2. /\ Within("copy", l) = 2 * (Height - l) + 1 /\ Within("copyStore", l) = 2 * (Height - l)
          /\ Within("clear", l) = 2
      BY DEF Within
    <2>3. Within("copyStore", l) < Within("copy", l) /\ Within("clear", l) < Within("copy", l)
      BY <1>0, <2>2
    <2> QED BY <2>1, <2>3 DEF Further
  <1>9. CASE CopyStore("isr")
    <2>1. /\ pc["isr"] = "copyStore" /\ str' = str /\ pc'["isr"] = "copy"
          /\ line'["isr"] = line["isr"] + 1
      BY <1>1, <1>9 DEF CopyStore, At, Labels, IsrPlace, Process
    <2> DEFINE l == line["isr"]
    <2>2. Within("copy", l + 1) = 2 * (Height - (l + 1)) + 1 /\ Within("copyStore", l) = 2 * (Height - l)
      BY DEF Within
    <2>3. Within("copy", l + 1) < Within("copyStore", l)
      BY <1>0, <2>2
    <2> QED BY <2>1, <2>3 DEF Further
  <1>10. CASE Clear("isr")
    <2>1. pc["isr"] = "clear" /\ pc'["isr"] = "home" /\ str' = str
      BY <1>1, <1>10 DEF Clear, At, Labels
    <2> QED BY <2>1, FollowsFurther DEF Follows
  <1>11. CASE Home("isr")
    BY <1>11, EndCharFurther DEF Home, At
  <1> QED BY <1>2, <1>3, <1>4, <1>5, <1>6, <1>7, <1>8, <1>9, <1>10, <1>11 DEF Step

\* There is a number of these steps.
LEMMA WithinNat ==
    ASSUME NEW label \in Labels, NEW l \in 0..(Height - 1)
    PROVE  Within(label, l) \in Nat /\ (label # "idle" => Within(label, l) > 0)
  BY Sizes DEF Within, Labels

LEMMA IsrLeftNat == ASSUME IsrPlace PROVE IsrLeft \in Nat
  <1> DEFINE n == Len(str["isr"])
             k == 2 * Height + 14
             w == Within(pc["isr"], line["isr"])
  <1>1. n \in Nat
    BY LenProperties DEF IsrPlace, Process
  <1>2. k \in Nat
    BY Sizes
  <1>3. w \in Nat
    BY WithinNat DEF IsrPlace, Process
  <1> HIDE DEF n, k, w
  <1>4. n * k \in Nat
    BY <1>1, <1>2
  <1>5. n * k + w \in Nat
    BY <1>3, <1>4
  <1> QED BY <1>5 DEF n, k, w, IsrLeft

\* While a handler runs, every step anybody takes is one of its own and brings
\* IsrLeft down: it returns after no more steps than its text has characters
\* times what one takes with scrolling, and none of them waits for kernel_main
\* (vbe.c:24-112).
THEOREM HandlerComesToEnd ==
    Spec => [](IsrLeft \in Nat) /\ [][pc["isr"] # "idle" => IsrLeft' < IsrLeft]_vars
  <1>1. CursorInv /\ StorageInv => IsrPlace
    BY IsrPlaceIs
  <1>2. IsrPlace => IsrLeft \in Nat
    BY IsrLeftNat
  <1>3. IsrPlace /\ IsrPlace' /\ [Next]_vars => [pc["isr"] # "idle" => IsrLeft' < IsrLeft]_vars
    <2> SUFFICES ASSUME IsrPlace, IsrPlace', Next, pc["isr"] # "idle" PROVE IsrLeft' < IsrLeft
      OBVIOUS
    <2>1. Step("isr")
      <3>1. ~ printk("main", MainTexts) /\ ~ printk("isr", IsrTexts)
        BY DEF printk, At
      <3>2. ~ Step("main")
        BY DEF Step, PutString, LoadY, LoadX, vbe_draw_char, IncX, IncStoreX, Wrap, ZeroX, Down,
               DownStore, Full, vbe_scroll, CopyLoad, CopyStore, Clear, Home, At
      <3> QED BY <3>1, <3>2 DEF Next, Process
    <2>2. Further
      BY <2>1, StepFurther
    <2> DEFINE S == Glyphs \cup {NewLine}
               t == str["isr"]
               n == Len(t)
               m == Len(str'["isr"])
               k == 2 * Height + 14
               v == Within(pc["isr"], line["isr"])
               w == Within(pc'["isr"], line'["isr"])
    <2>3. t \in Seq(S) /\ n \in Nat
      <3>1. t \in Seq(S)
        BY DEF IsrPlace, Process
      <3> QED BY <3>1, LenProperties
    <2>4. v \in Nat /\ v > 0
      BY WithinNat DEF IsrPlace, Process
    <2>5. w \in Nat
      <3>1. pc'["isr"] \in Labels /\ line'["isr"] \in 0..(Height - 1)
        BY DEF IsrPlace, Process
      <3> QED BY <3>1, WithinNat
    <2>6. k \in Nat /\ k > 0
      BY Sizes
    <2>7. \/ m = n /\ w < v
          \/ n > 0 /\ m = n - 1 /\ w = k - 1
      <3>1. CASE str'["isr"] = str["isr"] /\ w < v
        BY <3>1
      <3>2. CASE pc'["isr"] = "next" /\ str'["isr"] = Tail(str["isr"]) /\ str["isr"] # <<>>
        <4>1. w = k - 1
          BY <3>2, Sizes DEF Within
        <4>2. n > 0 /\ m = n - 1
          <5> HIDE DEF S
          <5>1. t # <<>> /\ str'["isr"] = Tail(t)
            BY <3>2
          <5> HIDE DEF t
          <5>2. Len(Tail(t)) = Len(t) - 1 /\ Len(t) # 0
            BY <2>3, <5>1, HeadTailProperties, EmptySeq
          <5> QED BY <2>3, <5>1, <5>2
        <4> QED BY <4>1, <4>2
      <3> QED BY <2>2, <3>1, <3>2 DEF Further
    <2>8. IsrLeft = n * k + v /\ IsrLeft' = m * k + w
      BY DEF IsrLeft
    <2> HIDE DEF n, m, k, v, w, t, S
    <2>9. (n - 1) * k = n * k - k /\ n * k \in Nat
      BY <2>3, <2>6
    <2>10. CASE m = n /\ w < v
      BY <2>4, <2>5, <2>8, <2>9, <2>10
    <2>11. CASE n > 0 /\ m = n - 1 /\ w = k - 1
      <3>1. m * k = n * k - k
        BY <2>9, <2>11
      <3> DEFINE x == n * k
                 y == m * k
      <3>2. /\ x \in Nat /\ y = x - k /\ IsrLeft = x + v /\ IsrLeft' = y + w /\ w = k - 1
        BY <2>8, <2>9, <2>11, <3>1
      <3> HIDE DEF x, y
      <3> QED BY <2>4, <2>6, <3>2
    <2> QED BY <2>7, <2>10, <2>11
  <1>4. CursorInv => pc \in [Process -> Labels]
    BY DEF CursorInv, Labelled
  <1>5. CursorInv /\ StorageInv /\ [Next]_vars => StorageInv'
    BY <1>4, StorageStep
  <1> QED BY CursorInvHolds, StorageInit, <1>1, <1>2, <1>3, <1>5, PTL DEF Spec
=============================================================================
