------------------------------ MODULE Console -------------------------------
(***************************************************************************)
(* The console of kernel/devices/vbe/vbe.c: one cursor and one frame       *)
(* buffer, written by kernel_main, which prints for ever, and by the       *)
(* keyboard and mouse handlers, which print whenever their interrupt       *)
(* arrives.  One action is one access to memory another process can see;   *)
(* a handler runs behind an interrupt gate and so is never interrupted.    *)
(*                                                                         *)
(* A glyph is a value, and a cell of the screen holds the set of glyphs    *)
(* drawn into it: vbe_draw_char sets pixels and clears none.  Drawing a    *)
(* glyph and moving one line of text are single steps.                     *)
(***************************************************************************)
EXTENDS Integers, Sequences

CONSTANTS Width, Height,    \* x_resolution / CHAR_WIDTH, y_resolution / CHAR_HEIGHT
          Glyphs, NewLine,
          MainTexts,        \* what kernel_main prints
          IsrTexts          \* what one run of a handler prints

ASSUME ConsoleAssumption ==
    /\ Width \in Nat \ {0} /\ Height \in Nat \ {0}
    /\ NewLine \notin Glyphs
    /\ MainTexts \subseteq Seq(Glyphs \cup {NewLine})
    /\ IsrTexts \subseteq Seq(Glyphs \cup {NewLine})

VARIABLES current_cursor_x,
          current_cursor_y,
          framebuffer,      \* framebuffer[line][column], a set of glyphs
          xmm,              \* xmm0-3, which int_entry does not save: a line
          pc,               \* where each process is in vbe_put_char, or "idle"
          str,              \* what each has still to print
          reg,              \* the value each loaded and is about to increment
          at,               \* the arguments x and y of vbe_draw_char
          line              \* the line each copies in vbe_scroll

vars == <<current_cursor_x, current_cursor_y, framebuffer, xmm, pc, str, reg, at,
          line>>

Process == {"main", "isr"}

Blank == [column \in 0..(Width - 1) |-> {}]

Init ==
    /\ current_cursor_x = 0 /\ current_cursor_y = 0
    /\ framebuffer = [l \in 0..(Height - 1) |-> Blank]
    /\ xmm = Blank
    /\ pc = [p \in Process |-> "idle"]
    /\ str = [p \in Process |-> <<>>]
    /\ reg = [p \in Process |-> 0]
    /\ at = [p \in Process |-> [x |-> 0, y |-> 0]]
    /\ line = [p \in Process |-> 0]

\* Process p is at `label' and has the processor.
At(p, label) == pc[p] = label /\ (p = "main" => pc["isr"] = "idle")

Goto(p, label) == pc' = [pc EXCEPT ![p] = label]

\* vbe_put_char returns.
EndChar(p) == Goto(p, "next") /\ str' = [str EXCEPT ![p] = Tail(@)]

Continue(p, label) == Goto(p, label) /\ UNCHANGED str
-----------------------------------------------------------------------------
\* printk calls vbe_put_string: kernel_main from its loop, a handler when the
\* processor takes its interrupt.
printk(p, texts) ==
    /\ At(p, "idle")
    /\ \E t \in texts : str' = [str EXCEPT ![p] = t]
    /\ Goto(p, "next")
    /\ UNCHANGED <<current_cursor_x, current_cursor_y, framebuffer, xmm, reg, at, line>>

PutString(p) ==
    /\ At(p, "next")
    /\ IF str[p] = <<>>
       THEN Continue(p, "idle") /\ UNCHANGED current_cursor_x
       ELSE IF Head(str[p]) = NewLine
       THEN Continue(p, "down") /\ current_cursor_x' = 0
       ELSE Continue(p, "loadY") /\ UNCHANGED current_cursor_x
    /\ UNCHANGED <<current_cursor_y, framebuffer, xmm, reg, at, line>>

LoadY(p) ==
    /\ At(p, "loadY")
    /\ at' = [at EXCEPT ![p].y = current_cursor_y]
    /\ Continue(p, "loadX")
    /\ UNCHANGED <<current_cursor_x, current_cursor_y, framebuffer, xmm, reg, line>>

LoadX(p) ==
    /\ At(p, "loadX")
    /\ at' = [at EXCEPT ![p].x = current_cursor_x]
    /\ Continue(p, "draw")
    /\ UNCHANGED <<current_cursor_x, current_cursor_y, framebuffer, xmm, reg, line>>

\* The cells a glyph drawn at <<x, y>> is seen in.  Past the right edge it
\* starts one line of pixels lower at the left one, and touches two cells.
Cells(x, y) == IF x < Width THEN {<<x, y>>} ELSE {<<0, y>>, <<0, y + 1>>}

vbe_draw_char(p) ==
    /\ At(p, "draw")
    /\ framebuffer' =
         [l \in 0..(Height - 1) |->
            [c \in 0..(Width - 1) |->
               IF <<c, l>> \in Cells(at[p].x, at[p].y)
               THEN framebuffer[l][c] \cup {Head(str[p])} ELSE framebuffer[l][c]]]
    /\ Continue(p, "inc")
    /\ UNCHANGED <<current_cursor_x, current_cursor_y, xmm, reg, at, line>>
-----------------------------------------------------------------------------
\* advance_cursor: ++ is a load, an addition and a store.
IncX(p) ==
    /\ At(p, "inc")
    /\ reg' = [reg EXCEPT ![p] = current_cursor_x]
    /\ Continue(p, "incStore")
    /\ UNCHANGED <<current_cursor_x, current_cursor_y, framebuffer, xmm, at, line>>

IncStoreX(p) ==
    /\ At(p, "incStore")
    /\ current_cursor_x' = reg[p] + 1
    /\ reg' = [reg EXCEPT ![p] = 0]
    /\ Continue(p, "wrap")
    /\ UNCHANGED <<current_cursor_y, framebuffer, xmm, at, line>>

\* A line that is one cell too long.
Faulty_Wrap_Late(p) ==
    /\ At(p, "wrap")
    /\ IF current_cursor_x > Width THEN Continue(p, "zero") ELSE EndChar(p)
    /\ UNCHANGED <<current_cursor_x, current_cursor_y, framebuffer, xmm, reg, at, line>>

Wrap(p) ==
    /\ At(p, "wrap")
    /\ IF current_cursor_x >= Width THEN Continue(p, "zero") ELSE EndChar(p)
    /\ UNCHANGED <<current_cursor_x, current_cursor_y, framebuffer, xmm, reg, at, line>>

ZeroX(p) ==
    /\ At(p, "zero")
    /\ current_cursor_x' = 0
    /\ Continue(p, "down")
    /\ UNCHANGED <<current_cursor_y, framebuffer, xmm, reg, at, line>>

\* current_cursor_y++, in advance_cursor and for a new line.
Down(p) ==
    /\ At(p, "down")
    /\ reg' = [reg EXCEPT ![p] = current_cursor_y]
    /\ Continue(p, "downStore")
    /\ UNCHANGED <<current_cursor_x, current_cursor_y, framebuffer, xmm, at, line>>

DownStore(p) ==
    /\ At(p, "downStore")
    /\ current_cursor_y' = reg[p] + 1
    /\ reg' = [reg EXCEPT ![p] = 0]
    /\ Continue(p, IF Head(str[p]) = NewLine THEN "scroll" ELSE "full")
    /\ UNCHANGED <<current_cursor_x, framebuffer, xmm, at, line>>

\* advance_cursor asks whether the screen is full before vbe_scroll does.
Full(p) ==
    /\ At(p, "full")
    /\ IF current_cursor_y >= Height THEN Continue(p, "scroll") ELSE EndChar(p)
    /\ UNCHANGED <<current_cursor_x, current_cursor_y, framebuffer, xmm, reg, at, line>>
-----------------------------------------------------------------------------
vbe_scroll(p) ==
    /\ At(p, "scroll")
    /\ IF current_cursor_y >= Height THEN Continue(p, "copy") ELSE EndChar(p)
    /\ line' = [line EXCEPT ![p] = 0]
    /\ UNCHANGED <<current_cursor_x, current_cursor_y, framebuffer, xmm, reg, at>>

\* A last line that is not cleared.
Faulty_CopyLoad_NotZeroed(p) ==
    /\ At(p, "copy")
    /\ IF line[p] < Height - 1
       THEN xmm' = framebuffer[line[p] + 1] /\ Continue(p, "copyStore")
       ELSE UNCHANGED xmm /\ Continue(p, "clear")
    /\ UNCHANGED <<current_cursor_x, current_cursor_y, framebuffer, reg, at, line>>

\* The next line into xmm0-3, or zeros when all but the last were copied.
CopyLoad(p) ==
    /\ At(p, "copy")
    /\ IF line[p] < Height - 1
       THEN xmm' = framebuffer[line[p] + 1] /\ Continue(p, "copyStore")
       ELSE xmm' = Blank /\ Continue(p, "clear")
    /\ UNCHANGED <<current_cursor_x, current_cursor_y, framebuffer, reg, at, line>>

\* A loop that copies the same line for ever.
Faulty_CopyStore_Stuck(p) ==
    /\ At(p, "copyStore")
    /\ framebuffer' = [framebuffer EXCEPT ![line[p]] = xmm]
    /\ Continue(p, "copy")
    /\ UNCHANGED <<current_cursor_x, current_cursor_y, xmm, reg, at, line>>

CopyStore(p) ==
    /\ At(p, "copyStore")
    /\ framebuffer' = [framebuffer EXCEPT ![line[p]] = xmm]
    /\ line' = [line EXCEPT ![p] = @ + 1]
    /\ Continue(p, "copy")
    /\ UNCHANGED <<current_cursor_x, current_cursor_y, xmm, reg, at>>

Clear(p) ==
    /\ At(p, "clear")
    /\ framebuffer' = [framebuffer EXCEPT ![Height - 1] = xmm]
    /\ line' = [line EXCEPT ![p] = 0]
    /\ Continue(p, "home")
    /\ UNCHANGED <<current_cursor_x, current_cursor_y, xmm, reg, at>>

\* The cursor left below the last line.
Faulty_Home_Low(p) ==
    /\ At(p, "home")
    /\ current_cursor_y' = Height
    /\ EndChar(p)
    /\ UNCHANGED <<current_cursor_x, framebuffer, xmm, reg, at, line>>

Home(p) ==
    /\ At(p, "home")
    /\ current_cursor_y' = Height - 1
    /\ EndChar(p)
    /\ UNCHANGED <<current_cursor_x, framebuffer, xmm, reg, at, line>>
-----------------------------------------------------------------------------
Step(p) ==
    \/ PutString(p) \/ LoadY(p) \/ LoadX(p) \/ vbe_draw_char(p)
    \/ IncX(p) \/ IncStoreX(p) \/ Wrap(p) \/ ZeroX(p) \/ Down(p) \/ DownStore(p)
    \/ Full(p) \/ vbe_scroll(p) \/ CopyLoad(p) \/ CopyStore(p) \/ Clear(p)
    \/ Home(p)

Next ==
    \/ printk("main", MainTexts)
    \/ printk("isr", IsrTexts)
    \/ \E p \in Process : Step(p)

\* A handler has the processor to itself until it returns.
Spec == Init /\ [][Next]_vars /\ WF_vars(Step("isr"))
-----------------------------------------------------------------------------
Labels == {"idle", "next", "loadY", "loadX", "draw", "inc", "incStore", "wrap",
           "zero", "down", "downStore", "full", "scroll", "copy", "copyStore",
           "clear", "home"}

Line == [0..(Width - 1) -> SUBSET Glyphs]

TypeOK ==
    /\ current_cursor_x \in 0..(Width + 1) /\ current_cursor_y \in 0..(Height + 1)
    /\ framebuffer \in [0..(Height - 1) -> Line]
    /\ xmm \in Line
    /\ pc \in [Process -> Labels]
    /\ str \in [Process -> Seq(Glyphs \cup {NewLine})]
    /\ reg \in [Process -> Nat]
    /\ at \in [Process -> [x : Nat, y : Nat]]
    /\ line \in [Process -> 0..(Height - 1)]

\* Wherever interrupts fall in vbe_put_char and vbe_scroll, kernel_main draws
\* on the screen, and a handler at most one cell past the end of a line and
\* one line below the last (vbe.c:76-112): the frame buffer is overrun by no
\* more than one line of text.
DrawsBounded ==
    /\ pc["main"] = "draw" => at["main"].x < Width /\ at["main"].y < Height
    /\ pc["isr"] = "draw" => at["isr"].x <= Width /\ at["isr"].y <= Height

\* A disturbance does not outlast its handler: while no handler runs and
\* kernel_main is not moving the cursor itself, the cursor is on the screen.
CursorOnScreen ==
    pc["isr"] = "idle" /\ pc["main"] \in {"idle", "next", "loadY", "loadX", "draw"} =>
        current_cursor_x < Width /\ current_cursor_y < Height

\* A handler returns, so that interrupts are enabled again.
HandlerReturns == pc["isr"] # "idle" ~> pc["isr"] = "idle"
=============================================================================
