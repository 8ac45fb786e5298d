---------------------------- MODULE ConsoleText -----------------------------
(***************************************************************************)
(* Console implements Terminal when nothing interrupts kernel_main.  The   *)
(* steps of one vbe_put_char are one step of the terminal: the history     *)
(* variable `shown' keeps what the screen shows between two characters.    *)
(* `alone' says of a whole behaviour that no interrupt arrives in it.      *)
(***************************************************************************)
EXTENDS Console, FiniteSetsExt

VARIABLES shown, alone

textVars == <<vars, shown, alone>>

\* The written cells of a line.
Text(cells) ==
    [c \in 1..Cardinality({d \in DOMAIN cells : cells[d] # {}}) |-> cells[c - 1]]

\* The lines down to that of the cursor.
Screen == [l \in 1..Min({current_cursor_y + 1, Height}) |-> Text(framebuffer[l - 1])]

TextInit == Init /\ shown = << <<>> >> /\ alone \in BOOLEAN

TextNext ==
    /\ Next
    /\ alone => pc'["isr"] = "idle"
    /\ shown' = IF alone /\ pc'["main"] \in {"idle", "next"} THEN Screen' ELSE shown
    /\ UNCHANGED alone

TextSpec == TextInit /\ [][TextNext]_textVars /\ WF_textVars(Step("isr") /\ TextNext)

T == INSTANCE Terminal

\* Cursor, wrapping and scrolling together show the end of what was printed,
\* line by line, to a kernel_main that prints alone (vbe.c:24-112).
ImplementsTerminal == T!Spec
=============================================================================
