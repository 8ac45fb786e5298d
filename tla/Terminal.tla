------------------------------ MODULE Terminal ------------------------------
(***************************************************************************)
(* What a console promises to a program that prints alone: the screen      *)
(* shows the end of the text, broken where a line is full, the oldest line *)
(* leaving when there is no room for a new one.                            *)
(***************************************************************************)
EXTENDS Integers, Sequences

CONSTANTS Width, Height, Glyphs, NewLine

VARIABLE shown  \* lines of cells, each the set of glyphs drawn into it

Init == shown = << <<>> >>

Newest(lines) == IF Len(lines) > Height THEN Tail(lines) ELSE lines

Put(ch) ==
    LET n     == Len(shown)
        last  == IF ch = NewLine THEN shown[n] ELSE Append(shown[n], {ch})
        lines == [shown EXCEPT ![n] = last]
    IN  shown' = IF ch = NewLine \/ Len(last) = Width
                 THEN Newest(Append(lines, <<>>)) ELSE lines

Next == \E ch \in Glyphs \cup {NewLine} : Put(ch)

Spec == Init /\ [][Next]_shown
=============================================================================
