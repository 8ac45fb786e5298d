----------------------------- MODULE FileSystem -----------------------------
(***************************************************************************)
(* What fd promises its user: a disk on which files are listed in the      *)
(* order they were added, each with its bytes.  Adding one happens         *)
(* completely or not at all, whenever fd is killed.                        *)
(***************************************************************************)
EXTENDS Sequences

CONSTANTS Files,
          Content       \* of each file

VARIABLE listing        \* of pairs <<file, content>>

Init == listing = <<>>

Add(f) == listing' = Append(listing, <<f, Content[f]>>)

Next == \E f \in Files : Add(f)

Spec == Init /\ [][Next]_listing
=============================================================================
