------------------------------ MODULE FreeList ------------------------------
(***************************************************************************)
(* What the free list of a descriptor promises kmalloc and kfree: a        *)
(* sequence of distinct blocks, of which the one added last is got first   *)
(* and any one can be taken out.                                           *)
(***************************************************************************)
EXTENDS Sequences, SequencesExt

CONSTANT Blocks

VARIABLE list           \* the free blocks, from the head of the list on

Init == list = << >>

Add(block) ==
    /\ block \notin Range(list)
    /\ list' = <<block>> \o list

Get ==
    /\ list # << >>
    /\ list' = Tail(list)

Take(block) ==
    \E i \in DOMAIN list :
      /\ list[i] = block
      /\ list' = RemoveAt(list, i)

Next == Get \/ \E block \in Blocks : Add(block) \/ Take(block)

Spec == Init /\ [][Next]_list
=============================================================================
