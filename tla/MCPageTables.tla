---------------------------- MODULE MCPageTables ----------------------------
EXTENDS PageTables
CONSTANTS Bases, Sizes, \* of the ranges of a memory map
          MaxRanges

Ranges  == [base : Bases, size : Sizes, available : BOOLEAN]
Tables  == UNION {[1..n -> Ranges] : n \in 0..MaxRanges}
LowMaps == {m \in Tables : \A k \in DOMAIN m : m[k].base + m[k].size < Word}
Machine   == {<<[base |-> 4, size |-> 250, available |-> TRUE]>>}
Unwritten == {Absent, KernelFrame}
=============================================================================
