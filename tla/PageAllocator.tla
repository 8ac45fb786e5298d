--------------------------- MODULE PageAllocator ---------------------------
(***************************************************************************)
(* What a page pool promises its callers: an allocation takes some run of  *)
(* adjacent free pages, a release gives the run back, and the kernel is    *)
(* only stopped by a request that no run of free pages can satisfy.        *)
(***************************************************************************)
EXTENDS Integers

CONSTANTS Pages,        \* the pages that are managed
          Counts        \* the sizes of request

VARIABLES free,         \* the pages nobody holds
          extents,      \* the runs of pages callers hold
          failed        \* the request that stopped the kernel, if one did

avars == <<free, extents, failed>>

NoFailure == [op |-> "none"]

ExtentPages(e) == e.base .. (e.base + e.count - 1)

Request(base, count) == [base |-> base, count |-> count]

Init ==
    /\ free \subseteq Pages
    /\ extents = {}
    /\ failed = NoFailure

Allocate(count) ==
    /\ failed = NoFailure
    /\ \E base \in Pages :
         LET e == Request(base, count)
         IN  /\ ExtentPages(e) \subseteq free
             /\ free' = free \ ExtentPages(e)
             /\ extents' = extents \cup {e}
    /\ UNCHANGED failed

Release(e) ==
    /\ failed = NoFailure
    /\ e \in extents
    /\ free' = free \cup ExtentPages(e)
    /\ extents' = extents \ {e}
    /\ UNCHANGED failed

Exhausted(count) ==
    /\ failed = NoFailure
    /\ \A base \in Pages : ~ (ExtentPages(Request(base, count)) \subseteq free)
    /\ failed' = [op |-> "alloc", count |-> count]
    /\ UNCHANGED <<free, extents>>

Next ==
    \/ \E count \in Counts : Allocate(count) \/ Exhausted(count)
    \/ \E e \in extents : Release(e)

Spec == Init /\ [][Next]_avars
=============================================================================
