---------------------------- MODULE MCKernelHeap ----------------------------
EXTENDS KernelHeap
CONSTANT MaxLive        \* allocations held at once

LiveBound == Cardinality(live) <= MaxLive
=============================================================================
