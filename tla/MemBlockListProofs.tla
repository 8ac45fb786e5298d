------------------------- MODULE MemBlockListProofs -------------------------
(***************************************************************************)
(* The links of a free list stay consistent for any set of blocks and      *)
(* whatever callers write into the blocks they hold; all free blocks are   *)
(* on the way from the head to the tail, so that a search finds them and   *)
(* the list implements FreeList.                                           *)
(***************************************************************************)
EXTENDS MemBlockList, SequenceTheorems, FiniteSetTheorems, NaturalsInduction,
        WellFoundedInduction, TLAPS

\* Taking a free block out of the list keeps the links of the others.
LEMMA UnlinkKeepsLinks ==
    ASSUME TypeOK, LinksAgree, NEW block \in Free, Unlink(block)
    PROVE  TypeOK' /\ LinksAgree'
PROOF
  <1>. DEFINE n == next[block]
              p == prev[block]
  <1>. USE ListAssumption
  <1>1. /\ n \in Free \cup {TailNode} /\ prev[n] = block
        /\ p \in Free \cup {HeadNode} /\ next[p] = block
    BY DEF LinksAgree
  <1>2. Free' = Free \ {block} /\ block \in Blocks /\ block # HeadNode /\ block # TailNode
    BY DEF Free, Unlink
  <1>3. /\ next' = [next EXCEPT ![p] = n, ![block] = NULL]
        /\ prev' = [prev EXCEPT ![n] = p, ![block] = NULL]
        /\ held' = held \cup {block}
    BY DEF Unlink
  <1>4. n \in Nodes /\ p \in Nodes
    BY <1>1 DEF Free, Nodes
  <1>. HIDE DEF n, p
  <1>5. TypeOK'
    BY <1>2, <1>3, <1>4 DEF TypeOK
  <1>6. /\ \A m \in Nodes \ {block} : next'[m] = IF m = p THEN n ELSE next[m]
        /\ \A m \in Nodes \ {block} : prev'[m] = IF m = n THEN p ELSE prev[m]
    BY <1>3, <1>4 DEF TypeOK
  <1>7. ASSUME NEW m \in Free' \cup {HeadNode}
        PROVE  next'[m] \in Free' \cup {TailNode} /\ prev'[next'[m]] = m
    <2>1. m \in Free \cup {HeadNode} /\ m # block /\ m \in Nodes \ {block}
      BY <1>2 DEF Free, Nodes
    <2>2. next[m] \in Free \cup {TailNode} /\ prev[next[m]] = m
      BY <2>1 DEF LinksAgree
    <2>3. CASE m = p
      <3>1. next'[m] = n
        BY <1>6, <2>1, <2>3
      <3>2. n # block
        BY <1>1, <2>1, <2>3 DEF p
      <3>. QED
        BY <1>1, <1>2, <1>4, <1>6, <2>3, <3>1, <3>2
    <2>4. CASE m # p
      <3>1. next'[m] = next[m]
        BY <1>6, <2>1, <2>4
      <3>2. next[m] # block
        BY <2>2, <2>4 DEF p
      <3>3. next[m] # n
        BY <1>1, <2>1, <2>2
      <3>4. next[m] \in Nodes \ {block}
        BY <2>2, <3>2 DEF Free, Nodes
      <3>. QED
        BY <1>2, <1>6, <2>2, <3>1, <3>2, <3>3, <3>4
    <2>. QED  BY <2>3, <2>4
  <1>8. ASSUME NEW m \in Free' \cup {TailNode}
        PROVE  prev'[m] \in Free' \cup {HeadNode} /\ next'[prev'[m]] = m
    <2>1. m \in Free \cup {TailNode} /\ m # block /\ m \in Nodes \ {block}
      BY <1>2 DEF Free, Nodes
    <2>2. prev[m] \in Free \cup {HeadNode} /\ next[prev[m]] = m
      BY <2>1 DEF LinksAgree
    <2>3. CASE m = n
      <3>1. prev'[m] = p
        BY <1>6, <2>1, <2>3
      <3>2. p # block
        BY <1>1, <2>1, <2>3 DEF n
      <3>. QED
        BY <1>1, <1>2, <1>4, <1>6, <2>3, <3>1, <3>2
    <2>4. CASE m # n
      <3>1. prev'[m] = prev[m]
        BY <1>6, <2>1, <2>4
      <3>2. prev[m] # block
        BY <2>2, <2>4 DEF n
      <3>3. prev[m] # p
        BY <1>1, <2>1, <2>2
      <3>4. prev[m] \in Nodes \ {block}
        BY <2>2, <3>2 DEF Free, Nodes
      <3>. QED
        BY <1>2, <1>6, <2>2, <3>1, <3>2, <3>3, <3>4
    <2>. QED  BY <2>3, <2>4
  <1>. QED
    BY <1>5, <1>7, <1>8 DEF LinksAgree

\* Putting a held block at the head keeps the links of the others.
LEMMA AddKeepsLinks ==
    ASSUME TypeOK, LinksAgree, NEW block \in Blocks, add_mem_block(block)
    PROVE  TypeOK' /\ LinksAgree'
PROOF
  <1>. DEFINE first == next[HeadNode]
  <1>. USE ListAssumption
  <1>1. first \in Free \cup {TailNode} /\ prev[first] = HeadNode
    BY DEF LinksAgree
  <1>2. /\ Free' = Free \cup {block} /\ block \notin Free
        /\ block # HeadNode /\ block # TailNode /\ block \in Nodes
    BY DEF Free, add_mem_block, TypeOK, Nodes
  <1>3. /\ next' = [next EXCEPT ![block] = first, ![HeadNode] = block]
        /\ prev' = [prev EXCEPT ![block] = HeadNode, ![first] = block]
        /\ held' = held \ {block}
    BY DEF add_mem_block
  <1>4. first \in Nodes /\ first # block /\ first # HeadNode
    BY <1>1, <1>2 DEF Free, Nodes
  <1>. HIDE DEF first
  <1>5. TypeOK'
    BY <1>2, <1>3, <1>4 DEF TypeOK, Nodes
  <1>6. /\ next'[block] = first /\ next'[HeadNode] = block
        /\ \A m \in Nodes \ {block, HeadNode} : next'[m] = next[m]
        /\ prev'[block] = HeadNode /\ prev'[first] = block
        /\ \A m \in Nodes \ {block, first} : prev'[m] = prev[m]
    BY <1>2, <1>3, <1>4 DEF TypeOK, Nodes
  <1>7. ASSUME NEW m \in Free' \cup {HeadNode}
        PROVE  next'[m] \in Free' \cup {TailNode} /\ prev'[next'[m]] = m
    <2>1. CASE m = HeadNode
      BY <1>2, <1>6, <2>1
    <2>2. CASE m = block
      BY <1>1, <1>2, <1>6, <2>2
    <2>3. CASE m \in Free /\ m # HeadNode
      <3>1. next[m] \in Free \cup {TailNode} /\ prev[next[m]] = m
        BY <2>3 DEF LinksAgree
      <3>2. m \in Nodes \ {block, HeadNode} /\ next[m] \in Nodes \ {block, first}
        BY <1>1, <1>2, <2>3, <3>1 DEF Free, Nodes
      <3>. QED  BY <1>2, <1>6, <3>1, <3>2
    <2>. QED  BY <1>2, <2>1, <2>2, <2>3
  <1>8. ASSUME NEW m \in Free' \cup {TailNode}
        PROVE  prev'[m] \in Free' \cup {HeadNode} /\ next'[prev'[m]] = m
    <2>1. CASE m = block
      BY <1>6, <2>1
    <2>2. CASE m = first
      BY <1>2, <1>6, <2>2
    <2>3. CASE m \in Free \cup {TailNode} /\ m # first /\ m # block
      <3>1. prev[m] \in Free \cup {HeadNode} /\ next[prev[m]] = m
        BY <2>3 DEF LinksAgree
      <3>2. m \in Nodes \ {block, first} /\ prev[m] \in Nodes \ {block, HeadNode}
        BY <1>2, <2>3, <3>1 DEF Free, Nodes, first
      <3>. QED  BY <1>2, <1>6, <3>1, <3>2
    <2>. QED  BY <1>2, <2>1, <2>2, <2>3
  <1>. QED
    BY <1>5, <1>7, <1>8 DEF LinksAgree

\* The links agree in every state of the list: the free list of the heap is
\* never led into a block that a caller holds.
THEOREM ListLinks == Spec => [](TypeOK /\ LinksAgree)
PROOF
  <1>. DEFINE Inv == TypeOK /\ LinksAgree
  <1>. USE ListAssumption
  <1>1. Init => Inv
    BY DEF Init, TypeOK, LinksAgree, Free, Nodes
  <1>2. Inv /\ [Next]_vars => Inv'
    <2>. SUFFICES ASSUME TypeOK, LinksAgree, [Next]_vars
                  PROVE  Inv'
      OBVIOUS
    <2>1. CASE get_mem_block
      <3>1. next[HeadNode] \in Free
        BY <2>1 DEF get_mem_block, mem_block_list_empty, LinksAgree
      <3>. QED  BY <2>1, <3>1, UnlinkKeepsLinks DEF get_mem_block
    <2>2. ASSUME NEW block \in Blocks, add_mem_block(block)
          PROVE  Inv'
      BY <2>2, AddKeepsLinks
    <2>3. ASSUME NEW block \in Blocks, remove_mem_block(block)
          PROVE  Inv'
      BY <2>3, UnlinkKeepsLinks DEF remove_mem_block
    <2>4. ASSUME NEW block \in Blocks, CallerWrites(block)
          PROVE  Inv'
      <3>1. PICK n \in Written, q \in Written :
                /\ next' = [next EXCEPT ![block] = n]
                /\ prev' = [prev EXCEPT ![block] = q]
        BY <2>4 DEF CallerWrites
      <3>2. Free' = Free /\ block \notin Free /\ block # HeadNode /\ block # TailNode
        BY <2>4 DEF CallerWrites, Free
      <3>3. TypeOK'
        BY <2>4, <3>1 DEF TypeOK, CallerWrites, Nodes
      <3>4. \A m \in Free \cup {HeadNode, TailNode} : next'[m] = next[m] /\ prev'[m] = prev[m]
        BY <3>1, <3>2 DEF TypeOK, Free, Nodes
      <3>5. LinksAgree'
        BY <3>2, <3>4 DEF LinksAgree
      <3>. QED  BY <3>3, <3>5
    <2>5. CASE UNCHANGED vars
      BY <2>5 DEF vars, TypeOK, LinksAgree, Free
    <2>. QED
      BY <2>1, <2>2, <2>3, <2>4, <2>5 DEF Next
  <1>. QED  BY <1>1, <1>2, PTL DEF Spec
-----------------------------------------------------------------------------
\* The node k steps from the head of a list with the blocks s.
Place(s, k) == IF k = 0 THEN HeadNode ELSE IF k <= Len(s) THEN s[k] ELSE TailNode

\* The sequence s without what is at its place i.
RemovedAt(s, i) == SubSeq(s, 1, i - 1) \o SubSeq(s, i + 1, Len(s))

\* The list, from the head to the tail, is the sequence s.
Spans(s) ==
    /\ s \in Seq(Blocks)
    /\ \A i, j \in 1..Len(s) : s[i] = s[j] => i = j
    /\ Free = {s[i] : i \in 1..Len(s)}
    /\ \A k \in 0..Len(s) : next[Place(s, k)] = Place(s, k + 1)

\* That the links agree does not yet say that all free blocks are on one way
\* from the head to the tail: they could also close a ring of their own.
Ordered == \E s \in Seq(Blocks) : Spans(s)

ListInv == TypeOK /\ LinksAgree /\ Ordered

\* The nodes on the way are all different.
LEMMA PlacesDiffer ==
    ASSUME NEW s, Spans(s)
    PROVE  /\ Len(s) \in Nat
           /\ \A i \in 1..Len(s) : Place(s, i) = s[i] /\ s[i] \in Free
           /\ Place(s, 0) = HeadNode /\ Place(s, Len(s) + 1) = TailNode
           /\ \A k \in 0..Len(s) : Place(s, k) \in Free \cup {HeadNode}
           /\ \A i, j \in 0..(Len(s) + 1) : Place(s, i) = Place(s, j) => i = j
PROOF
  <1>. USE ListAssumption
  <1>1. Len(s) \in Nat /\ \A i \in 1..Len(s) : s[i] \in Blocks /\ s[i] \in Free
    BY DEF Spans
  <1>2. \A i \in 1..Len(s) : Place(s, i) = s[i]
    BY <1>1 DEF Place
  <1>3. Place(s, 0) = HeadNode /\ Place(s, Len(s) + 1) = TailNode
    BY <1>1 DEF Place
  <1>4. \A k \in 0..(Len(s) + 1) : k = 0 \/ k \in 1..Len(s) \/ k = Len(s) + 1
    BY <1>1
  <1>5. \A k \in 0..Len(s) : k = 0 \/ k \in 1..Len(s)
    BY <1>1
  <1>6. \A i, j \in 1..Len(s) : s[i] = s[j] => i = j
    BY DEF Spans
  <1>7. ASSUME NEW i \in 0..(Len(s) + 1), NEW j \in 0..(Len(s) + 1), Place(s, i) = Place(s, j)
        PROVE  i = j
    BY <1>1, <1>2, <1>3, <1>4, <1>6, <1>7
  <1>. QED  BY <1>1, <1>2, <1>3, <1>5, <1>7

LEMMA EmptySpans == Init => Spans(<< >>)
PROOF
  <1>. SUFFICES ASSUME Init PROVE Spans(<< >>)
    OBVIOUS
  <1>1. Free = {} /\ next[HeadNode] = TailNode
    BY DEF Init, Free
  <1>2. Len(<< >>) = 0 /\ << >> \in Seq(Blocks)
    OBVIOUS
  <1>3. \A k \in 0..0 : k = 0
    OBVIOUS
  <1>4. Place(<< >>, 0) = HeadNode /\ Place(<< >>, 0 + 1) = TailNode
    BY <1>2 DEF Place
  <1>. QED  BY <1>1, <1>2, <1>3, <1>4 DEF Spans

\* An insertion makes the block the first of the sequence.
LEMMA AddSpans ==
    ASSUME TypeOK, LinksAgree, NEW block \in Blocks, add_mem_block(block),
           NEW s, Spans(s)
    PROVE  Spans(<<block>> \o s)'
PROOF
  <1>. DEFINE t == <<block>> \o s
              first == next[HeadNode]
  <1>. USE ListAssumption
  <1>1. /\ s \in Seq(Blocks) /\ Len(s) \in Nat /\ Free = {s[i] : i \in 1..Len(s)}
        /\ \A k \in 0..Len(s) : next[Place(s, k)] = Place(s, k + 1)
        /\ \A i, j \in 1..Len(s) : s[i] = s[j] => i = j
    BY DEF Spans
  <1>2. /\ t \in Seq(Blocks) /\ Len(t) = Len(s) + 1 /\ t[1] = block
        /\ \A k \in 1..Len(s) : t[k + 1] = s[k]
    BY <1>1
  <1>3. /\ Free' = Free \cup {block} /\ block \notin Free
        /\ block # HeadNode /\ block # TailNode /\ block \in Nodes
    BY DEF Free, add_mem_block, TypeOK, Nodes
  <1>4. first \in Free \cup {TailNode} /\ first \in Nodes
    BY DEF LinksAgree, Free, Nodes
  <1>5. /\ next'[block] = first /\ next'[HeadNode] = block
        /\ \A m \in Nodes \ {block, HeadNode} : next'[m] = next[m]
    BY <1>3, <1>4 DEF TypeOK, add_mem_block, Nodes
  <1>. HIDE DEF t, first
  <1>6. /\ Place(t, 0) = HeadNode /\ Place(t, 1) = block
        /\ \A k \in 1..(Len(s) + 1) : Place(t, k + 1) = Place(s, k)
    <2>1. ASSUME NEW k \in 1..(Len(s) + 1)
          PROVE  Place(t, k + 1) = Place(s, k)
      <3>1. CASE k = Len(s) + 1
        BY <1>1, <1>2, <3>1 DEF Place
      <3>2. CASE k \in 1..Len(s)
        BY <1>1, <1>2, <3>2 DEF Place
      <3>. QED  BY <1>1, <3>1, <3>2
    <2>. QED  BY <1>1, <1>2, <2>1 DEF Place
  <1>7. \A k \in 1..Len(s) : s[k] \in Nodes \ {block, HeadNode} /\ Place(s, k) = s[k]
    BY <1>1, <1>3, PlacesDiffer DEF Free, Nodes
  <1>8. \A k \in 1..Len(t) : k = 1 \/ (k - 1 \in 1..Len(s) /\ t[k] = s[k - 1])
    <2>. SUFFICES ASSUME NEW k \in 1..Len(t), k # 1
                  PROVE  k - 1 \in 1..Len(s) /\ t[k] = s[k - 1]
      OBVIOUS
    <2>1. k - 1 \in 1..Len(s) /\ (k - 1) + 1 = k
      BY <1>1, <1>2
    <2>. QED  BY <1>2, <2>1
  <1>9. \A i, j \in 1..Len(t) : t[i] = t[j] => i = j
    <2>. SUFFICES ASSUME NEW i \in 1..Len(t), NEW j \in 1..Len(t), t[i] = t[j]
                  PROVE  i = j
      OBVIOUS
    <2>1. \A k \in 1..Len(s) : s[k] # block
      BY <1>7
    <2>2. CASE i = 1 \/ j = 1
      BY <1>2, <1>8, <2>1, <2>2
    <2>3. CASE i # 1 /\ j # 1
      <3>1. i - 1 \in 1..Len(s) /\ j - 1 \in 1..Len(s) /\ s[i - 1] = s[j - 1]
        BY <1>8, <2>3
      <3>2. i - 1 = j - 1
        BY <1>1, <3>1
      <3>. QED  BY <1>1, <1>2, <3>2
    <2>. QED  BY <2>2, <2>3
  <1>10. Free' = {t[i] : i \in 1..Len(t)}
    <2>1. ASSUME NEW b \in Free' PROVE \E i \in 1..Len(t) : b = t[i]
      <3>1. CASE b = block
        BY <1>1, <1>2, <3>1
      <3>2. CASE b \in Free
        <4>1. PICK i \in 1..Len(s) : b = s[i]
          BY <1>1, <3>2
        <4>2. i + 1 \in 1..Len(t) /\ t[i + 1] = b
          BY <1>1, <1>2, <4>1
        <4>. QED  BY <4>2
      <3>. QED  BY <1>3, <3>1, <3>2
    <2>2. ASSUME NEW i \in 1..Len(t) PROVE t[i] \in Free'
      BY <1>1, <1>2, <1>3, <1>8
    <2>. QED  BY <2>1, <2>2
  <1>11. ASSUME NEW k \in 0..Len(t) PROVE next'[Place(t, k)] = Place(t, k + 1)
    <2>1. CASE k = 0
      BY <1>5, <1>6, <2>1
    <2>2. CASE k = 1
      <3>1. first = Place(s, 1) /\ Place(s, 1) = Place(t, 2)
        <4>1. 0 \in 0..Len(s) /\ 1 \in 1..(Len(s) + 1) /\ 0 + 1 = 1 /\ 1 + 1 = 2
          BY <1>1
        <4>. QED  BY <1>1, <1>6, <4>1 DEF first, Place
      <3>. QED  BY <1>5, <1>6, <2>2, <3>1
    <2>3. CASE k # 0 /\ k # 1
      <3>1. /\ k - 1 \in 1..Len(s) /\ k - 1 \in 0..Len(s) /\ k - 1 \in 1..(Len(s) + 1)
            /\ k \in 1..(Len(s) + 1) /\ (k - 1) + 1 = k
        BY <1>1, <1>2, <2>3
      <3>2. Place(t, k) = Place(s, k - 1) /\ Place(t, k + 1) = Place(s, k)
        <4>1. Place(t, (k - 1) + 1) = Place(s, k - 1)
          BY <1>6, <3>1
        <4>. QED  BY <1>6, <3>1, <4>1
      <3>3. next[Place(s, k - 1)] = Place(s, k)
        <4>1. next[Place(s, k - 1)] = Place(s, (k - 1) + 1)
          BY <1>1, <3>1
        <4>. QED  BY <3>1, <4>1
      <3>. QED  BY <1>5, <1>7, <3>1, <3>2, <3>3
    <2>. QED  BY <2>1, <2>2, <2>3
  <1>. QED  BY <1>2, <1>9, <1>10, <1>11 DEF Spans, t

\* The sequence s without its place i.
LEMMA WithoutPlace ==
    ASSUME NEW s \in Seq(Blocks), NEW i \in 1..Len(s)
    PROVE  /\ RemovedAt(s, i) \in Seq(Blocks) /\ Len(RemovedAt(s, i)) = Len(s) - 1
           /\ \A k \in 1..(Len(s) - 1) :
                RemovedAt(s, i)[k] = IF k < i THEN s[k] ELSE s[k + 1]
PROOF
  <1>. DEFINE a == SubSeq(s, 1, i - 1)
              b == SubSeq(s, i + 1, Len(s))
  <1>1. Len(s) \in Nat /\ i \in Nat /\ 1 <= i /\ i <= Len(s)
    OBVIOUS
  <1>2. /\ a \in Seq(Blocks) /\ Len(a) = i - 1
        /\ \A k \in 1..(i - 1) : a[k] = s[k]
    <2>1. \A k \in 1..(i - 1) : k \in 1..Len(s)
      BY <1>1
    <2>. QED  BY <1>1, <2>1
  <1>3. /\ b \in Seq(Blocks) /\ Len(b) = Len(s) - i
        /\ \A k \in 1..(Len(s) - i) : b[k] = s[k + i]
    <2>1. \A k \in (i + 1)..Len(s) : k \in 1..Len(s)
      BY <1>1
    <2>2. b \in Seq(Blocks)
      BY <1>1, <2>1
    <2>3. Len(b) = Len(s) - i
      BY <1>1
    <2>. QED  BY <1>1, <2>2, <2>3
  <1>. HIDE DEF a, b
  <1>4. /\ a \o b \in Seq(Blocks) /\ Len(a \o b) = Len(s) - 1
        /\ \A k \in 1..(i - 1) : (a \o b)[k] = a[k]
        /\ \A k \in i..(Len(s) - 1) : (a \o b)[k] = b[k - (i - 1)]
    <2>1. /\ a \o b \in Seq(Blocks) /\ Len(a \o b) = Len(a) + Len(b)
          /\ \A k \in 1..(Len(a) + Len(b)) :
               (a \o b)[k] = IF k <= Len(a) THEN a[k] ELSE b[k - Len(a)]
      BY <1>2, <1>3, ConcatProperties
    <2>2. \A k \in 1..(i - 1) : k \in 1..(Len(a) + Len(b)) /\ k <= Len(a)
      BY <1>1, <1>2, <1>3
    <2>3. \A k \in i..(Len(s) - 1) : k \in 1..(Len(a) + Len(b)) /\ ~ (k <= Len(a))
      BY <1>1, <1>2, <1>3
    <2>4. \A k \in i..(Len(s) - 1) : (a \o b)[k] = b[k - (i - 1)]
      BY <1>2, <2>1, <2>3
    <2>5. Len(a \o b) = Len(s) - 1
      BY <1>1, <1>2, <1>3, <2>1
    <2>. QED  BY <2>1, <2>2, <2>4, <2>5
  <1>5. ASSUME NEW k \in 1..(Len(s) - 1)
        PROVE  (a \o b)[k] = IF k < i THEN s[k] ELSE s[k + 1]
    <2>1. CASE k < i
      <3>1. k \in 1..(i - 1)
        BY <1>1, <2>1
      <3>. QED  BY <1>2, <1>4, <2>1, <3>1
    <2>2. CASE ~ (k < i)
      <3>1. k \in i..(Len(s) - 1) /\ k - (i - 1) \in 1..(Len(s) - i) /\ (k - (i - 1)) + i = k + 1
        BY <1>1, <2>2
      <3>2. b[k - (i - 1)] = s[(k - (i - 1)) + i]
        BY <1>3, <3>1
      <3>. QED  BY <1>4, <2>2, <3>1, <3>2
    <2>. QED  BY <2>1, <2>2
  <1>. QED  BY <1>4, <1>5 DEF RemovedAt, a, b

\* A removal takes the block out of the sequence.
LEMMA UnlinkSpans ==
    ASSUME TypeOK, LinksAgree, NEW s, Spans(s), NEW i \in 1..Len(s), Unlink(s[i])
    PROVE  Spans(RemovedAt(s, i))'
PROOF
  <1>. DEFINE t == RemovedAt(s, i)
              block == s[i]
              p == prev[block]
              n == next[block]
  <1>. USE ListAssumption
  <1>1. /\ s \in Seq(Blocks) /\ Len(s) \in Nat /\ Free = {s[j] : j \in 1..Len(s)}
        /\ \A k \in 0..Len(s) : next[Place(s, k)] = Place(s, k + 1)
        /\ \A j, k \in 1..Len(s) : s[j] = s[k] => j = k
    BY DEF Spans
  <1>2. /\ t \in Seq(Blocks) /\ Len(t) = Len(s) - 1 /\ Len(t) \in Nat
        /\ \A k \in 1..Len(t) : t[k] = IF k < i THEN s[k] ELSE s[k + 1]
    <2>1. /\ t \in Seq(Blocks) /\ Len(t) = Len(s) - 1
          /\ \A k \in 1..(Len(s) - 1) : t[k] = IF k < i THEN s[k] ELSE s[k + 1]
      BY <1>1, WithoutPlace
    <2>. HIDE DEF t
    <2>2. Len(t) \in Nat
      BY <2>1
    <2>. QED  BY <2>1, <2>2
  <1>3. block \in Free /\ block \in Blocks /\ Place(s, i) = block
    BY PlacesDiffer DEF Free
  <1>4. Free' = Free \ {block}
    BY <1>3 DEF Free, Unlink
  <1>5. i - 1 \in 0..Len(s) /\ i \in 0..Len(s) /\ (i - 1) + 1 = i
    BY <1>1
  <1>6. p = Place(s, i - 1) /\ n = Place(s, i + 1) /\ p \in Nodes
    <2>1. next[Place(s, i - 1)] = block
      <3>1. next[Place(s, i - 1)] = Place(s, (i - 1) + 1)
        BY <1>1, <1>5
      <3>. QED  BY <1>3, <1>5, <3>1
    <2>2. Place(s, i - 1) \in Free \cup {HeadNode}
      BY <1>5, PlacesDiffer
    <2>3. p = Place(s, i - 1)
      BY <2>1, <2>2 DEF LinksAgree
    <2>. QED  BY <1>1, <1>3, <1>5, <2>2, <2>3 DEF Free, Nodes
  <1>7. \A m \in Nodes \ {block} : next'[m] = IF m = p THEN n ELSE next[m]
    BY <1>3, <1>6 DEF TypeOK, Unlink, Nodes
  <1>. HIDE DEF t, block, p, n
  <1>8. /\ \A k \in 0..(i - 1) : Place(t, k) = Place(s, k)
        /\ \A k \in i..(Len(t) + 1) : Place(t, k) = Place(s, k + 1)
    <2>1. ASSUME NEW k \in 0..(i - 1) PROVE Place(t, k) = Place(s, k)
      <3>1. CASE k = 0
        BY <3>1 DEF Place
      <3>2. CASE k # 0
        <4>1. k \in 1..Len(t) /\ k < i /\ k <= Len(s) /\ k <= Len(t)
          BY <1>1, <1>2, <3>2
        <4>2. t[k] = s[k]
          BY <1>2, <4>1
        <4>. QED  BY <3>2, <4>1, <4>2 DEF Place
      <3>. QED  BY <3>1, <3>2
    <2>2. ASSUME NEW k \in i..(Len(t) + 1) PROVE Place(t, k) = Place(s, k + 1)
      <3>1. CASE k = Len(t) + 1
        <4>1. ~ (k <= Len(t)) /\ ~ (k + 1 <= Len(s)) /\ k # 0 /\ k + 1 # 0
          BY <1>1, <1>2, <3>1
        <4>. QED  BY <4>1 DEF Place
      <3>2. CASE k # Len(t) + 1
        <4>1. k \in 1..Len(t) /\ ~ (k < i) /\ k <= Len(t) /\ k + 1 <= Len(s) /\ k # 0 /\ k + 1 # 0
          BY <1>1, <1>2, <3>2
        <4>2. t[k] = s[k + 1]
          BY <1>2, <4>1
        <4>. QED  BY <4>1, <4>2 DEF Place
      <3>. QED  BY <3>1, <3>2
    <2>. QED  BY <2>1, <2>2
  <1>9. \A j, k \in 1..Len(t) : t[j] = t[k] => j = k
    <2>. SUFFICES ASSUME NEW j \in 1..Len(t), NEW k \in 1..Len(t), t[j] = t[k]
                  PROVE  j = k
      OBVIOUS
    <2>1. \A m \in 1..Len(t) : m \in 1..Len(s) /\ m + 1 \in 1..Len(s) /\ m \in Nat
      BY <1>1, <1>2
    <2>2. CASE j < i /\ k < i
      BY <1>1, <1>2, <2>1, <2>2
    <2>3. CASE j < i /\ ~ (k < i)
      <3>1. s[j] = s[k + 1]
        BY <1>2, <2>3
      <3>2. j = k + 1
        BY <1>1, <2>1, <3>1
      <3>. QED  BY <2>1, <2>3, <3>2
    <2>4. CASE ~ (j < i) /\ k < i
      <3>1. s[j + 1] = s[k]
        BY <1>2, <2>4
      <3>2. j + 1 = k
        BY <1>1, <2>1, <3>1
      <3>. QED  BY <2>1, <2>4, <3>2
    <2>5. CASE ~ (j < i) /\ ~ (k < i)
      <3>1. s[j + 1] = s[k + 1]
        BY <1>2, <2>5
      <3>2. j + 1 = k + 1
        BY <1>1, <2>1, <3>1
      <3>. QED  BY <2>1, <3>2
    <2>. QED  BY <2>2, <2>3, <2>4, <2>5
  <1>10. Free' = {t[k] : k \in 1..Len(t)}
    <2>1. ASSUME NEW b \in Free' PROVE \E k \in 1..Len(t) : b = t[k]
      <3>1. PICK j \in 1..Len(s) : b = s[j]
        BY <1>1, <1>4
      <3>2. j # i
        BY <1>4, <3>1 DEF block
      <3>3. CASE j < i
        <4>1. j \in 1..Len(t)
          BY <1>1, <1>2, <3>3
        <4>. QED  BY <1>2, <3>1, <3>3, <4>1
      <3>4. CASE ~ (j < i)
        <4>1. j - 1 \in 1..Len(t) /\ ~ (j - 1 < i) /\ (j - 1) + 1 = j
          BY <1>1, <1>2, <3>2, <3>4
        <4>2. t[j - 1] = s[j]
          <5>1. t[j - 1] = s[(j - 1) + 1]
            BY <1>2, <4>1
          <5>. QED  BY <4>1, <5>1
        <4>. QED  BY <3>1, <4>1, <4>2
      <3>. QED  BY <3>3, <3>4
    <2>2. ASSUME NEW k \in 1..Len(t) PROVE t[k] \in Free'
      <3>1. k \in 1..Len(s) /\ k + 1 \in 1..Len(s) /\ (k < i => k # i) /\ (~ (k < i) => k + 1 # i)
        BY <1>1, <1>2
      <3>2. \A j \in 1..Len(s) : j # i => s[j] \in Free'
        BY <1>1, <1>4 DEF block
      <3>. QED  BY <1>2, <3>1, <3>2
    <2>. QED  BY <2>1, <2>2
  <1>11. ASSUME NEW k \in 0..Len(t) PROVE next'[Place(t, k)] = Place(t, k + 1)
    <2>1. \A m \in 0..Len(s) : Place(s, m) \in Nodes
      BY PlacesDiffer DEF Free, Nodes
    <2>2. \A m \in 0..Len(s) : m # i => Place(s, m) # block
      BY <1>1, <1>3, <1>5, PlacesDiffer
    <2>3. \A m \in 0..Len(s) : m # i - 1 => Place(s, m) # p
      BY <1>1, <1>5, <1>6, PlacesDiffer
    <2>4. CASE k = i - 1
      <3>1. Place(t, k) = p
        BY <1>1, <1>6, <1>8, <2>4
      <3>2. i \in i..(Len(t) + 1) /\ k + 1 = i
        BY <1>1, <1>2, <2>4
      <3>3. Place(t, k + 1) = n
        BY <1>6, <1>8, <3>2
      <3>4. p # block
        BY <1>1, <1>5, <1>6, <2>2
      <3>. QED  BY <1>6, <1>7, <3>1, <3>3, <3>4
    <2>5. CASE k < i - 1
      <3>1. k \in 0..(i - 1) /\ k + 1 \in 0..(i - 1) /\ k \in 0..Len(s) /\ k # i /\ k # i - 1
        BY <1>1, <1>2, <2>5
      <3>2. Place(t, k) = Place(s, k) /\ Place(t, k + 1) = Place(s, k + 1)
        BY <1>8, <3>1
      <3>3. next'[Place(s, k)] = next[Place(s, k)]
        BY <1>7, <2>1, <2>2, <2>3, <3>1
      <3>. QED  BY <1>1, <3>1, <3>2, <3>3
    <2>6. CASE k > i - 1
      <3>1. /\ k \in i..(Len(t) + 1) /\ k + 1 \in i..(Len(t) + 1)
            /\ k + 1 \in 0..Len(s) /\ k + 1 # i /\ k + 1 # i - 1
        BY <1>1, <1>2, <2>6
      <3>2. Place(t, k) = Place(s, k + 1) /\ Place(t, k + 1) = Place(s, (k + 1) + 1)
        BY <1>8, <3>1
      <3>3. next'[Place(s, k + 1)] = next[Place(s, k + 1)]
        BY <1>7, <2>1, <2>2, <2>3, <3>1
      <3>. QED  BY <1>1, <3>1, <3>2, <3>3
    <2>. QED  BY <1>1, <1>2, <2>4, <2>5, <2>6
  <1>. QED  BY <1>2, <1>9, <1>10, <1>11 DEF Spans, t

\* What callers write into their blocks is not in the sequence.
LEMMA OthersSpan ==
    ASSUME NEW s, Spans(s), Free' = Free,
           \A m \in Free \cup {HeadNode} : next'[m] = next[m]
    PROVE  Spans(s)'
  BY PlacesDiffer DEF Spans

\* The first block of the sequence is the one the head is linked to.
LEMMA FirstSpans ==
    ASSUME NEW s, Spans(s)
    PROVE  /\ (next[HeadNode] # TailNode) <=> (s # << >>)
           /\ s # << >> => 1 \in 1..Len(s) /\ s[1] = next[HeadNode]
PROOF
  <1>. USE ListAssumption
  <1>1. s \in Seq(Blocks) /\ Len(s) \in Nat /\ 0 \in 0..Len(s)
    BY DEF Spans
  <1>2. next[HeadNode] = Place(s, 1)
    <2>1. next[Place(s, 0)] = Place(s, 0 + 1)
      BY <1>1 DEF Spans
    <2>. QED  BY <2>1, PlacesDiffer
  <1>3. CASE s = << >>
    <2>1. Len(s) = 0
      BY <1>3
    <2>. QED  BY <1>2, <1>3, <2>1 DEF Place
  <1>4. CASE s # << >>
    <2>1. Len(s) >= 1 /\ 1 \in 1..Len(s)
      BY <1>1, <1>4
    <2>2. Place(s, 1) = s[1] /\ s[1] \in Blocks
      BY <1>1, <2>1, PlacesDiffer
    <2>. QED  BY <1>2, <1>4, <2>1, <2>2
  <1>. QED  BY <1>3, <1>4

\* What a step does to the sequence.
LEMMA OrderedStep ==
    ASSUME TypeOK, LinksAgree, NEW s, Spans(s), [Next]_vars
    PROVE  \/ Spans(s)'
           \/ \E block \in Blocks :
                (\A i \in 1..Len(s) : s[i] # block) /\ Spans(<<block>> \o s)'
           \/ \E i \in 1..Len(s) : Spans(RemovedAt(s, i))'
PROOF
  <1>. USE ListAssumption
  <1>1. CASE get_mem_block
    <2>1. s # << >> /\ 1 \in 1..Len(s) /\ s[1] = next[HeadNode]
      BY <1>1, FirstSpans DEF get_mem_block, mem_block_list_empty
    <2>2. Unlink(s[1])
      BY <1>1, <2>1 DEF get_mem_block
    <2>3. Spans(RemovedAt(s, 1))'
      BY <2>1, <2>2, UnlinkSpans
    <2>. QED  BY <2>1, <2>3
  <1>2. ASSUME NEW block \in Blocks, add_mem_block(block)
        PROVE  (\A i \in 1..Len(s) : s[i] # block) /\ Spans(<<block>> \o s)'
    <2>1. block \notin Free
      BY <1>2 DEF add_mem_block, Free
    <2>2. \A i \in 1..Len(s) : s[i] # block
      BY <2>1, PlacesDiffer
    <2>. QED  BY <1>2, <2>2, AddSpans
  <1>3. ASSUME NEW block \in Blocks, remove_mem_block(block)
        PROVE  \E i \in 1..Len(s) : Spans(RemovedAt(s, i))'
    <2>1. PICK i \in 1..Len(s) : block = s[i]
      BY <1>3 DEF remove_mem_block, Spans
    <2>2. Unlink(s[i])
      BY <1>3, <2>1 DEF remove_mem_block
    <2>3. Spans(RemovedAt(s, i))'
      BY <2>2, UnlinkSpans
    <2>. QED  BY <2>3
  <1>4. ASSUME NEW block \in Blocks, CallerWrites(block)
        PROVE  Spans(s)'
    <2>1. Free' = Free /\ block \notin Free /\ block # HeadNode
      BY <1>4 DEF CallerWrites, Free
    <2>2. \A m \in Free \cup {HeadNode} : next'[m] = next[m]
      BY <1>4, <2>1 DEF CallerWrites, TypeOK, Free, Nodes
    <2>. QED  BY <2>1, <2>2, OthersSpan
  <1>5. CASE UNCHANGED vars
    <2>1. Free' = Free /\ next' = next
      BY <1>5 DEF vars, Free
    <2>. QED  BY <2>1, OthersSpan
  <1>. QED
    BY <1>1, <1>2, <1>3, <1>4, <1>5 DEF Next

\* All free blocks are on the way from the head to the tail, in every state.
THEOREM ListStaysOrdered == Spec => [](TypeOK /\ LinksAgree /\ Ordered)
PROOF
  <1>1. Init => Ordered
    <2>1. << >> \in Seq(Blocks)
      OBVIOUS
    <2>. QED  BY <2>1, EmptySpans DEF Ordered
  <1>2. TypeOK /\ LinksAgree /\ Ordered /\ [Next]_vars => Ordered'
    <2>. SUFFICES ASSUME TypeOK, LinksAgree, Ordered, [Next]_vars
                  PROVE  Ordered'
      OBVIOUS
    <2>1. PICK s \in Seq(Blocks) : Spans(s)
      BY DEF Ordered
    <2>2. \A t : Spans(t)' => t \in Seq(Blocks)
      BY DEF Spans
    <2>3. \E t : Spans(t)'
      BY <2>1, OrderedStep
    <2>. QED  BY <2>2, <2>3 DEF Ordered
  <1>. QED  BY <1>1, <1>2, ListLinks, PTL DEF Spec
-----------------------------------------------------------------------------
LEMMA LeastNat ==
    ASSUME NEW S \in SUBSET Nat, S # {}
    PROVE  \E x \in S : \A y \in S : x <= y
PROOF
  <1>. DEFINE R == OpToRel(<, Nat)
  <1>1. IsWellFoundedOn(R, Nat)
    BY NatLessThanWellFounded
  <1>2. R = {ss \in Nat \X Nat : ss[1] < ss[2]}
    BY DEF OpToRel
  <1>. HIDE DEF R
  <1>3. PICK x \in S : \A y \in S : ~ (<<y, x>> \in R)
    BY <1>1, WFMin
  <1>4. \A y \in S : ~ (y < x)
    BY <1>2, <1>3
  <1>. QED  BY <1>3, <1>4

\* The walk is long enough for all blocks of the list.
LEMMA FitsTheWalk ==
    ASSUME IsFiniteSet(Blocks), NEW s, Spans(s)
    PROVE  Cardinality(Nodes) \in Nat /\ Len(s) + 1 <= Cardinality(Nodes)
PROOF
  <1>. USE ListAssumption
  <1>1. s \in Seq(Blocks) /\ Len(s) \in Nat
        /\ \A i, j \in 1..Len(s) : s[i] = s[j] => i = j
    BY DEF Spans
  <1>2. s \in [1..Len(s) -> Blocks]
    BY <1>1
  <1>3. s \in Injection(1..Len(s), Blocks)
    BY <1>1, <1>2 DEF Injection, IsInjective
  <1>4. Cardinality(1..Len(s)) <= Cardinality(Blocks)
    BY <1>3, FS_Injection
  <1>5. Cardinality(1..Len(s)) = Len(s)
    <2>1. Cardinality(1..Len(s)) = IF 1 > Len(s) THEN 0 ELSE Len(s) - 1 + 1
      BY <1>1, FS_Interval
    <2>. QED  BY <1>1, <2>1
  <1>6. Cardinality(Blocks) \in Nat
    BY FS_CardinalityType
  <1>7. IsFiniteSet(Blocks \cup {HeadNode})
        /\ Cardinality(Blocks \cup {HeadNode}) = Cardinality(Blocks) + 1
    BY FS_AddElement
  <1>8. Cardinality((Blocks \cup {HeadNode}) \cup {TailNode})
          = Cardinality(Blocks \cup {HeadNode}) + 1
    BY <1>7, FS_AddElement
  <1>9. (Blocks \cup {HeadNode}) \cup {TailNode} = Nodes
    BY DEF Nodes
  <1>10. Cardinality(Nodes) = Cardinality(Blocks) + 1 + 1
    BY <1>7, <1>8, <1>9, Zenon
  <1>11. Len(s) <= Cardinality(Blocks)
    BY <1>4, <1>5, Zenon
  <1>. QED  BY <1>1, <1>6, <1>10, <1>11

\* The walk goes along the sequence and stays at the tail.
LEMMA WalkIs ==
    ASSUME IsFiniteSet(Blocks), NEW s, Spans(s)
    PROVE  /\ DOMAIN Walk = 0..Cardinality(Nodes)
           /\ \A k \in 0..Cardinality(Nodes) : Walk[k] = Place(s, k)
PROOF
  <1>. DEFINE N == Cardinality(Nodes)
              Along(w) == [i \in 0..N |->
                             IF i = 0 THEN HeadNode
                             ELSE IF w[i - 1] \in Nodes \ {TailNode}
                                  THEN next[w[i - 1]] ELSE TailNode]
              straight == [k \in 0..N |-> Place(s, k)]
  <1>. USE ListAssumption
  <1>1. N \in Nat
    BY FitsTheWalk
  <1>. HIDE DEF N
  <1>2. ASSUME NEW k \in 0..N, k # 0
        PROVE  /\ k - 1 \in 0..N
               /\ Place(s, k - 1) \in Nodes \ {TailNode} => next[Place(s, k - 1)] = Place(s, k)
               /\ Place(s, k - 1) \notin Nodes \ {TailNode} => Place(s, k) = TailNode
    <2>1. Len(s) \in Nat /\ k - 1 \in 0..N /\ (k - 1) + 1 = k /\ k \in Nat
      BY <1>1, <1>2, PlacesDiffer
    <2>2. CASE k - 1 \in 0..Len(s)
      <3>1. next[Place(s, k - 1)] = Place(s, (k - 1) + 1)
        BY <2>2 DEF Spans
      <3>2. Place(s, k - 1) \in Nodes \ {TailNode}
        BY <2>2, PlacesDiffer DEF Free, Nodes
      <3>. QED  BY <2>1, <3>1, <3>2
    <2>3. CASE k - 1 \notin 0..Len(s)
      <3>1. ~ (k - 1 <= Len(s)) /\ ~ (k <= Len(s)) /\ k - 1 # 0
        BY <2>1, <2>3
      <3>2. Place(s, k - 1) = TailNode /\ Place(s, k) = TailNode
        BY <1>2, <3>1 DEF Place
      <3>. QED  BY <2>1, <3>2
    <2>. QED  BY <2>2, <2>3
  <1>3. straight = Along(straight)
    <2>1. ASSUME NEW k \in 0..N PROVE straight[k] = Along(straight)[k]
      <3>1. CASE k = 0
        BY <3>1 DEF Place
      <3>2. CASE k # 0
        <4>1. straight[k - 1] = Place(s, k - 1) /\ straight[k] = Place(s, k)
          BY <1>2, <3>2
        <4>. HIDE DEF straight
        <4>. QED  BY <1>2, <3>2, <4>1
      <3>. QED  BY <3>1, <3>2
    <2>. QED  BY <2>1
  <1>4. Walk = CHOOSE w : w = Along(w)
    BY DEF Walk, N
  <1>5. Walk = Along(Walk)
    <2>. HIDE DEF Along, straight
    <2>. QED  BY <1>3, <1>4, Zenon
  <1>6. DOMAIN Walk = 0..N
    <2>1. DOMAIN Along(Walk) = 0..N
      OBVIOUS
    <2>. HIDE DEF Along
    <2>. QED  BY <1>5, <2>1
  <1>7. ASSUME NEW k \in 0..N PROVE Walk[k] = Place(s, k)
    <2>. DEFINE astray == {j \in 0..N : Walk[j] # Place(s, j)}
    <2>1. SUFFICES ASSUME astray # {} PROVE FALSE
      BY <2>1
    <2>2. PICK j \in astray : \A y \in astray : j <= y
      <3>1. astray \in SUBSET Nat
        BY <1>1
      <3>. HIDE DEF astray
      <3>. QED  BY <2>1, <3>1, LeastNat
    <2>3. j \in 0..N /\ Walk[j] # Place(s, j)
      BY <2>2
    <2>4. Walk[j] = Along(Walk)[j]
      BY <1>5
    <2>5. j # 0
      <3>1. Along(Walk)[0] = HeadNode
        BY <1>1
      <3>. HIDE DEF Along
      <3>. QED  BY <2>3, <2>4, <3>1 DEF Place
    <2>6. Walk[j - 1] = Place(s, j - 1)
      <3>1. j - 1 \in 0..N /\ ~ (j <= j - 1)
        BY <1>1, <2>3, <2>5
      <3>. QED  BY <2>2, <3>1
    <2>7. Walk[j] = IF Walk[j - 1] \in Nodes \ {TailNode} THEN next[Walk[j - 1]] ELSE TailNode
      BY <2>3, <2>4, <2>5
    <2>. QED  BY <1>2, <2>3, <2>5, <2>6, <2>7
  <1>. QED  BY <1>6, <1>7 DEF N

LEMMA OrderedSearch ==
    ASSUME IsFiniteSet(Blocks)
    PROVE  Ordered => SearchFindsFree
PROOF
  <1>. SUFFICES ASSUME Ordered PROVE SearchFindsFree
    OBVIOUS
  <1>. USE ListAssumption
  <1>1. PICK s \in Seq(Blocks) : Spans(s)
    BY DEF Ordered
  <1>2. Len(s) \in Nat /\ Cardinality(Nodes) \in Nat /\ Len(s) + 1 <= Cardinality(Nodes)
    BY <1>1, FitsTheWalk
  <1>3. DOMAIN Walk = 0..Cardinality(Nodes)
        /\ \A k \in 0..Cardinality(Nodes) : Walk[k] = Place(s, k)
    BY <1>1, WalkIs
  <1>4. Len(s) + 1 \in DOMAIN Walk /\ Walk[Len(s) + 1] = TailNode
    BY <1>1, <1>2, <1>3, PlacesDiffer
  <1>5. ASSUME NEW b \in Blocks, b \in Free PROVE search_block(b)
    <2>1. PICK i \in 1..Len(s) : b = s[i]
      BY <1>1, <1>5 DEF Spans
    <2>2. i \in DOMAIN Walk /\ i > 0 /\ Walk[i] = b
      BY <1>1, <1>2, <1>3, <2>1, PlacesDiffer
    <2>. QED  BY <2>2 DEF search_block
  <1>6. ASSUME NEW b \in Blocks, search_block(b) PROVE b \in Free
    <2>1. PICK i \in DOMAIN Walk : i > 0 /\ Walk[i] = b
      BY <1>6 DEF search_block
    <2>2. i \in Nat /\ Place(s, i) = b
      BY <1>3, <2>1
    <2>3. i <= Len(s)
      BY <2>1, <2>2 DEF Place
    <2>. QED  BY <1>1, <1>2, <2>1, <2>2, <2>3, PlacesDiffer
  <1>. QED  BY <1>4, <1>5, <1>6 DEF SearchFindsFree

\* The search of remove_mem_block finds every free block and no other, and
\* its walk ends, for any finite set of blocks.
THEOREM SearchAlwaysFindsFree ==
    ASSUME IsFiniteSet(Blocks)
    PROVE  Spec => []SearchFindsFree
  BY ListStaysOrdered, OrderedSearch, PTL
-----------------------------------------------------------------------------
\* The sequence is the one the abstract list is read as.
LEMMA ChainIs ==
    ASSUME IsFiniteSet(Blocks), NEW s, Spans(s)
    PROVE  Chain = s
PROOF
  <1>. DEFINE Ends == {i \in DOMAIN Walk : Walk[i] = TailNode}
              end  == CHOOSE i \in Ends : \A j \in Ends : i <= j
  <1>. USE ListAssumption
  <1>1. Len(s) \in Nat /\ Cardinality(Nodes) \in Nat /\ Len(s) + 1 <= Cardinality(Nodes)
    BY FitsTheWalk, PlacesDiffer
  <1>2. DOMAIN Walk = 0..Cardinality(Nodes)
        /\ \A k \in 0..Cardinality(Nodes) : Walk[k] = Place(s, k)
    BY WalkIs
  <1>3. Ends = (Len(s) + 1)..Cardinality(Nodes)
    <2>1. ASSUME NEW k \in 0..Cardinality(Nodes)
          PROVE  Place(s, k) = TailNode <=> k \in (Len(s) + 1)..Cardinality(Nodes)
      <3>1. CASE k \in 0..Len(s)
        BY <1>1, <3>1, PlacesDiffer DEF Free
      <3>2. CASE k \notin 0..Len(s)
        BY <1>1, <3>2 DEF Place
      <3>. QED  BY <3>1, <3>2
    <2>. QED  BY <1>1, <1>2, <2>1
  <1>4. end = Len(s) + 1
    <2>. HIDE DEF Ends
    <2>. QED  BY <1>1, <1>3
  <1>5. Chain = [i \in 1..(end - 1) |-> Walk[i]]
    BY DEF Chain
  <1>. HIDE DEF end
  <1>6. Chain = [i \in 1..Len(s) |-> s[i]]
    <2>1. \A i \in 1..Len(s) : Walk[i] = s[i]
      BY <1>1, <1>2, PlacesDiffer
    <2>2. end - 1 = Len(s)
      BY <1>1, <1>4
    <2>. QED  BY <1>5, <2>1, <2>2
  <1>. QED  BY <1>6 DEF Spans

\* Whatever sequence the list is, it is the abstract list.
ListRead == \A s : Spans(s) => Chain = s

\* Every step of the list is one of the abstract list, or none.
THEOREM ListImplementsFreeList ==
    ASSUME IsFiniteSet(Blocks)
    PROVE  Spec => ListSpec
PROOF
  <1>1. ListRead
    BY ChainIs DEF ListRead
  <1>2. Init /\ ListRead => List!Init
    BY EmptySpans DEF ListRead, List!Init
  <1>3. /\ TypeOK /\ LinksAgree /\ Ordered /\ ListRead /\ ListRead'
        /\ [Next]_vars
        => [List!Next]_Chain
    <2>. SUFFICES ASSUME TypeOK, LinksAgree, Ordered, ListRead, ListRead', [Next]_vars
                  PROVE  [List!Next]_Chain
      OBVIOUS
    <2>1. PICK s \in Seq(Blocks) : Spans(s)
      BY DEF Ordered
    <2>2. Chain = s /\ \A t : Spans(t)' => Chain' = t
      BY <2>1 DEF ListRead
    <2>3. DOMAIN s = 1..Len(s)
      BY <2>1
    <2>4. CASE Spans(s)'
      BY <2>2, <2>4
    <2>5. ASSUME NEW block \in Blocks, \A i \in 1..Len(s) : s[i] # block,
                 Spans(<<block>> \o s)'
          PROVE  List!Next
      <3>1. Chain' = <<block>> \o s
        BY <2>2, <2>5
      <3>2. List!Add(block)
        BY <2>2, <2>3, <2>5, <3>1 DEF List!Add, List!Range
      <3>. QED  BY <3>2 DEF List!Next
    <2>6. ASSUME NEW i \in 1..Len(s), Spans(RemovedAt(s, i))'
          PROVE  List!Next
      <3>1. Chain' = RemovedAt(s, i)
        BY <2>2, <2>6
      <3>2. s[i] \in Blocks
        BY <2>1, <2>6
      <3>3. List!Take(s[i])
        BY <2>2, <2>3, <2>6, <3>1 DEF List!Take, RemovedAt, List!RemoveAt
      <3>. QED  BY <3>2, <3>3 DEF List!Next
    <2>. QED  BY <2>1, <2>4, <2>5, <2>6, OrderedStep
  <1>. QED
    BY <1>1, <1>2, <1>3, ListStaysOrdered, PTL DEF Spec, ListSpec, List!Spec
=============================================================================
