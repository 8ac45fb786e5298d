---------------------------- MODULE MemBlockList ----------------------------
(***************************************************************************)
(* The doubly linked list of free blocks of kernel/mem/heap.c.  The links  *)
(* of a block are the first bytes of the block itself, so that a caller    *)
(* that holds the block writes over them; head and tail are the two nodes  *)
(* of the mem_block_list_t.                                                *)
(***************************************************************************)
EXTENDS Naturals, FiniteSets

CONSTANTS Blocks,               \* addresses of blocks
          HeadNode, TailNode,   \* &list->head and &list->tail
          NULL,
          Written               \* what callers write over the links of their blocks

Nodes == Blocks \cup {HeadNode, TailNode}

ASSUME ListAssumption ==
    /\ HeadNode \notin Blocks /\ TailNode \notin Blocks /\ HeadNode # TailNode
    /\ NULL \notin Nodes

VARIABLES next, prev,   \* the two links of every node
          held          \* the blocks that callers hold or that lie in pages
                        \* of the pool: all that are not in the list

vars == <<next, prev, held>>

Free == Blocks \ held

TypeOK ==
    /\ next \in [Nodes -> Nodes \cup {NULL} \cup Written]
    /\ prev \in [Nodes -> Nodes \cup {NULL} \cup Written]
    /\ held \subseteq Blocks

\* mem_block_list_init; what the blocks hold is left over.
Init ==
    /\ next \in [Nodes -> Written \cup {NULL, TailNode}]
    /\ prev \in [Nodes -> Written \cup {NULL, HeadNode}]
    /\ next[HeadNode] = TailNode /\ prev[HeadNode] = NULL
    /\ prev[TailNode] = HeadNode /\ next[TailNode] = NULL
    /\ \A b \in Blocks : next[b] \in Written /\ prev[b] \in Written
    /\ held = Blocks

-----------------------------------------------------------------------------
\* An insertion at the other end of the list.
Faulty_add_mem_block_AtTail(block) ==
    /\ block \in held
    /\ next' = [next EXCEPT ![block] = TailNode, ![prev[TailNode]] = block]
    /\ prev' = [prev EXCEPT ![block] = prev[TailNode], ![TailNode] = block]
    /\ held' = held \ {block}

\* add_mem_block, of a block that kfree was given or of a new page.
add_mem_block(block) ==
    /\ block \in held
    /\ next' = [next EXCEPT ![block] = next[HeadNode], ![HeadNode] = block]
    /\ prev' = [prev EXCEPT ![block] = HeadNode, ![next[HeadNode]] = block]
    /\ held' = held \ {block}

\* A removal that only unlinks forwards.
Faulty_Unlink_OneWay(block) ==
    /\ next' = [next EXCEPT ![prev[block]] = next[block], ![block] = NULL]
    /\ prev' = [prev EXCEPT ![block] = NULL]
    /\ held' = held \cup {block}

\* A removal that only unlinks backwards.
Faulty_Unlink_NextKept(block) ==
    /\ next' = [next EXCEPT ![block] = NULL]
    /\ prev' = [prev EXCEPT ![next[block]] = prev[block], ![block] = NULL]
    /\ held' = held \cup {block}

\* The body of remove_mem_block.
Unlink(block) ==
    /\ next' = [next EXCEPT ![prev[block]] = next[block], ![block] = NULL]
    /\ prev' = [prev EXCEPT ![next[block]] = prev[block], ![block] = NULL]
    /\ held' = held \cup {block}

\* remove_mem_block, of a block whose page goes back to the pool.
remove_mem_block(block) ==
    /\ block \in Free
    /\ Unlink(block)

mem_block_list_empty == next[HeadNode] = TailNode

\* get_mem_block, which kmalloc only calls when the list is not empty.
get_mem_block ==
    /\ ~ mem_block_list_empty
    /\ Unlink(next[HeadNode])

\* A caller writes into a block it holds, over both links.
CallerWrites(block) ==
    /\ block \in held
    /\ \E n, p \in Written :
         /\ next' = [next EXCEPT ![block] = n]
         /\ prev' = [prev EXCEPT ![block] = p]
    /\ UNCHANGED held

Next ==
    \/ get_mem_block
    \/ \E block \in Blocks :
         \/ add_mem_block(block)
         \/ remove_mem_block(block)
         \/ CallerWrites(block)

Spec == Init /\ [][Next]_vars
-----------------------------------------------------------------------------
\* The two links agree, from the head to the tail and over the free blocks
\* only: whatever callers write into the blocks they hold, the list never
\* leads into one of them, and get_mem_block never returns a sentinel.
LinksAgree ==
    /\ \A n \in Free \cup {HeadNode} :
         next[n] \in Free \cup {TailNode} /\ prev[next[n]] = n
    /\ \A n \in Free \cup {TailNode} :
         prev[n] \in Free \cup {HeadNode} /\ next[prev[n]] = n

\* The nodes met from the head on; the list is walked as far as the tail.
Walk[i \in 0 .. Cardinality(Nodes)] ==
    IF i = 0 THEN HeadNode
    ELSE IF Walk[i - 1] \in Nodes \ {TailNode} THEN next[Walk[i - 1]] ELSE TailNode

Chain ==
    LET Ends == {i \in DOMAIN Walk : Walk[i] = TailNode}
        end  == CHOOSE i \in Ends : \A j \in Ends : i <= j
    IN  [i \in 1 .. (end - 1) |-> Walk[i]]

\* search_block finds exactly the free blocks, and its walk ends.
search_block(node) == \E i \in DOMAIN Walk : i > 0 /\ Walk[i] = node

SearchFindsFree ==
    /\ \E i \in DOMAIN Walk : Walk[i] = TailNode
    /\ \A b \in Blocks : search_block(b) <=> b \in Free

\* The list is the sequence of FreeList: last in, first out.
List == INSTANCE FreeList WITH list <- Chain
ListSpec == List!Spec
=============================================================================
