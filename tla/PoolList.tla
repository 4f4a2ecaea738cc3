------------------------------ MODULE PoolList ------------------------------
(***************************************************************************)
(* bmalloc::List<T> (bmalloc/List.h) at the level of its pointers.         *)
(*                                                                         *)
(* A cell is a ListNode<T>: a payload node, or the m_root sentinel of a    *)
(* List, which we name by the list itself.  prev and next are the two      *)
(* pointer fields of every cell; NULL is nullptr.  insertAfter and remove  *)
(* are static: they rewrite pointers of whatever cells they are given and  *)
(* never look at which list those belong to, so several lists share one    *)
(* pointer heap here as they do in memory.  Each operation is one atomic   *)
(* step: List is not synchronised and is used by one thread at a time.     *)
(*                                                                         *)
(* held is the caller: the nodes it owns and has not handed to a list;    *)
(* op records its last call and the node it passed or got back.  fault is  *)
(* a write through nullptr: the process has crashed and takes no step.     *)
(* iter and iterList are a caller's iterator (m_node) and the list whose   *)
(* end() its loop compares with; yielded is a history variable, the nodes  *)
(* the loop has handed its body so far.                                    *)
(***************************************************************************)
EXTENDS Naturals, Sequences, FiniteSets

Seqs == INSTANCE SequencesExt

CONSTANTS
    Nodes,      \* the ListNode<T> objects (free blocks)
    Lists,      \* the List<T> objects; l also names l.m_root
    NULL        \* nullptr

ASSUME Nodes \cap Lists = {} /\ NULL \notin Nodes \cup Lists

Cells == Nodes \cup Lists

VARIABLES
    prev,       \* prev[c]: ListNode::prev of cell c
    next,       \* next[c]: ListNode::next of cell c
    held,       \* nodes owned by the caller
    op,         \* the caller's last call and its result (for the refinement)
    fault,      \* a null pointer was written through (crash)
    iter,       \* iterator::m_node of a loop in progress, or NoIter
    iterList,   \* the list the loop iterates
    yielded     \* history: the nodes *it has given the loop body

NoIter == "NoIter"

iterVars == <<iter, iterList, yielded>>
vars == <<prev, next, held, op, fault, iter, iterList, yielded>>

-----------------------------------------------------------------------------
(* Read-only members of List.                                              *)

\* Mutation: isEmpty() that tests for nullptr instead of the sentinel.
IsEmptyNull(l) == next[l] = NULL

\* isEmpty(): m_root.next == &m_root
IsEmpty(l) == next[l] = l

\* head() and tail()
HeadOf(l) == next[l]
TailOf(l) == prev[l]

\* Forward iteration from begin() = m_root.next to end() = &m_root, each
\* ++ following next.  The walk stops at NULL and after |Nodes| steps so
\* that it is defined on corrupted heaps too.
RECURSIVE WalkFrom(_, _, _)
WalkFrom(l, c, k) ==
    IF c = l \/ c \notin Nodes \/ k = 0 THEN <<>>
    ELSE <<c>> \o WalkFrom(l, next[c], k - 1)

Walk(l) == WalkFrom(l, next[l], Cardinality(Nodes))

\* The cell the walk of l ends at: l itself when the list is circular.
WalkEnd(l) == LET w == Walk(l) IN IF w = <<>> THEN next[l] ELSE next[Seqs!Last(w)]

-----------------------------------------------------------------------------
(* Initial state: List() { m_root { &m_root, &m_root } } and               *)
(* ListNode() = default, both pointers nullptr.                            *)

\* The link a cell is constructed with: ListNode(prev, next) with the root
\* itself for a sentinel, the default members (nullptr) for a node.
ConstructedLink(c) == IF c \in Lists THEN c ELSE NULL

Init ==
    /\ prev = [c \in Cells |-> ConstructedLink(c)]
    /\ next = [c \in Cells |-> ConstructedLink(c)]
    /\ held = Nodes
    /\ op = <<"none">>
    /\ fault = FALSE
    /\ iter = NoIter
    /\ iterList = NoIter
    /\ yielded = <<>>

-----------------------------------------------------------------------------
(* Mutations used to test the properties below (see PROJECT.json).         *)

\* insertAfter that forgets next->prev = node.
InsertAfterNoBackLink(it, node) ==
    LET nx == next[it] IN
    /\ next' = [next EXCEPT ![node] = nx, ![it] = node]
    /\ prev' = [prev EXCEPT ![node] = it]
    /\ fault' = fault

-----------------------------------------------------------------------------
(* The static pointer rewrites, statement by statement.  Each EXCEPT       *)
(* applies one assignment of the C++ in program order, so aliasing (it,    *)
(* next and node being the same cell) has the effect it has in the code.   *)

\* static void insertAfter(ListNode<T>* it, ListNode<T>* node).  A null
\* anchor, or one with a null next (not on a list), is dereferenced.
InsertAfter(it, node) ==
    IF it = NULL \/ next[it] = NULL
    THEN fault' = TRUE /\ UNCHANGED <<prev, next>>
    ELSE LET pv == it
             nx == next[it]
             n1 == [next EXCEPT ![node] = nx]      \* node->next = next
             p1 == [prev EXCEPT ![nx] = node]      \* next->prev = node
             p2 == [p1 EXCEPT ![node] = pv]        \* node->prev = prev
             n2 == [n1 EXCEPT ![pv] = node]        \* prev->next = node
         IN  /\ prev' = p2
             /\ next' = n2
             /\ fault' = fault

\* Mutation: remove that leaves the removed node's pointers in place.
RemoveKeepLinks(node) ==
    IF node = NULL \/ next[node] = NULL \/ prev[node] = NULL
    THEN fault' = TRUE /\ UNCHANGED <<prev, next>>
    ELSE LET nx == next[node]
             pv == prev[node]
         IN  /\ prev' = [prev EXCEPT ![nx] = pv]
             /\ next' = [next EXCEPT ![pv] = nx]
             /\ fault' = fault

\* static void remove(ListNode<T>* node).  A null node, or one with null
\* pointers (removed before), makes node->next, next->prev = prev or
\* prev->next = next dereference nullptr: the process crashes.
Remove(node) ==
    IF node = NULL \/ next[node] = NULL \/ prev[node] = NULL
    THEN fault' = TRUE /\ UNCHANGED <<prev, next>>
    ELSE LET nx == next[node]
             pv == prev[node]
             p1 == [prev EXCEPT ![nx] = pv]        \* next->prev = prev
             n1 == [next EXCEPT ![pv] = nx]        \* prev->next = next
         IN  /\ prev' = [p1 EXCEPT ![node] = NULL] \* node->prev = nullptr
             /\ next' = [n1 EXCEPT ![node] = NULL] \* node->next = nullptr
             /\ fault' = fault

-----------------------------------------------------------------------------
(* The operations, each with what the caller does around it.              *)

\* push that anchors at head() instead of tail() (mutation).
PushAfterHead(l, node) ==
    /\ InsertAfter(HeadOf(l), node)
    /\ held' = held \ {node}
    /\ op' = <<"push", l, node>>

\* push(node): insertAfter(tail(), node)
Push(l, node) ==
    /\ InsertAfter(TailOf(l), node)
    /\ held' = held \ {node}
    /\ op' = <<"push", l, node>>

\* pushFront(node): insertAfter(&m_root, node)
PushFront(l, node) ==
    /\ InsertAfter(l, node)
    /\ held' = held \ {node}
    /\ op' = <<"pushFront", l, node>>

\* pop(): remove(tail()) and return it
Pop(l) ==
    /\ Remove(TailOf(l))
    /\ held' = held \cup {TailOf(l)}
    /\ op' = <<"pop", l, TailOf(l)>>

\* popFront(): remove(head()) and return it
PopFront(l) ==
    /\ Remove(HeadOf(l))
    /\ held' = held \cup {HeadOf(l)}
    /\ op' = <<"popFront", l, HeadOf(l)>>

\* A caller's insertAfter(it, node) with a node of some list as anchor.
InsertAfterCall(it, node) ==
    /\ InsertAfter(it, node)
    /\ held' = held \ {node}
    /\ op' = <<"insertAfter", it, node>>

\* A caller's remove(node).
RemoveCall(node) ==
    /\ Remove(node)
    /\ held' = held \cup {node}
    /\ op' = <<"remove", node, node>>

-----------------------------------------------------------------------------
(* Callers that keep List's contract: they push and insert only nodes they *)
(* own, anchor only at a linked node, pop only a non-empty list, remove    *)
(* only a linked node.  head()/tail()/isEmpty() are the checks they use.   *)

Linked == Nodes \ held

ContractCalls ==
    \/ \E l \in Lists, n \in held : Push(l, n) \/ PushFront(l, n)
    \/ \E l \in Lists : ~IsEmpty(l) /\ (Pop(l) \/ PopFront(l))
    \/ \E it \in Linked, n \in held : InsertAfterCall(it, n)
    \/ \E n \in Linked : RemoveCall(n)

\* A crashed process takes no further step; no loop is open.
Next == ~fault /\ ContractCalls /\ UNCHANGED iterVars

Spec == Init /\ [][Next]_vars

\* Callers that break the contract the way §7 of the spec names: popping an
\* empty list and pushing (double-freeing) a node that is still linked.
\* The code has no check on either.
NextUnchecked ==
    /\ ~fault
    /\ \/ \E l \in Lists, n \in Nodes : Push(l, n) \/ PushFront(l, n)
       \/ \E l \in Lists : Pop(l) \/ PopFront(l)
       \/ \E it \in Linked, n \in held : InsertAfterCall(it, n)
       \/ \E n \in Linked : RemoveCall(n)
    /\ UNCHANGED iterVars

SpecUnchecked == Init /\ [][NextUnchecked]_vars

\* Callers that keep the contract except that they may push a node that is
\* still linked (a double free, spec §7).
NextDoublePush ==
    \/ Next
    \/ ~fault /\ \E l \in Lists, n \in Linked : Push(l, n) /\ UNCHANGED iterVars

SpecDoublePush == Init /\ [][NextDoublePush]_vars

-----------------------------------------------------------------------------
(* Iteration: for (auto* n : list) { body }.  The loop compares m_node    *)
(* with end() = &m_root before each body, hands the body static_cast<T*>  *)
(* (m_node), and then ++ reads m_node->next.                               *)

IterBegin(l) ==
    /\ iter = NoIter
    /\ iter' = next[l]
    /\ iterList' = l
    /\ yielded' = <<>>
    /\ UNCHANGED <<prev, next, held, op, fault>>

\* One round of the loop: stop at end(), or run the body on *it and take
\* ++it.  Past a removed node m_node is nullptr, which != end(): the body
\* gets nullptr and ++ dereferences it.
IterStep ==
    /\ iter # NoIter
    /\ IF iter = iterList
       THEN /\ iter' = NoIter /\ iterList' = NoIter
            /\ UNCHANGED <<fault, yielded>>
       ELSE IF iter = NULL
       THEN /\ fault' = TRUE /\ UNCHANGED iterVars
       ELSE /\ iter' = next[iter] /\ UNCHANGED iterList
            /\ yielded' = Append(yielded, iter)
            /\ UNCHANGED fault
    /\ UNCHANGED <<prev, next, held, op>>

\* A contract-keeping caller that also iterates.  While a loop is open it
\* calls List operations on the other lists only (spec §4.1: mutating the
\* list being iterated invalidates the iteration).
NextIterating ==
    \/ /\ ~fault /\ ContractCalls /\ UNCHANGED iterVars
       /\ iter # NoIter => Walk(iterList)' = Walk(iterList)
    \/ ~fault /\ \E l \in Lists : IterBegin(l)
    \/ ~fault /\ IterStep

SpecIterating == Init /\ [][NextIterating]_vars

-----------------------------------------------------------------------------
(* Properties.                                                             *)

\* Types: every pointer is a cell or nullptr, and the caller only ever
\* gets payload nodes back (pop never hands out a sentinel).
TypeOK ==
    /\ prev \in [Cells -> Cells \cup {NULL}]
    /\ next \in [Cells -> Cells \cup {NULL}]
    /\ held \subseteq Nodes
    /\ fault \in BOOLEAN
    /\ iter \in Cells \cup {NULL, NoIter}
    /\ yielded \in Seq(Nodes)

\* Spec §8: for every linked node and every sentinel, node.next.prev = node
\* and node.prev.next = node.  Broken by any pointer rewrite of insertAfter
\* or remove that is missing or applied to the wrong cell.
DoublyLinked ==
    \A c \in Linked \cup Lists :
        /\ next[c] # NULL /\ prev[c] # NULL
        /\ prev[next[c]] = c
        /\ next[prev[c]] = c

\* Exclusivity and conservation (spec §3, §5): following next from every
\* sentinel comes back to it, visiting each node at most once; the lists
\* share no node; every node is on exactly one list or held by the caller,
\* and a held node has both pointers nullptr, as remove leaves it.
ListsPartitionNodes ==
    /\ \A l \in Lists : WalkEnd(l) = l /\ Cardinality(Seqs!ToSet(Walk(l))) = Len(Walk(l))
    /\ \A l1, l2 \in Lists : l1 # l2 => Seqs!ToSet(Walk(l1)) \cap Seqs!ToSet(Walk(l2)) = {}
    /\ UNION {Seqs!ToSet(Walk(l)) : l \in Lists} = Linked
    /\ \A n \in held : prev[n] = NULL /\ next[n] = NULL

\* Spec §4.1, §7: the sentinel of a list is never detached; its pointers
\* are never nullptr, so isEmpty() keeps meaning "no node is linked".
SentinelIntact ==
    \A l \in Lists : next[l] # NULL /\ prev[l] # NULL /\ (IsEmpty(l) <=> Walk(l) = <<>>)

\* Spec §7: double-freeing a block is a fatal contract violation that is
\* detected (debug assertions), not one that silently corrupts the list
\* topology.  Until the process crashes every list is intact: doubly
\* linked, circular, and made of exactly the nodes the caller does not own.
NoSilentCorruption ==
    ~fault =>
        /\ DoublyLinked
        /\ \A l \in Lists : WalkEnd(l) = l
        /\ UNION {Seqs!ToSet(Walk(l)) : l \in Lists} = Linked

Abs == INSTANCE AbstractPoolList WITH contents <- [l \in Lists |-> Walk(l)]

AbsSpec == Abs!Spec

=============================================================================
