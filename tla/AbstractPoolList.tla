-------------------------- MODULE AbstractPoolList --------------------------
(***************************************************************************)
(* What bmalloc's List<T> (bmalloc/List.h) promises, without pointers:     *)
(* every list is a sequence of distinct nodes, every node is on at most    *)
(* one list, and a node on no list is held by the caller.  Each operation  *)
(* of the list is one action on these sequences.                           *)
(***************************************************************************)
EXTENDS Naturals, Sequences, FiniteSets

Seqs == INSTANCE SequencesExt

CONSTANTS
    Nodes,      \* the ListNode<T> objects (free blocks) the callers own
    Lists       \* the List<T> objects

VARIABLES
    contents,   \* contents[l]: the nodes of list l, head first
    held,       \* the nodes that are on no list
    op          \* the last call and its result: <<name, list or anchor, node>>

vars == <<contents, held, op>>

\* The position of node n in list l (0 when absent).
IndexIn(l, n) == IF Seqs!Contains(contents[l], n)
                 THEN CHOOSE i \in 1..Len(contents[l]) : contents[l][i] = n
                 ELSE 0

\* The list holding node n.
ListOf(n) == CHOOSE l \in Lists : Seqs!Contains(contents[l], n)

Init ==
    /\ contents = [l \in Lists |-> <<>>]
    /\ held = Nodes
    /\ op = <<"none">>

\* push: the node becomes the new tail.
Push(l, n) ==
    /\ n \in held
    /\ contents' = [contents EXCEPT ![l] = Append(@, n)]
    /\ held' = held \ {n}
    /\ op' = <<"push", l, n>>

\* pushFront: the node becomes the new head.
PushFront(l, n) ==
    /\ n \in held
    /\ contents' = [contents EXCEPT ![l] = <<n>> \o @]
    /\ held' = held \ {n}
    /\ op' = <<"pushFront", l, n>>

\* pop: the tail leaves the list and goes back to the caller.
Pop(l) ==
    /\ contents[l] # <<>>
    /\ contents' = [contents EXCEPT ![l] = Seqs!Front(@)]
    /\ held' = held \cup {Seqs!Last(contents[l])}
    /\ op' = <<"pop", l, Seqs!Last(contents[l])>>

\* popFront: the head leaves the list and goes back to the caller.
PopFront(l) ==
    /\ contents[l] # <<>>
    /\ contents' = [contents EXCEPT ![l] = Tail(@)]
    /\ held' = held \cup {Head(contents[l])}
    /\ op' = <<"popFront", l, Head(contents[l])>>

\* insertAfter with a linked node as anchor: n follows it in its list.
InsertAfterNode(it, n) ==
    /\ n \in held
    /\ it \notin held
    /\ LET l == ListOf(it) IN
       contents' = [contents EXCEPT ![l] = Seqs!InsertAt(@, IndexIn(l, it) + 1, n)]
    /\ held' = held \ {n}
    /\ op' = <<"insertAfter", it, n>>

\* remove: the node leaves whatever list holds it.
Remove(n) ==
    /\ n \notin held
    /\ LET l == ListOf(n) IN
       contents' = [contents EXCEPT ![l] = Seqs!RemoveAt(@, IndexIn(l, n))]
    /\ held' = held \cup {n}
    /\ op' = <<"remove", n, n>>

Next ==
    \/ \E l \in Lists, n \in Nodes : Push(l, n) \/ PushFront(l, n)
    \/ \E l \in Lists : Pop(l) \/ PopFront(l)
    \/ \E it, n \in Nodes : InsertAfterNode(it, n)
    \/ \E n \in Nodes : Remove(n)

Spec == Init /\ [][Next]_vars

=============================================================================
