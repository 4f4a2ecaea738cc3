---------------------------- MODULE MCPoolList ----------------------------
(* PoolList with four nodes and two lists: enough for a node between two *)
(* others, for moves from one list to another, and for a list emptied and *)
(* refilled.                                                               *)
EXTENDS PoolList, TLC

CONSTANTS n1, n2, n3, n4, L1, L2

MCNodes == {n1, n2, n3, n4}
MCLists == {L1, L2}

=============================================================================
