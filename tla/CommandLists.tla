---------------------------- MODULE CommandLists ----------------------------
(***************************************************************************)
(* What the command lists are for: every Command struct is in one place,   *)
(* which is a queue, the pool or a thread's hand, and the queues and the   *)
(* pool give their structs back in the order in which they were put.       *)
(* CommandQueue, with its linked lists and its unlocked test, is shown to  *)
(* implement this module.                                                  *)
(***************************************************************************)
EXTENDS Sequences

CONSTANTS Nodes,        \* the structs malloc may return
          Places        \* the lists: the pool and the queues

VARIABLES list,         \* list[p]: the structs in list p, oldest first
          hands,        \* the structs in the hands of threads
          fresh         \* the structs malloc has not returned yet

vars == <<list, hands, fresh>>

Init ==
    /\ list = [p \in Places |-> <<>>]
    /\ hands = {}
    /\ fresh = Nodes

Malloc(n) ==
    /\ n \in fresh
    /\ fresh' = fresh \ {n}
    /\ hands' = hands \union {n}
    /\ UNCHANGED list

Get(p) ==
    /\ list[p] # <<>>
    /\ hands' = hands \union {Head(list[p])}
    /\ list' = [list EXCEPT ![p] = Tail(@)]
    /\ UNCHANGED fresh

Put(n, p) ==
    /\ n \in hands
    /\ hands' = hands \ {n}
    /\ list' = [list EXCEPT ![p] = Append(@, n)]
    /\ UNCHANGED fresh

Next ==
    \/ \E n \in Nodes : Malloc(n)
    \/ \E p \in Places : Get(p)
    \/ \E n \in Nodes, p \in Places : Put(n, p)

Spec == Init /\ [][Next]_vars
=============================================================================
