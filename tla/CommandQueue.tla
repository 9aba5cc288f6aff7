---------------------------- MODULE CommandQueue ----------------------------
(***************************************************************************)
(* The linked lists of Command structs: getCommandCreate, getCommand and   *)
(* putCommand, node by node, as the threads of the server call them.       *)
(*                                                                         *)
(* A thread has a list it drains (From) and a list it puts what it creates *)
(* on (To); either may be NoList.  A client thread only creates, a         *)
(* response thread only drains, and the server thread does both, with one  *)
(* struct in each hand.  A body that runs under its list's mutex is one    *)
(* step; the test of getCommandCreate is made without the mutex and is a   *)
(* step of its own.                                                        *)
(***************************************************************************)
EXTENDS Naturals, Sequences, FiniteSets

CONSTANTS
    Nodes, Null,        \* the structs malloc may return (a bound); not a node
    Queues, Pool,       \* the queues; command_pool, which is not one of them
    NoList,             \* not a list
    Threads,
    From, To            \* [Threads -> Queues \union {NoList}]

Lists == Queues \union {Pool}

ASSUME QueueAssumption ==
    /\ IsFiniteSet(Nodes)
    /\ Null \notin Nodes /\ Null \notin Threads
    /\ Pool \notin Queues
    /\ NoList \notin Lists
    /\ From \in [Threads -> Queues \union {NoList}]
    /\ To \in [Threads -> Queues \union {NoList}]
    /\ \A t \in Threads : From[t] # NoList \/ To[t] # NoList

VARIABLES
    first, last,        \* first[l], last[l]: the ends of list l
    next,               \* next[n]: the link of struct n
    fresh,              \* the structs malloc has not returned yet
    lock,               \* lock[q]: Null, or the thread that drains q
    pc,                 \* pc[t]: where thread t is
    made, got,          \* what t created, what t took from its list
    crashed             \* the process died of a null dereference

listVars   == <<first, last, next>>
threadVars == <<lock, pc, made, got>>
vars == <<listVars, fresh, threadVars, crashed>>

Init ==
    /\ first = [l \in Lists |-> Null]
    /\ last = [l \in Lists |-> Null]
    /\ next = [n \in Nodes |-> Null]
    /\ fresh = Nodes
    /\ lock = [q \in Queues |-> Null]
    /\ pc = [t \in Threads |-> "idle"]
    /\ made = [t \in Threads |-> Null]
    /\ got = [t \in Threads |-> Null]
    /\ crashed = FALSE

-----------------------------------------------------------------------------
(* The bodies of the three functions.                                      *)

\* The first struct of l, which is not empty, is unlinked.  Its own link stays.
Unlink(l) ==
    /\ first' = [first EXCEPT ![l] = next[first[l]]]
    /\ last' = IF next[first[l]] = Null THEN [last EXCEPT ![l] = Null] ELSE last
    /\ UNCHANGED next

\* Mutants of Link: the link a struct had before is kept; the struct is put
\* first.
LinkStale(n, l) ==
    /\ next' = IF first[l] = Null THEN next ELSE [next EXCEPT ![last[l]] = n]
    /\ first' = IF first[l] = Null THEN [first EXCEPT ![l] = n] ELSE first
    /\ last' = [last EXCEPT ![l] = n]

LinkFirst(n, l) ==
    /\ next' = [next EXCEPT ![n] = first[l]]
    /\ first' = [first EXCEPT ![l] = n]
    /\ last' = IF first[l] = Null THEN [last EXCEPT ![l] = n] ELSE last

\* putCommand: n becomes the last struct of l.
Link(n, l) ==
    /\ next' = IF first[l] = Null THEN [next EXCEPT ![n] = Null]
               ELSE [next EXCEPT ![n] = Null, ![last[l]] = n]
    /\ first' = IF first[l] = Null THEN [first EXCEPT ![l] = n] ELSE first
    /\ last' = [last EXCEPT ![l] = n]

-----------------------------------------------------------------------------
(* A thread creates a struct and puts it on its To list.                   *)

\* Only a thread that drains nothing creates of its own accord.
Begin(t) ==
    /\ pc[t] = "idle" /\ From[t] = NoList
    /\ pc' = [pc EXCEPT ![t] = "create"]
    /\ UNCHANGED <<listVars, fresh, lock, made, got, crashed>>

\* The pool looks empty.  What malloc returns is not initialised: its link may
\* be anything.
Malloc(t) ==
    /\ pc[t] = "create"
    /\ first[Pool] = Null
    /\ \E n \in fresh, link \in Nodes \union {Null} :
          /\ made' = [made EXCEPT ![t] = n]
          /\ next' = [next EXCEPT ![n] = link]
          /\ fresh' = fresh \ {n}
    /\ pc' = [pc EXCEPT ![t] = "put"]
    /\ UNCHANGED <<first, last, lock, got, crashed>>

SeePool(t) ==
    /\ pc[t] = "create"
    /\ first[Pool] # Null
    /\ pc' = [pc EXCEPT ![t] = "take"]
    /\ UNCHANGED <<listVars, fresh, lock, made, got, crashed>>

\* Mutant of Take: the struct is taken without the mutex, and another thread
\* unlinks the pool's first struct after this one has read it.
TakeUnlocked(t) ==
    /\ pc[t] = "take"
    /\ first[Pool] # Null
    /\ made' = [made EXCEPT ![t] = first[Pool]]
    /\ pc' = [pc EXCEPT ![t] = "put"]
    /\ UNCHANGED <<listVars, fresh, lock, got, crashed>>

Take(t) ==
    /\ pc[t] = "take"
    /\ first[Pool] # Null
    /\ made' = [made EXCEPT ![t] = first[Pool]]
    /\ Unlink(Pool)
    /\ pc' = [pc EXCEPT ![t] = "put"]
    /\ UNCHANGED <<fresh, lock, got, crashed>>

\* Another thread has emptied the pool: queue->first->next has no first.
TakeNull(t) ==
    /\ pc[t] = "take"
    /\ first[Pool] = Null
    /\ crashed' = TRUE
    /\ UNCHANGED <<listVars, fresh, threadVars>>

Put(t) ==
    /\ pc[t] = "put"
    /\ lock[To[t]] = Null
    /\ Link(made[t], To[t])
    /\ made' = [made EXCEPT ![t] = Null]
    /\ pc' = [pc EXCEPT ![t] = IF got[t] = Null THEN "idle" ELSE "recycle"]
    /\ UNCHANGED <<fresh, lock, got, crashed>>

-----------------------------------------------------------------------------
(* A thread drains its From list under the list's mutex.                   *)
Lock(t) ==
    /\ pc[t] = "idle" /\ From[t] # NoList
    /\ lock[From[t]] = Null
    /\ lock' = [lock EXCEPT ![From[t]] = t]
    /\ pc' = [pc EXCEPT ![t] = "drain"]
    /\ UNCHANGED <<listVars, fresh, made, got, crashed>>

Get(t) ==
    /\ pc[t] = "drain"
    /\ first[From[t]] # Null
    /\ got' = [got EXCEPT ![t] = first[From[t]]]
    /\ Unlink(From[t])
    /\ pc' = [pc EXCEPT ![t] = IF To[t] = NoList THEN "recycle" ELSE "create"]
    /\ UNCHANGED <<fresh, lock, made, crashed>>

\* Mutant of Unlock: the mutex is kept.
UnlockForgotten(t) ==
    /\ pc[t] = "drain"
    /\ first[From[t]] = Null
    /\ pc' = [pc EXCEPT ![t] = "idle"]
    /\ UNCHANGED <<listVars, fresh, lock, made, got, crashed>>

Unlock(t) ==
    /\ pc[t] = "drain"
    /\ first[From[t]] = Null
    /\ lock' = [lock EXCEPT ![From[t]] = Null]
    /\ pc' = [pc EXCEPT ![t] = "idle"]
    /\ UNCHANGED <<listVars, fresh, made, got, crashed>>

Recycle(t) ==
    /\ pc[t] = "recycle"
    /\ Link(got[t], Pool)
    /\ got' = [got EXCEPT ![t] = Null]
    /\ pc' = [pc EXCEPT ![t] = "drain"]
    /\ UNCHANGED <<fresh, lock, made, crashed>>

-----------------------------------------------------------------------------
Step(t) == \/ Begin(t) \/ Malloc(t) \/ SeePool(t) \/ Take(t) \/ TakeNull(t)
           \/ Put(t) \/ Lock(t) \/ Get(t) \/ Unlock(t) \/ Recycle(t)

Next == ~crashed /\ \E t \in Threads : Step(t)

Spec == Init /\ [][Next]_vars

-----------------------------------------------------------------------------
(* Correctness.                                                            *)

\* Every variable has its type; a thread has in its hands, and keeps locked, what
\* its place in the code says.
TypeOK ==
    /\ first \in [Lists -> Nodes \union {Null}]
    /\ last \in [Lists -> Nodes \union {Null}]
    /\ next \in [Nodes -> Nodes \union {Null}]
    /\ fresh \subseteq Nodes
    /\ lock \in [Queues -> Threads \union {Null}]
    /\ pc \in [Threads -> {"idle", "create", "take", "put", "drain", "recycle"}]
    /\ made \in [Threads -> Nodes \union {Null}]
    /\ got \in [Threads -> Nodes \union {Null}]
    /\ crashed \in BOOLEAN
    /\ \A t \in Threads :
          /\ made[t] # Null <=> pc[t] = "put"
          /\ From[t] # NoList => (lock[From[t]] = t <=> pc[t] # "idle")

\* The structs reached from first[l], in order; a list with a loop in it is
\* given up after as many steps as there are structs, and one more.
Chain(l) ==
    LET walk[k \in 0..Cardinality(Nodes)] ==
           IF k = 0 THEN IF first[l] = Null THEN <<>> ELSE <<first[l]>>
           ELSE LET before == walk[k - 1] IN
                IF Len(before) < k \/ next[before[k]] = Null THEN before
                ELSE Append(before, next[before[k]])
    IN  walk[Cardinality(Nodes)]

\* A list ends, and where last says; the next putCommand links to a struct that
\* is in the list, whatever links the structs had in other lists
\* (CommandQueue.c:42-45, 63-67, 80-87).
ListsEnd ==
    \A l \in Lists :
       /\ first[l] = Null <=> last[l] = Null
       /\ first[l] # Null => LET chain == Chain(l) IN
             /\ Len(chain) <= Cardinality(Nodes)
             /\ last[l] = chain[Len(chain)]

\* No struct is in two places: not in two lists, not in two hands, not in a hand
\* and a list, so no thread fills a Command that another one reads
\* (CommandQueue.c:31-94).
Hand(h) == IF h[1] = "made" THEN made[h[2]] ELSE got[h[2]]
HandNames == {"made", "got"} \X Threads
Members(l) == {Chain(l)[k] : k \in DOMAIN Chain(l)}

OnePlaceEach ==
    /\ \A l, m \in Lists : l # m => Members(l) \intersect Members(m) = {}
    /\ \A h \in HandNames : Hand(h) # Null =>
          /\ \A l \in Lists : Hand(h) \notin Members(l)
          /\ \A g \in HandNames : g # h => Hand(g) # Hand(h)

\* The linked lists are sequences: they implement CommandLists.
Sequential == INSTANCE CommandLists WITH
    Places <- Lists,
    list <- [l \in Lists |-> Chain(l)],
    hands <- {Hand(h) : h \in HandNames} \ {Null}
ListsSpec == Sequential!Spec
=============================================================================
