-------------------------- MODULE MCConnectionLife --------------------------
(* Instances of ConnectionLife for TLC.                                    *)
EXTENDS ConnectionLife, TLC

CONSTANTS u1, u2, a1, a2        \* two users and two addresses

Descriptors == 1..2

Interchangeable == Permutations(Users) \union Permutations(Addresses)

\* One user may type a second key, as long as nothing has gone wrong and nobody
\* is without a thread: that is what it takes for the threads to wait for each
\* other, and StayersServed says nothing of a state once there is a cause.
Failed(u) == clientPc[u] = "failed" \/ rspPc[u] = "failed"
SecondKeys ==
    \A u \in Users : typed[u] > 1 =>
       /\ causes = {}
       /\ \A v \in Users : ~Failed(v) /\ (v # u => typed[v] <= 1)

\* No more than two things go wrong in one behaviour.
Bounded == SecondKeys /\ Cardinality(causes) <= 2
=============================================================================
