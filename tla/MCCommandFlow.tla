--------------------------- MODULE MCCommandFlow ---------------------------
(* Instances of CommandFlow for TLC.                                       *)
EXTENDS CommandFlow, TLC

CONSTANTS c1, c2        \* two connections

Interchangeable == Permutations(Connections)

-----------------------------------------------------------------------------
(* A user who never stops: when the last command of c is answered its        *)
(* commands are numbered anew.  Only the difference of the counters and the  *)
(* order of the numbers matter to any step, so this is a user who completes  *)
(* commands without end.                                                     *)
Renumber(c) ==
    /\ ~crashed
    /\ clientPc[c] = "recv"
    /\ issued[c] = MaxCommands /\ Outstanding(c) = 0
    /\ issued' = [issued EXCEPT ![c] = 0]
    /\ answers' = [answers EXCEPT ![c] = <<>>]
    /\ UNCHANGED <<queueVars, lockVars, serverVars, clientVars, rspPc, asked,
                   greeted, crashed>>

BusySpec == Init /\ [][Next \/ Renumber(c2)]_vars /\ Fairness

\* Each command of one user is answered although a second user completes
\* commands for ever: the server, which keeps the command queue locked while it
\* drains it, lets the first user's client thread in between, and the second's
\* cannot keep it out (hello.c:907-962).  The second waits for each answer, as
\* MaxOutstanding says; one who does not stops the server for all
\* (EveryCommandAnswered), as does a crash.
NotStarved ==
    \A i \in 1..MaxCommands :
       issued[c1] >= i ~> (Len(answers[c1]) >= i \/ crashed)
=============================================================================
