-------------------------- MODULE ResponseService --------------------------
(***************************************************************************)
(* What the TL1 server promises the user of a connection: the commands the *)
(* user completes are answered on the same connection, once each and in    *)
(* the order in which they were completed.  Nothing is said of threads,    *)
(* queues or locks; CommandFlow is shown to implement this module.         *)
(***************************************************************************)
EXTENDS Naturals, Sequences

CONSTANTS Connections,      \* the connections that may be accepted
          MaxCommands       \* bound: commands completed on one connection

VARIABLES submitted,        \* submitted[c]: commands completed on c so far
          answers,          \* answers[c]: the answers written on c, oldest first
          up                \* the process has not died

vars == <<submitted, answers, up>>

Answer(c, i) == [con |-> c, id |-> i]

Init ==
    /\ submitted = [c \in Connections |-> 0]
    /\ answers = [c \in Connections |-> <<>>]
    /\ up = TRUE

\* One key of the user may complete several commands at once.
Submit(c) ==
    /\ up
    /\ \E n \in (submitted[c] + 1)..MaxCommands :
          submitted' = [submitted EXCEPT ![c] = n]
    /\ UNCHANGED <<answers, up>>

Reply(c) ==
    /\ up
    /\ Len(answers[c]) < submitted[c]
    /\ answers' = [answers EXCEPT ![c] = Append(@, Answer(c, Len(@) + 1))]
    /\ UNCHANGED <<submitted, up>>

\* The process dies: no promise survives that.
Die ==
    /\ up
    /\ up' = FALSE
    /\ UNCHANGED <<submitted, answers>>

Next == Die \/ \E c \in Connections : Submit(c) \/ Reply(c)

Spec == Init /\ [][Next]_vars

\* The stronger promise, to users who wait for an answer before they go on.
FairSpec == Spec /\ \A c \in Connections : WF_vars(Reply(c))
=============================================================================
