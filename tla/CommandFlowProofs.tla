------------------------- MODULE CommandFlowProofs -------------------------
(***************************************************************************)
(* Proofs about CommandFlow for any set of connections and any bounds:     *)
(* its types, locks, wake-ups and greetings, that it does not deadlock,    *)
(* and that it implements ResponseService: whatever the threads do, the    *)
(* answers on a connection are those of its commands, in order and once.   *)
(* The second half is about the Command structs: none is lost and none is  *)
(* in two places, and malloc is asked for no more than can be in use at    *)
(* once.                                                                   *)
(***************************************************************************)
EXTENDS CommandFlow, FiniteSetTheorems, SequenceTheorems, TLAPS

-----------------------------------------------------------------------------
(* Types.                                                                  *)

\* Facts about the data that every step below rests on.
LEMMA DataTypes ==
    /\ NoCommand \notin Commands
    /\ Greeting \in Messages
    /\ Ask \in Messages
    /\ \A command \in Commands : Response(command) \in Messages
    /\ \A m \in Messages : m.kind = "response" => m.to \in Commands
BY FlowAssumption DEF NoCommand, Commands, Greeting, Ask, Messages, Response

\* A queue keeps its type when it is appended to and when its head is taken.
LEMMA QueueTypes ==
    ASSUME NEW T, NEW q \in Seq(T)
    PROVE  /\ \A e \in T : Append(q, e) \in Seq(T)
           /\ q # <<>> => Head(q) \in T /\ Tail(q) \in Seq(T)
OBVIOUS

\* A command at hand is a real one between ServerGet and ServerRecycle.
CmdInv == serverPc \in {"create", "take", "put", "recycle"} <=> cmd # NoCommand

\* What a client's place says of the key and of the node it is busy with.
PlaceInv ==
    \A c \in Connections :
       /\ todo[c] <= issued[c]
       /\ clientPc[c] \in {"create", "take", "put"} /\ purpose[c] = "command"
             => todo[c] > 0
       /\ clientPc[c] = "none" => rspPc[c] = "none" /\ purpose[c] = "greeting"
       /\ clientPc[c] \in {"lockLine", "redraw"} => purpose[c] = "command"

TypeInv == TypeOK /\ CmdInv /\ PlaceInv

LEMMA TypeInit == Init => TypeInv
<1> SUFFICES ASSUME Init PROVE TypeInv
    OBVIOUS
<1>1. /\ commandQueue \in Seq(Commands)
      /\ responseQueue \in [Connections -> Seq(Messages)]
      /\ answers \in [Connections -> Seq(Commands)]
    BY DEF Init
<1>2. TypeOK
    BY <1>1 DEF Init, TypeOK
<1>3. CmdInv /\ PlaceInv
    BY DEF Init, CmdInv, PlaceInv
<1> QED
    BY <1>2, <1>3 DEF TypeInv

LEMMA TypeServer == TypeInv /\ Server => TypeInv'
<1> USE DEF TypeInv, TypeOK, CmdInv, PlaceInv, queueVars, lockVars, serverVars,
            clientVars, userVars
<1> SUFFICES ASSUME TypeInv, Server PROVE TypeInv'
    OBVIOUS
<1>1. CASE ServerLock
    BY <1>1 DEF ServerLock
<1>2. CASE ServerRelock
    BY <1>2 DEF ServerRelock
<1>3. CASE ServerGet
    BY <1>3, DataTypes, QueueTypes DEF ServerGet
<1>4. CASE ServerUnlock
    BY <1>4 DEF ServerUnlock
<1>5. CASE ServerMalloc
    BY <1>5 DEF ServerMalloc
<1>6. CASE ServerSeePool
    BY <1>6 DEF ServerSeePool
<1>7. CASE ServerTake
    BY <1>7 DEF ServerTake
<1>8. CASE ServerTakeNull
    BY <1>8 DEF ServerTakeNull
<1>9. CASE ServerPutResponse
    <2>1. cmd.con \in Connections /\ Response(cmd) \in Messages
        BY <1>9, DataTypes DEF ServerPutResponse, Commands
    <2>2. responseQueue' \in [Connections -> Seq(Messages)]
        BY <1>9, <2>1, QueueTypes DEF ServerPutResponse, PutResponse
    <2> QED
        BY <1>9, <2>1, <2>2 DEF ServerPutResponse, PutResponse, Signal
<1>10. CASE ServerRecycle
    BY <1>10 DEF ServerRecycle, Recycle
<1> QED
    BY <1>1, <1>2, <1>3, <1>4, <1>5, <1>6, <1>7, <1>8, <1>9, <1>10 DEF Server

LEMMA TypeClient == \A c \in Connections : TypeInv /\ Client(c) => TypeInv'
<1> USE DEF TypeInv, TypeOK, CmdInv, PlaceInv, queueVars, lockVars, serverVars,
            clientVars, userVars
<1> SUFFICES ASSUME NEW c \in Connections, TypeInv, Client(c) PROVE TypeInv'
    OBVIOUS
<1>1. CASE ClientLockLine(c)
    BY <1>1 DEF ClientLockLine, AfterScan
<1>2. CASE ClientUnlockLine(c)
    BY <1>2 DEF ClientUnlockLine
<1>3. CASE ClientMalloc(c)
    BY <1>3 DEF ClientMalloc
<1>4. CASE ClientSeePool(c)
    BY <1>4 DEF ClientSeePool
<1>5. CASE ClientTake(c)
    BY <1>5 DEF ClientTake
<1>6. CASE ClientTakeNull(c)
    BY <1>6 DEF ClientTakeNull
<1>7. CASE ClientPutGreeting(c)
    BY <1>7, DataTypes DEF ClientPutGreeting, PutResponse, Signal
<1>8. CASE ClientPutAsk(c)
    BY <1>8, DataTypes DEF ClientPutAsk, PutResponse, Signal
<1>9. CASE ClientPutCommand(c)
    <2> DEFINE command == [con |-> c, id |-> issued[c] - todo[c] + 1]
    <2>1. todo[c] > 0 /\ todo[c] <= issued[c]
        BY <1>9 DEF ClientPutCommand
    <2>2. command \in Commands
        BY <2>1 DEF Commands
    <2>3. commandQueue' \in Seq(Commands)
        BY <1>9, <2>2, QueueTypes DEF ClientPutCommand, PutCommand
    <2>4. /\ serverPc' = Signal(serverPc)
          /\ todo' = [todo EXCEPT ![c] = todo[c] - 1]
          /\ clientPc' = [clientPc EXCEPT ![c] = AfterScan(todo[c] - 1)]
          /\ UNCHANGED <<allocated, pooled, responseQueue, cqLock, rspLock,
                         lineLock, cmd, purpose, rspPc, issued, asked, greeted,
                         answers, crashed>>
        BY <1>9 DEF ClientPutCommand, PutCommand
    <2>5. /\ todo' \in [Connections -> Nat]
          /\ todo'[c] <= issued[c]
          /\ AfterScan(todo[c] - 1) \in {"create", "redraw"}
          /\ AfterScan(todo[c] - 1) = "create" => todo'[c] > 0
        BY <2>1, <2>4 DEF AfterScan
    <2> HIDE DEF CmdInv, PlaceInv, command
    <2>6. TypeOK'
        BY <2>3, <2>4, <2>5 DEF Signal
    <2>7. CmdInv'
        BY <2>4 DEF CmdInv, Signal
    <2>8. PlaceInv'
        <3>1. purpose[c] = "command" /\ clientPc[c] # "none"
            BY <1>9 DEF ClientPutCommand
        <3>2. ASSUME NEW d \in Connections, d # c
              PROVE  todo'[d] = todo[d] /\ clientPc'[d] = clientPc[d]
            BY <2>4, <3>2
        <3>3. todo'[c] <= issued'[c] /\ clientPc'[c] = AfterScan(todo[c] - 1)
            BY <2>4, <2>5
        <3> QED
            BY <2>4, <2>5, <3>1, <3>2, <3>3 DEF PlaceInv
    <2> QED
        BY <2>6, <2>7, <2>8
<1> QED
    BY <1>1, <1>2, <1>3, <1>4, <1>5, <1>6, <1>7, <1>8, <1>9 DEF Client

LEMMA TypeRsp == \A c \in Connections : TypeInv /\ Rsp(c) => TypeInv'
<1> USE DEF TypeInv, TypeOK, CmdInv, PlaceInv, queueVars, lockVars, serverVars,
            clientVars, userVars
<1> SUFFICES ASSUME NEW c \in Connections, TypeInv, Rsp(c) PROVE TypeInv'
    OBVIOUS
<1>1. CASE RspLock(c)
    <2>1. /\ rspPc[c] = "lock"
          /\ \/ rspPc' = [rspPc EXCEPT ![c] = "waiting"] /\ rspLock' = rspLock
             \/ /\ rspPc' = [rspPc EXCEPT ![c] = "lockLine"]
                /\ rspLock' = [rspLock EXCEPT ![c] = "rsp"]
          /\ UNCHANGED <<allocated, pooled, commandQueue, responseQueue, cqLock,
                         lineLock, serverPc, cmd, clientPc, purpose, todo, issued,
                         asked, greeted, answers, crashed>>
        BY <1>1 DEF RspLock
    <2> HIDE DEF CmdInv, PlaceInv
    <2>2. TypeOK'
        BY <2>1
    <2>3. CmdInv' /\ PlaceInv'
        BY <2>1 DEF CmdInv, PlaceInv
    <2> QED
        BY <2>2, <2>3
<1>2. CASE RspRelock(c)
    BY <1>2 DEF RspRelock
<1>3. CASE RspLockLine(c)
    BY <1>3 DEF RspLockLine
<1>4. CASE RspWrite(c)
    BY <1>4, DataTypes, QueueTypes DEF RspWrite, IsResponse
<1>5. CASE RspRecycle(c)
    BY <1>5 DEF RspRecycle, Recycle
<1>6. CASE RspUnlock(c)
    BY <1>6 DEF RspUnlock
<1> QED
    BY <1>1, <1>2, <1>3, <1>4, <1>5, <1>6 DEF Rsp

LEMMA TypeEnvironment == TypeInv /\ Environment => TypeInv'
<1> USE DEF TypeInv, TypeOK, CmdInv, PlaceInv, queueVars, lockVars, serverVars,
            clientVars, userVars
<1> SUFFICES ASSUME TypeInv, Environment PROVE TypeInv'
    OBVIOUS
<1>1. CASE ServerSpuriousWake
    BY <1>1 DEF ServerSpuriousWake
<1>2. ASSUME NEW c \in Connections, Accept(c) PROVE TypeInv'
    BY <1>2 DEF Accept
<1>3. ASSUME NEW c \in Connections, ClientKey(c) PROVE TypeInv'
    <2>1. PICK k \in 0..MaxOutstanding :
             /\ todo' = [todo EXCEPT ![c] = k]
             /\ issued' = [issued EXCEPT ![c] = @ + k]
        BY <1>3 DEF ClientKey
    <2>2. k \in Nat
        BY FlowAssumption
    <2>3. todo' \in [Connections -> Nat] /\ issued' \in [Connections -> Nat]
        BY <2>1, <2>2
    <2>4. TypeOK'
        BY <1>3, <2>3 DEF ClientKey
    <2>5. CmdInv' /\ PlaceInv'
        BY <1>3, <2>1, <2>2 DEF ClientKey
    <2> QED
        BY <2>4, <2>5
<1>4. ASSUME NEW c \in Connections, ClientAsk(c) PROVE TypeInv'
    BY <1>4 DEF ClientAsk
<1>5. ASSUME NEW c \in Connections, RspSpuriousWake(c) PROVE TypeInv'
    BY <1>5 DEF RspSpuriousWake
<1> QED
    BY <1>1, <1>2, <1>3, <1>4, <1>5 DEF Environment

LEMMA TypeNext == TypeInv /\ [Next]_vars => TypeInv'
<1> SUFFICES ASSUME TypeInv, [Next]_vars PROVE TypeInv'
    OBVIOUS
<1>1. CASE Next
    BY <1>1, TypeServer, TypeClient, TypeRsp, TypeEnvironment DEF Next
<1>2. CASE UNCHANGED vars
    BY <1>2 DEF vars, queueVars, lockVars, serverVars, clientVars, userVars,
                TypeInv, TypeOK, CmdInv, PlaceInv
<1> QED
    BY <1>1, <1>2

\* Type correctness, for any number of connections, commands and requests.
THEOREM TypeCorrect == Spec => []TypeOK
<1>1. TypeInv => TypeOK
    BY DEF TypeInv
<1> QED
    BY <1>1, TypeInit, TypeNext, PTL DEF Spec

-----------------------------------------------------------------------------
(* Locks and conditions.                                                   *)

LockInv == LockDiscipline /\ NoLostWakeup

LEMMA LockInit == Init => LockInv
BY DEF Init, LockInv, LockDiscipline, NoLostWakeup, ClientHoldsLine,
       RspHoldsQueue, RspHoldsLine, ServerHoldsQueue

LEMMA LockInvServer ==
    ASSUME TypeInv, LockInv, Server PROVE LockInv'
<1> USE DEF LockInv, LockDiscipline, NoLostWakeup, TypeInv, TypeOK,
            ClientHoldsLine, RspHoldsQueue, RspHoldsLine, ServerHoldsQueue,
            queueVars, lockVars, serverVars,
            clientVars, userVars
<1>1. CASE ServerLock
    BY <1>1 DEF ServerLock
<1>2. CASE ServerRelock
    BY <1>2 DEF ServerRelock
<1>3. CASE ServerGet
    BY <1>3 DEF ServerGet
<1>4. CASE ServerUnlock
    BY <1>4 DEF ServerUnlock
<1>5. CASE ServerMalloc
    BY <1>5 DEF ServerMalloc
<1>6. CASE ServerSeePool
    BY <1>6 DEF ServerSeePool
<1>7. CASE ServerTake
    BY <1>7 DEF ServerTake
<1>8. CASE ServerTakeNull
    BY <1>8 DEF ServerTakeNull
<1>9. CASE ServerPutResponse
    BY <1>9 DEF ServerPutResponse, PutResponse, Signal
<1>10. CASE ServerRecycle
    BY <1>10 DEF ServerRecycle, Recycle
<1> QED
    BY <1>1, <1>2, <1>3, <1>4, <1>5, <1>6, <1>7, <1>8, <1>9, <1>10 DEF Server

LEMMA LockInvClient ==
    ASSUME TypeInv, LockInv, NEW c \in Connections, Client(c) PROVE LockInv'
<1> USE DEF LockInv, LockDiscipline, NoLostWakeup, TypeInv, TypeOK,
            ClientHoldsLine, RspHoldsQueue, RspHoldsLine, ServerHoldsQueue,
            queueVars, lockVars, serverVars,
            clientVars, userVars
<1>1. CASE ClientLockLine(c)
    BY <1>1 DEF ClientLockLine, AfterScan, PlaceInv
<1>2. CASE ClientUnlockLine(c)
    BY <1>2 DEF ClientUnlockLine
<1>3. CASE ClientMalloc(c)
    BY <1>3 DEF ClientMalloc
<1>4. CASE ClientSeePool(c)
    BY <1>4 DEF ClientSeePool
<1>5. CASE ClientTake(c)
    BY <1>5 DEF ClientTake
<1>6. CASE ClientTakeNull(c)
    BY <1>6 DEF ClientTakeNull
<1>7. CASE ClientPutGreeting(c)
    BY <1>7 DEF ClientPutGreeting, PutResponse, Signal
<1>8. CASE ClientPutAsk(c)
    BY <1>8 DEF ClientPutAsk, PutResponse, Signal
<1>9. CASE ClientPutCommand(c)
    BY <1>9 DEF ClientPutCommand, PutCommand, Signal, AfterScan
<1> QED
    BY <1>1, <1>2, <1>3, <1>4, <1>5, <1>6, <1>7, <1>8, <1>9 DEF Client

LEMMA LockInvRsp ==
    ASSUME TypeInv, LockInv, NEW c \in Connections, Rsp(c) PROVE LockInv'
<1> USE DEF LockInv, LockDiscipline, NoLostWakeup, TypeInv, TypeOK,
            ClientHoldsLine, RspHoldsQueue, RspHoldsLine, ServerHoldsQueue,
            queueVars, lockVars, serverVars,
            clientVars, userVars
<1>1. CASE RspLock(c)
    <2>1. CASE responseQueue[c] = <<>>
        BY <1>1, <2>1 DEF RspLock
    <2>2. CASE responseQueue[c] # <<>>
        BY <1>1, <2>2 DEF RspLock
    <2> QED
        BY <2>1, <2>2
<1>2. CASE RspRelock(c)
    BY <1>2 DEF RspRelock
<1>3. CASE RspLockLine(c)
    BY <1>3 DEF RspLockLine
<1>4. CASE RspWrite(c)
    BY <1>4 DEF RspWrite
<1>5. CASE RspRecycle(c)
    BY <1>5 DEF RspRecycle, Recycle
<1>6. CASE RspUnlock(c)
    BY <1>6 DEF RspUnlock
<1> QED
    BY <1>1, <1>2, <1>3, <1>4, <1>5, <1>6 DEF Rsp

LEMMA LockInvEnvironment ==
    ASSUME TypeInv, LockInv, Environment PROVE LockInv'
<1> USE DEF LockInv, LockDiscipline, NoLostWakeup, TypeInv, TypeOK,
            ClientHoldsLine, RspHoldsQueue, RspHoldsLine, ServerHoldsQueue,
            queueVars, lockVars, serverVars,
            clientVars, userVars
<1>1. CASE ServerSpuriousWake
    BY <1>1 DEF ServerSpuriousWake
<1>2. ASSUME NEW c \in Connections, Accept(c) PROVE LockInv'
    BY <1>2 DEF Accept, PlaceInv
<1>3. ASSUME NEW c \in Connections, ClientKey(c) PROVE LockInv'
    BY <1>3 DEF ClientKey
<1>4. ASSUME NEW c \in Connections, ClientAsk(c) PROVE LockInv'
    BY <1>4 DEF ClientAsk
<1>5. ASSUME NEW c \in Connections, RspSpuriousWake(c) PROVE LockInv'
    BY <1>5 DEF RspSpuriousWake
<1> QED
    BY <1>1, <1>2, <1>3, <1>4, <1>5 DEF Environment

LEMMA LockNext == TypeInv /\ LockInv /\ [Next]_vars => LockInv'
<1> SUFFICES ASSUME TypeInv, LockInv, [Next]_vars PROVE LockInv'
    OBVIOUS
<1>1. CASE Next
    BY <1>1, LockInvServer, LockInvClient, LockInvRsp, LockInvEnvironment
    DEF Next
<1>2. CASE UNCHANGED vars
    BY <1>2 DEF vars, queueVars, lockVars, serverVars, clientVars, userVars,
                LockInv, LockDiscipline, NoLostWakeup, ClientHoldsLine,
                RspHoldsQueue, RspHoldsLine, ServerHoldsQueue
<1> QED
    BY <1>1, <1>2

\* A lock is held exactly by the thread whose place in the code says so.
THEOREM LocksHeld == Spec => []LockDiscipline
<1>1. LockInv => LockDiscipline
    BY DEF LockInv
<1> QED
    BY <1>1, TypeInit, TypeNext, LockInit, LockNext, PTL DEF Spec

\* No thread sleeps on its condition while its queue has elements.
THEOREM WakeupsKept == Spec => []NoLostWakeup
<1>1. LockInv => NoLostWakeup
    BY DEF LockInv
<1> QED
    BY <1>1, TypeInit, TypeNext, LockInit, LockNext, PTL DEF Spec

-----------------------------------------------------------------------------
(* The greeting comes first.                                               *)

\* What putCommand and getCommand do to the elements of a queue.
LEMMA Appended ==
    ASSUME NEW T, NEW q \in Seq(T), NEW e \in T
    PROVE  /\ Append(q, e) # <<>>
           /\ q # <<>> => Head(Append(q, e)) = Head(q)
           /\ \A i \in DOMAIN Append(q, e) :
                 \/ i \in DOMAIN q /\ Append(q, e)[i] = q[i]
                 \/ i = Len(q) + 1 /\ Append(q, e)[i] = e
<1>1. Append(q, e) # <<>>
    BY AppendProperties
<1>2. Head(Append(q, e)) = IF q = <<>> THEN e ELSE Head(q)
    BY HeadTailAppend, Zenon
<1> QED
    BY <1>1, <1>2

LEMMA Removed ==
    ASSUME NEW T, NEW q \in Seq(T), q # <<>>
    PROVE  /\ 1 \in DOMAIN q /\ Head(q) = q[1]
           /\ \A i \in DOMAIN Tail(q) :
                 i \in Nat /\ i + 1 \in DOMAIN q \ {1} /\ Tail(q)[i] = q[i + 1]
OBVIOUS

LEMMA ResponsePut ==
    ASSUME TypeOK, NEW c \in Connections, NEW m \in Messages, PutResponse(c, m)
    PROVE  /\ responseQueue'[c] # <<>>
           /\ responseQueue[c] # <<>> =>
                 Head(responseQueue'[c]) = Head(responseQueue[c])
           /\ \A i \in DOMAIN responseQueue'[c] :
                 \/ /\ i \in DOMAIN responseQueue[c]
                    /\ responseQueue'[c][i] = responseQueue[c][i]
                 \/ i = Len(responseQueue[c]) + 1 /\ responseQueue'[c][i] = m
           /\ \A d \in Connections \ {c} : responseQueue'[d] = responseQueue[d]
<1>1. responseQueue[c] \in Seq(Messages)
    BY DEF TypeOK
<1>2. responseQueue'[c] = Append(responseQueue[c], m)
    BY DEF TypeOK, PutResponse
<1>3. \A d \in Connections \ {c} : responseQueue'[d] = responseQueue[d]
    BY DEF TypeOK, PutResponse
<1> QED
    BY <1>1, <1>2, <1>3, Appended

\* Until the greeting is queued nothing of c is anywhere; until it is written it
\* is the next thing to be written on c.
Starting(c) ==
    \/ clientPc[c] = "none"
    \/ clientPc[c] \in {"create", "take", "put"} /\ purpose[c] = "greeting"

GreetingNext(c) ==
    /\ Starting(c) =>
          /\ ~Queued(c) /\ ~Served(c)
          /\ responseQueue[c] = <<>> /\ answers[c] = <<>>
    /\ ~Starting(c) /\ ~greeted[c] =>
          /\ responseQueue[c] # <<>> /\ Head(responseQueue[c]) = Greeting
          /\ answers[c] = <<>>

GreetInv == \A c \in Connections : GreetingNext(c)

LEMMA GreetInit == Init => GreetInv
BY DEF Init, GreetInv, GreetingNext, Starting, Queued, Served

LEMMA GreetInvServer ==
    ASSUME TypeInv, GreetInv, Server PROVE GreetInv'
<1> USE DEF TypeInv, GreetInv, GreetingNext, Starting, Queued, Served, TypeOK,
            queueVars, lockVars, serverVars, clientVars, userVars
<1>1. CASE ServerLock
    BY <1>1 DEF ServerLock
<1>2. CASE ServerRelock
    BY <1>2 DEF ServerRelock
<1>3. CASE ServerGet
    BY <1>3 DEF ServerGet
<1>4. CASE ServerUnlock
    BY <1>4 DEF ServerUnlock
<1>5. CASE ServerMalloc
    BY <1>5 DEF ServerMalloc
<1>6. CASE ServerSeePool
    BY <1>6 DEF ServerSeePool
<1>7. CASE ServerTake
    BY <1>7 DEF ServerTake
<1>8. CASE ServerTakeNull
    BY <1>8 DEF ServerTakeNull
<1>9. CASE ServerPutResponse
    <2> DEFINE d == cmd.con
    <2>1. d \in Connections /\ Response(cmd) \in Messages /\ Served(d)
        BY <1>9, DataTypes DEF ServerPutResponse, Commands, CmdInv
    <2>3. /\ ~Starting(d) /\ responseQueue'[d] # <<>>
          /\ responseQueue[d] # <<>> =>
                Head(responseQueue'[d]) = Head(responseQueue[d])
          /\ \A c \in Connections \ {d} : responseQueue'[c] = responseQueue[c]
        BY <1>9, <2>1, ResponsePut DEF ServerPutResponse
    <2>4. cmd' = cmd
        BY <1>9 DEF ServerPutResponse
    <2>5. \A c \in Connections : ~Served(c)' /\ (Queued(c)' <=> Queued(c))
        BY <1>9 DEF ServerPutResponse
    <2>6. \A c \in Connections : Starting(c)' <=> Starting(c)
        BY <1>9 DEF ServerPutResponse
    <2>7. greeted' = greeted /\ answers' = answers
        BY <1>9 DEF ServerPutResponse
    <2> HIDE DEF d, Starting, Queued, Served
    <2> QED
        BY <2>3, <2>4, <2>5, <2>6, <2>7
<1>10. CASE ServerRecycle
    BY <1>10 DEF ServerRecycle, Recycle
<1> QED
    BY <1>1, <1>2, <1>3, <1>4, <1>5, <1>6, <1>7, <1>8, <1>9, <1>10 DEF Server

LEMMA GreetInvClient ==
    ASSUME TypeInv, GreetInv, NEW c \in Connections, Client(c) PROVE GreetInv'
<1> USE DEF TypeInv, GreetInv, GreetingNext, Starting, Queued, Served, TypeOK,
            queueVars, lockVars, serverVars, clientVars, userVars
<1>1. CASE ClientLockLine(c)
    BY <1>1 DEF ClientLockLine, AfterScan, PlaceInv
<1>2. CASE ClientUnlockLine(c)
    BY <1>2 DEF ClientUnlockLine
<1>3. CASE ClientMalloc(c)
    BY <1>3 DEF ClientMalloc
<1>4. CASE ClientSeePool(c)
    BY <1>4 DEF ClientSeePool
<1>5. CASE ClientTake(c)
    BY <1>5 DEF ClientTake
<1>6. CASE ClientTakeNull(c)
    BY <1>6 DEF ClientTakeNull
<1>7. CASE ClientPutGreeting(c)
    BY <1>7 DEF ClientPutGreeting, PutResponse, Signal
<1>8. CASE ClientPutAsk(c)
    <2>1. /\ responseQueue'[c] # <<>>
          /\ responseQueue[c] # <<>> =>
                Head(responseQueue'[c]) = Head(responseQueue[c])
          /\ \A d \in Connections \ {c} : responseQueue'[d] = responseQueue[d]
        BY <1>8, DataTypes, ResponsePut DEF ClientPutAsk
    <2>2. \A d \in Connections : Starting(d)' <=> Starting(d)
        BY <1>8 DEF ClientPutAsk
    <2>3. ~Starting(c)
        BY <1>8 DEF ClientPutAsk
    <2>4. UNCHANGED <<commandQueue, serverPc, cmd, greeted, answers>>
        BY <1>8 DEF ClientPutAsk
    <2> HIDE DEF Starting
    <2> QED
        BY <2>1, <2>2, <2>3, <2>4
<1>9. CASE ClientPutCommand(c)
    <2> DEFINE command == [con |-> c, id |-> issued[c] - todo[c] + 1]
    <2>1. command \in Commands
        BY <1>9 DEF ClientPutCommand, PlaceInv, Commands
    <2>2. commandQueue' = Append(commandQueue, command)
        BY <1>9 DEF ClientPutCommand, PutCommand
    <2>3. \A d \in Connections : Queued(d)' => Queued(d) \/ d = c
        BY <2>1, <2>2, Appended, SMTT(30)
    <2>4. \A d \in Connections : Served(d)' => Served(d)
        BY <1>9 DEF ClientPutCommand, PutCommand, Signal
    <2>5. \A d \in Connections : Starting(d)' <=> Starting(d) /\ d # c
        BY <1>9 DEF ClientPutCommand, AfterScan
    <2>6. ~Starting(c)
        BY <1>9 DEF ClientPutCommand
    <2>7. UNCHANGED <<responseQueue, greeted, answers>>
        BY <1>9 DEF ClientPutCommand
    <2> HIDE DEF Starting, Queued, Served
    <2>8. ASSUME NEW d \in Connections PROVE GreetingNext(d)'
        <3>1. GreetingNext(d)
            OBVIOUS
        <3> QED
            BY <2>3, <2>4, <2>5, <2>6, <2>7, <3>1
    <2> QED
        BY <2>8
<1> QED
    BY <1>1, <1>2, <1>3, <1>4, <1>5, <1>6, <1>7, <1>8, <1>9 DEF Client

LEMMA GreetInvRsp ==
    ASSUME TypeInv, GreetInv, NEW c \in Connections, Rsp(c) PROVE GreetInv'
<1> USE DEF TypeInv, GreetInv, GreetingNext, Starting, Queued, Served, TypeOK,
            queueVars, lockVars, serverVars, clientVars, userVars
<1>1. CASE RspLock(c)
    BY <1>1 DEF RspLock
<1>2. CASE RspRelock(c)
    BY <1>2 DEF RspRelock
<1>3. CASE RspLockLine(c)
    BY <1>3 DEF RspLockLine
<1>4. CASE RspWrite(c)
    <2>1. responseQueue[c] # <<>> /\ ~Starting(c)
        BY <1>4 DEF RspWrite
    <2>2. CASE greeted[c]
        BY SMTT(30), <1>4, <2>1, <2>2 DEF RspWrite
    <2>3. CASE ~greeted[c]
        <3>1. Head(responseQueue[c]) = Greeting
            BY <2>1, <2>3
        <3> QED
            <4>1. ~IsResponse(Greeting)
                BY DEF IsResponse, Greeting
            <4>2. greeted'[c] /\ answers' = answers
                BY <1>4, <3>1, <4>1 DEF RspWrite
            <4>3. UNCHANGED <<commandQueue, serverPc, cmd, clientPc, purpose>>
                BY <1>4 DEF RspWrite
            <4>4. \A d \in Connections \ {c} : /\ responseQueue'[d] = responseQueue[d]
                                              /\ greeted'[d] = greeted[d]
                BY <1>4 DEF RspWrite
            <4>5. ASSUME NEW d \in Connections PROVE GreetingNext(d)'
                <5>1. GreetingNext(d)
                    OBVIOUS
                <5> QED
                    BY <2>1, <4>2, <4>3, <4>4, <5>1
            <4> QED
                BY <4>5
    <2> QED
        BY <2>2, <2>3
<1>5. CASE RspRecycle(c)
    BY <1>5 DEF RspRecycle, Recycle
<1>6. CASE RspUnlock(c)
    BY <1>6 DEF RspUnlock
<1> QED
    BY <1>1, <1>2, <1>3, <1>4, <1>5, <1>6 DEF Rsp

LEMMA GreetInvEnvironment ==
    ASSUME TypeInv, GreetInv, Environment PROVE GreetInv'
<1> USE DEF TypeInv, GreetInv, GreetingNext, Starting, Queued, Served, TypeOK,
            queueVars, lockVars, serverVars, clientVars, userVars
<1>1. CASE ServerSpuriousWake
    BY <1>1 DEF ServerSpuriousWake
<1>2. ASSUME NEW c \in Connections, Accept(c) PROVE GreetInv'
    BY <1>2 DEF Accept, PlaceInv
<1>3. ASSUME NEW c \in Connections, ClientKey(c) PROVE GreetInv'
    BY <1>3 DEF ClientKey
<1>4. ASSUME NEW c \in Connections, ClientAsk(c) PROVE GreetInv'
    BY <1>4 DEF ClientAsk
<1>5. ASSUME NEW c \in Connections, RspSpuriousWake(c) PROVE GreetInv'
    BY <1>5 DEF RspSpuriousWake
<1> QED
    BY <1>1, <1>2, <1>3, <1>4, <1>5 DEF Environment

LEMMA GreetNext == TypeInv /\ GreetInv /\ [Next]_vars => GreetInv'
<1> SUFFICES ASSUME TypeInv, GreetInv, [Next]_vars PROVE GreetInv'
    OBVIOUS
<1>1. CASE Next
    BY <1>1, GreetInvServer, GreetInvClient, GreetInvRsp, GreetInvEnvironment
    DEF Next
<1>2. CASE UNCHANGED vars
    BY <1>2 DEF vars, queueVars, lockVars, serverVars, clientVars, userVars,
                GreetInv, GreetingNext, Starting, Queued, Served
<1> QED
    BY <1>1, <1>2

\* No answer is written on a connection before its greeting.
THEOREM GreetedFirst == Spec => []GreetingFirst
<1>1. GreetInv => GreetingFirst
    BY DEF GreetInv, GreetingNext, GreetingFirst
<1> QED
    BY <1>1, TypeInit, TypeNext, GreetInit, GreetNext, PTL DEF Spec

-----------------------------------------------------------------------------
(* No circle of locks when users wait for their answers.                   *)

\* OneOnItsWay for one connection, and the count of its open commands.
OneAt(c) ==
    /\ Queueing(c) => ~Queued(c) /\ ~Served(c) /\ ~Replied(c)
    /\ Queued(c) => ~Served(c) /\ ~Replied(c)
    /\ Served(c) => ~Replied(c)
    /\ \A i, j \in DOMAIN commandQueue :
          commandQueue[i].con = c /\ commandQueue[j].con = c => i = j
    /\ \A i, j \in DOMAIN responseQueue[c] :
          IsResponse(responseQueue[c][i]) /\ IsResponse(responseQueue[c][j])
             => i = j
    /\ todo[c] <= 1
    /\ Len(answers[c]) <= issued[c]
    /\ Queueing(c) \/ Queued(c) \/ Served(c) \/ Replied(c) =>
          issued[c] = Len(answers[c]) + 1

OneInv == \A c \in Connections : OneAt(c)

LEMMA OneImplies == OneInv => OneOnItsWay
BY DEF OneInv, OneAt, OneOnItsWay

LEMMA OneInit == Init => OneInv
BY DEF Init, OneInv, OneAt, Queueing, Queued, Served, Replied

\* A message that is not a response may be queued without changing the count.
LEMMA OneQuietPut ==
    ASSUME OneInv, NEW c \in Connections,
           \A i \in DOMAIN responseQueue'[c] :
              \/ /\ i \in DOMAIN responseQueue[c]
                 /\ responseQueue'[c][i] = responseQueue[c][i]
              \/ ~IsResponse(responseQueue'[c][i]),
           \A d \in Connections \ {c} : responseQueue'[d] = responseQueue[d],
           UNCHANGED <<commandQueue, serverPc, cmd, todo, issued, answers>>
    PROVE  OneInv'
<1>1. ASSUME NEW d \in Connections PROVE OneAt(d)'
    <2>1. OneAt(d)
        BY DEF OneInv
    <2>2. /\ Queueing(d)' <=> Queueing(d)
          /\ Queued(d)' <=> Queued(d)
          /\ Served(d)' <=> Served(d)
        BY DEF Queueing, Queued, Served
    <2>3. \A i \in DOMAIN responseQueue'[d] : IsResponse(responseQueue'[d][i]) =>
             i \in DOMAIN responseQueue[d] /\ responseQueue'[d][i] = responseQueue[d][i]
        OBVIOUS
    <2>4. Replied(d)' => Replied(d)
        BY <2>3 DEF Replied
    <2>5. \A i, j \in DOMAIN responseQueue'[d] :
             IsResponse(responseQueue'[d][i]) /\ IsResponse(responseQueue'[d][j])
                => i = j
        BY <2>1, <2>3 DEF OneAt
    <2> QED
        BY <2>1, <2>2, <2>4, <2>5 DEF OneAt
<1> QED
    BY <1>1 DEF OneInv

LEMMA OneInvServer ==
    ASSUME TypeInv, MaxOutstanding = 1, OneInv, Server PROVE OneInv'
<1> USE DEF TypeInv, OneInv, OneAt, Queueing, Queued, Served, Replied,
            TypeOK, queueVars, lockVars, serverVars,
            clientVars, userVars
<1>1. CASE ServerLock
    BY <1>1 DEF ServerLock
<1>2. CASE ServerRelock
    BY <1>2 DEF ServerRelock
<1>3. CASE ServerGet
    BY <1>3, SMTT(30) DEF ServerGet
<1>4. CASE ServerUnlock
    BY <1>4 DEF ServerUnlock
<1>5. CASE ServerMalloc
    BY <1>5 DEF ServerMalloc
<1>6. CASE ServerSeePool
    BY <1>6 DEF ServerSeePool
<1>7. CASE ServerTake
    BY <1>7 DEF ServerTake
<1>8. CASE ServerTakeNull
    BY <1>8 DEF ServerTakeNull
<1>9. CASE ServerPutResponse
    <2>0. PICK d \in Connections : d = cmd.con
        BY <1>9 DEF ServerPutResponse, Commands, CmdInv
    <2>1. Response(cmd) \in Messages /\ Served(d)
        BY <1>9, <2>0, DataTypes DEF ServerPutResponse, CmdInv
    <2>2. /\ \A i \in DOMAIN responseQueue'[d] :
                \/ /\ i \in DOMAIN responseQueue[d]
                   /\ responseQueue'[d][i] = responseQueue[d][i]
                \/ i = Len(responseQueue[d]) + 1
          /\ \A c \in Connections \ {d} : responseQueue'[c] = responseQueue[c]
        <3>1. TypeOK /\ PutResponse(d, Response(cmd))
            BY <1>9, <2>0 DEF ServerPutResponse
        <3> HIDE DEF TypeOK, OneInv, TypeInv
        <3> QED
            BY <2>1, <3>1, ResponsePut
    <2>3. UNCHANGED <<commandQueue, todo, issued, answers, cmd>> /\ serverPc' = "recycle"
        BY <1>9 DEF ServerPutResponse
    <2>4. ~Replied(d)
        BY <2>1
    <2>5. ASSUME NEW c \in Connections, c # d PROVE OneAt(c)'
        <3>1. OneAt(c) /\ responseQueue'[c] = responseQueue[c]
            BY <2>2, <2>5
        <3>2. ~Served(c)'
            BY <2>3
        <3> QED
            BY <2>3, <3>1, <3>2
    <2>6. OneAt(d)'
        <3>1. OneAt(d) /\ ~Served(d)'
            BY <2>1, <2>3
        <3>2. \A i \in DOMAIN responseQueue'[d] :
                 IsResponse(responseQueue'[d][i]) => i = Len(responseQueue[d]) + 1
            BY <2>2, <2>4
        <3>3. /\ ~Queueing(d)' /\ ~Queued(d)'
              /\ issued'[d] = Len(answers'[d]) + 1
              /\ todo'[d] <= 1
            BY <2>0, <2>1, <2>3, <3>1
        <3>4. \A i, j \in DOMAIN commandQueue' :
                 commandQueue'[i].con = d /\ commandQueue'[j].con = d => i = j
            BY <2>3, <3>1
        <3>5. Len(answers'[d]) <= issued'[d]
            BY <2>3, <3>1
        <3> HIDE DEF Queueing, Queued, Served, Replied, TypeOK, TypeInv
        <3> QED
            BY <3>1, <3>2, <3>3, <3>4, <3>5
    <2> HIDE DEF OneAt
    <2> QED
        BY <2>5, <2>6
<1>10. CASE ServerRecycle
    BY <1>10 DEF ServerRecycle, Recycle
<1> QED
    BY <1>1, <1>2, <1>3, <1>4, <1>5, <1>6, <1>7, <1>8, <1>9, <1>10 DEF Server

LEMMA OneInvClient ==
    ASSUME TypeInv, MaxOutstanding = 1, OneInv, NEW c \in Connections, Client(c)
    PROVE  OneInv'
<1> USE DEF TypeInv, OneInv, OneAt, Queueing, Queued, Served, Replied,
            TypeOK, queueVars, lockVars, serverVars,
            clientVars, userVars
<1>1. CASE ClientLockLine(c)
    BY <1>1, SMTT(30) DEF ClientLockLine, AfterScan
<1>2. CASE ClientUnlockLine(c)
    BY <1>2 DEF ClientUnlockLine
<1>3. CASE ClientMalloc(c)
    BY <1>3 DEF ClientMalloc
<1>4. CASE ClientSeePool(c)
    BY <1>4 DEF ClientSeePool
<1>5. CASE ClientTake(c)
    BY <1>5 DEF ClientTake
<1>6. CASE ClientTakeNull(c)
    BY <1>6 DEF ClientTakeNull
<1>7. CASE ClientPutGreeting(c)
    <2>1. /\ \A i \in DOMAIN responseQueue'[c] :
                \/ /\ i \in DOMAIN responseQueue[c]
                   /\ responseQueue'[c][i] = responseQueue[c][i]
                \/ ~IsResponse(responseQueue'[c][i])
          /\ \A d \in Connections \ {c} : responseQueue'[d] = responseQueue[d]
        <3>1. TypeOK /\ PutResponse(c, Greeting)
            BY <1>7 DEF ClientPutGreeting
        <3>2. Greeting \in Messages /\ ~IsResponse(Greeting)
            BY DataTypes DEF Greeting, IsResponse
        <3> HIDE DEF TypeOK, OneInv, TypeInv
        <3> QED
            BY <3>1, <3>2, ResponsePut
    <2>2. UNCHANGED <<commandQueue, serverPc, cmd, todo, issued, answers>>
        BY <1>7 DEF ClientPutGreeting
    <2> QED
        BY <2>1, <2>2, OneQuietPut
<1>8. CASE ClientPutAsk(c)
    <2>1. /\ \A i \in DOMAIN responseQueue'[c] :
                \/ /\ i \in DOMAIN responseQueue[c]
                   /\ responseQueue'[c][i] = responseQueue[c][i]
                \/ ~IsResponse(responseQueue'[c][i])
          /\ \A d \in Connections \ {c} : responseQueue'[d] = responseQueue[d]
        <3>1. TypeOK /\ PutResponse(c, Ask)
            BY <1>8 DEF ClientPutAsk
        <3>2. Ask \in Messages /\ ~IsResponse(Ask)
            BY DataTypes DEF Ask, IsResponse
        <3> HIDE DEF TypeOK, OneInv, TypeInv
        <3> QED
            BY <3>1, <3>2, ResponsePut
    <2>2. UNCHANGED <<commandQueue, serverPc, cmd, todo, issued, answers>>
        BY <1>8 DEF ClientPutAsk
    <2> QED
        BY <2>1, <2>2, OneQuietPut
<1>9. CASE ClientPutCommand(c)
    <2> DEFINE command == [con |-> c, id |-> issued[c] - todo[c] + 1]
    <2>1. todo[c] > 0 /\ todo[c] <= issued[c]
        BY <1>9 DEF ClientPutCommand, PlaceInv
    <2>2. command \in Commands /\ command.con = c
        BY <2>1 DEF Commands
    <2>3. commandQueue' = Append(commandQueue, command)
        BY <1>9 DEF ClientPutCommand, PutCommand
    <2> HIDE DEF command
    <2>4. \A i \in DOMAIN commandQueue' :
             \/ i \in DOMAIN commandQueue /\ commandQueue'[i] = commandQueue[i]
             \/ i = Len(commandQueue) + 1 /\ commandQueue'[i].con = c
        BY <2>2, <2>3, Appended
    <2>5. \A d \in Connections : Served(d)' <=> Served(d)
        BY <1>9 DEF ClientPutCommand, PutCommand, Signal
    <2>6. ~Queued(c) /\ ~Served(c) /\ ~Replied(c) /\ issued[c] = Len(answers[c]) + 1
        BY <2>1
    <2>7. todo[c] = 1
        BY <2>1
    <2>8. /\ todo' = [todo EXCEPT ![c] = 0]
          /\ UNCHANGED <<responseQueue, issued, answers>>
        BY <1>9, <2>7 DEF ClientPutCommand
    <2> HIDE DEF Served
    <2>9. OneAt(c)'
        <3>1. \A i \in DOMAIN commandQueue' :
                 commandQueue'[i].con = c => i = Len(commandQueue) + 1
            BY <2>4, <2>6
        <3>2. ~Queueing(c)' /\ ~Served(c)' /\ ~Replied(c)'
            BY <2>5, <2>6, <2>8
        <3>3. Len(answers'[c]) <= issued'[c] /\ issued'[c] = Len(answers'[c]) + 1
            BY <2>6, <2>8
        <3> QED
            BY <2>8, <3>1, <3>2, <3>3
    <2>10. ASSUME NEW d \in Connections, d # c PROVE OneAt(d)'
        <3>1. OneAt(d) /\ todo'[d] = todo[d]
            BY <2>8, <2>10
        <3>2. \A i \in DOMAIN commandQueue' : commandQueue'[i].con = d =>
                 i \in DOMAIN commandQueue /\ commandQueue'[i] = commandQueue[i]
            BY <2>4, <2>10
        <3> QED
            BY <2>5, <2>8, <3>1, <3>2
    <2> QED
        BY ZenonT(60), <2>9, <2>10
<1> QED
    BY <1>1, <1>2, <1>3, <1>4, <1>5, <1>6, <1>7, <1>8, <1>9 DEF Client

LEMMA OneInvRsp ==
    ASSUME TypeInv, MaxOutstanding = 1, OneInv, NEW c \in Connections, Rsp(c)
    PROVE  OneInv'
<1> USE DEF TypeInv, OneInv, OneAt, Queueing, Queued, Served, Replied,
            TypeOK, queueVars, lockVars, serverVars,
            clientVars, userVars
<1>1. CASE RspLock(c)
    BY <1>1 DEF RspLock
<1>2. CASE RspRelock(c)
    BY SMTT(30), <1>2 DEF RspRelock
<1>3. CASE RspLockLine(c)
    BY <1>3 DEF RspLockLine
<1>4. CASE RspWrite(c)
    <2>1. responseQueue[c] # <<>> /\ responseQueue[c] \in Seq(Messages)
        BY <1>4 DEF RspWrite
    <2>2. /\ 1 \in DOMAIN responseQueue[c]
          /\ Head(responseQueue[c]) = responseQueue[c][1]
          /\ responseQueue'[c] = Tail(responseQueue[c])
          /\ \A d \in Connections \ {c} : responseQueue'[d] = responseQueue[d]
        BY <1>4, <2>1, Removed DEF RspWrite
    <2>3. \A i \in DOMAIN responseQueue'[c] :
             /\ i \in Nat /\ i + 1 \in DOMAIN responseQueue[c] \ {1}
             /\ responseQueue'[c][i] = responseQueue[c][i + 1]
        BY <2>1, <2>2, Removed
    <2>4. UNCHANGED <<commandQueue, serverPc, cmd, todo, issued>>
        BY <1>4 DEF RspWrite
    <2>5. \A d \in Connections \ {c} : answers'[d] = answers[d]
        BY <1>4 DEF RspWrite
    <2>6. ASSUME NEW d \in Connections, d # c PROVE OneAt(d)'
        BY <2>2, <2>4, <2>5, <2>6
    <2>7. CASE IsResponse(responseQueue[c][1])
        <3>1. Replied(c) /\ ~Replied(c)'
            BY <2>2, <2>3, <2>7
        <3>2. Len(answers'[c]) = Len(answers[c]) + 1
            <4>1. answers'[c] = Append(answers[c], responseQueue[c][1].to)
                BY <1>4, <2>2, <2>7 DEF RspWrite
            <4>2. responseQueue[c][1].to \in Commands
                BY <2>1, <2>2, <2>7, DataTypes DEF IsResponse
            <4> QED
                BY <4>1, <4>2, AppendProperties
        <3>3. OneAt(c)'
            BY <2>3, <2>4, <3>1, <3>2
        <3> QED
            BY <2>6, <3>3
    <2>8. CASE ~IsResponse(responseQueue[c][1])
        <3>1. answers' = answers
            BY <1>4, <2>2, <2>8 DEF RspWrite
        <3>2. OneAt(c)'
            BY <2>3, <2>4, <3>1
        <3> QED
            BY <2>6, <3>2
    <2> QED
        BY <2>7, <2>8
<1>5. CASE RspRecycle(c)
    BY <1>5 DEF RspRecycle, Recycle
<1>6. CASE RspUnlock(c)
    BY <1>6 DEF RspUnlock
<1> QED
    BY <1>1, <1>2, <1>3, <1>4, <1>5, <1>6 DEF Rsp

LEMMA OneInvEnvironment ==
    ASSUME TypeInv, MaxOutstanding = 1, OneInv, Environment PROVE OneInv'
<1> USE DEF TypeInv, OneInv, OneAt, Queueing, Queued, Served, Replied,
            TypeOK, queueVars, lockVars, serverVars,
            clientVars, userVars
<1>1. CASE ServerSpuriousWake
    BY <1>1 DEF ServerSpuriousWake
<1>2. ASSUME NEW c \in Connections, Accept(c) PROVE OneInv'
    BY <1>2 DEF Accept
<1>3. ASSUME NEW c \in Connections, ClientKey(c) PROVE OneInv'
    <2>1. PICK k \in 0..1 :
             /\ issued[c] - Len(answers[c]) + k <= 1
             /\ todo' = [todo EXCEPT ![c] = k]
             /\ issued' = [issued EXCEPT ![c] = @ + k]
        BY <1>3 DEF ClientKey, Outstanding
    <2>2. UNCHANGED <<commandQueue, responseQueue, serverPc, cmd, answers>>
        BY <1>3 DEF ClientKey
    <2>3. ASSUME NEW d \in Connections, d # c PROVE OneAt(d)'
        <3>1. OneAt(d) /\ todo'[d] = todo[d] /\ issued'[d] = issued[d]
            BY <2>1, <2>3
        <3> QED
            BY <2>2, <3>1
    <2>4. OneAt(c) /\ todo'[c] = k /\ issued'[c] = issued[c] + k
        BY <2>1
    <2>5. CASE k = 0
        <3>1. OneAt(c)'
            BY <2>2, <2>4, <2>5
        <3> QED
            BY <2>3, <3>1
    <2>6. CASE k = 1
        <3>1. issued[c] = Len(answers[c])
            BY <2>1, <2>4, <2>6
        <3>2. ~Queueing(c) /\ ~Queued(c) /\ ~Served(c) /\ ~Replied(c)
            BY <2>4, <3>1
        <3>3. OneAt(c)'
            BY <2>2, <2>4, <2>6, <3>1, <3>2
        <3> QED
            BY <2>3, <3>3
    <2> QED
        BY <2>5, <2>6
<1>4. ASSUME NEW c \in Connections, ClientAsk(c) PROVE OneInv'
    BY <1>4 DEF ClientAsk
<1>5. ASSUME NEW c \in Connections, RspSpuriousWake(c) PROVE OneInv'
    BY <1>5 DEF RspSpuriousWake
<1> QED
    BY <1>1, <1>2, <1>3, <1>4, <1>5 DEF Environment

LEMMA OneNext ==
    ASSUME TypeInv, MaxOutstanding = 1, OneInv, [Next]_vars PROVE OneInv'
<1>1. CASE Next
    BY <1>1, OneInvServer, OneInvClient, OneInvRsp, OneInvEnvironment DEF Next
<1>2. CASE UNCHANGED vars
    BY <1>2 DEF vars, queueVars, lockVars, serverVars, clientVars, userVars,
                OneInv, OneAt, Queueing, Queued, Served, Replied
<1> QED
    BY <1>1, <1>2

\* Of a user who waits for each answer, one command at most is on its way.
THEOREM OneCommandOnItsWay == MaxOutstanding = 1 => (Spec => []OneOnItsWay)
<1> SUFFICES ASSUME MaxOutstanding = 1 PROVE Spec => []OneOnItsWay
    OBVIOUS
<1>1. TypeInv /\ OneInv /\ [Next]_vars => OneInv'
    BY OneNext
<1>2. OneInv => OneOnItsWay
    BY OneImplies
<1> QED
    BY <1>1, <1>2, TypeInit, TypeNext, OneInit, PTL DEF Spec

\* If the threads of S all wait inside S, the server is not one of them: it
\* would wait for the response thread of the connection whose command it serves,
\* that thread for the client, and the client, with that command still on its
\* way, has none to queue.
LEMMA NoCircle ==
    ASSUME TypeInv, LockInv, OneInv
    PROVE  NoLockCycle
<1> SUFFICES ASSUME NEW S \in (SUBSET Threads) \ {{}},
                    \A t \in S : \E u \in S : WaitsFor(t, u)
             PROVE  FALSE
    BY DEF NoLockCycle
<1> DEFINE server == <<"server", NoConnection>>
           client(c) == <<"client", c>>
           rsp(c) == <<"rsp", c>>
\* A client that holds its line waits for nobody but the server, to queue.
<1>1. ASSUME NEW c \in Connections, client(c) \in S, lineLock[c] = "client"
      PROVE  server \in S /\ Queueing(c)
    <2>1. ClientHoldsLine(c)
        BY <1>1 DEF LockInv, LockDiscipline
    <2>2. PICK u \in S : WaitsFor(client(c), u)
        BY <1>1
    <2>3. clientPc[c] = "put" /\ purpose[c] = "command" /\ u = server
        BY <2>1, <2>2 DEF WaitsFor, ClientHoldsLine
    <2> QED
        BY <2>3 DEF TypeInv, PlaceInv, Queueing
\* A response thread waits for its client, which then holds the line.
<1>2. ASSUME NEW c \in Connections, rsp(c) \in S
      PROVE  client(c) \in S /\ lineLock[c] = "client"
    <2>1. PICK u \in S : WaitsFor(rsp(c), u)
        BY <1>2
    <2> QED
        BY <2>1 DEF WaitsFor
<1>3. server \notin S
    <2> SUFFICES ASSUME server \in S PROVE FALSE
        OBVIOUS
    <2>1. PICK u \in S : WaitsFor(server, u)
        OBVIOUS
    <2>2. PICK c \in Connections : Served(c) /\ u = rsp(c)
        BY <2>1 DEF WaitsFor, Served
    <2>3. Queueing(c)
        BY <1>1, <1>2, <2>2
    <2> QED
        BY <2>2, <2>3 DEF OneInv, OneAt
<1>4. \A c \in Connections : rsp(c) \notin S
    BY <1>1, <1>2, <1>3
<1>5. \A c \in Connections : client(c) \notin S
    BY <1>3, <1>4 DEF WaitsFor
<1>6. PICK t : t \in S
    OBVIOUS
<1>7. t = server \/ \E c \in Connections : t = client(c) \/ t = rsp(c)
    BY <1>6 DEF Threads
<1> QED
    BY <1>3, <1>4, <1>5, <1>6, <1>7

\* The threads of the server never wait for each other's mutexes in a circle, as
\* long as every user waits for the answer to a command before completing the
\* next one.
THEOREM NoDeadlock == MaxOutstanding = 1 => (Spec => []NoLockCycle)
<1> SUFFICES ASSUME MaxOutstanding = 1 PROVE Spec => []NoLockCycle
    OBVIOUS
<1>1. TypeInv /\ OneInv /\ [Next]_vars => OneInv'
    BY OneNext
<1>2. TypeInv /\ LockInv /\ OneInv => NoLockCycle
    BY NoCircle
<1> QED
    BY <1>1, <1>2, TypeInit, TypeNext, LockInit, LockNext, OneInit, PTL DEF Spec

-----------------------------------------------------------------------------
(* The commands on their way, in order.                                    *)

PosNat == Nat \ {0}

\* The commands of c that add_command_to_command_queue was called for.
Handed(c) == issued[c] - todo[c]

\* Where the k-th command of c can be: at place j of the command queue, with the
\* server, or, as a response, at place i of the response queue.
QueuedAt(c, j, k) == j \in DOMAIN commandQueue /\ commandQueue[j] = [con |-> c, id |-> k]
ServedNow(c, k) == Served(c) /\ cmd.id = k
RepliedAt(c, i, k) == /\ i \in DOMAIN responseQueue[c]
                      /\ IsResponse(responseQueue[c][i])
                      /\ responseQueue[c][i].to = [con |-> c, id |-> k]

OnItsWay(c, k) == \/ \E j \in PosNat : QueuedAt(c, j, k)
                  \/ ServedNow(c, k)
                  \/ \E i \in PosNat : RepliedAt(c, i, k)

\* A key is read when every command of the last one has been queued.
KeyDone(c) ==
    todo[c] > 0 => \/ clientPc[c] = "lockLine"
                   \/ clientPc[c] \in {"create", "take", "put"} /\ purpose[c] = "command"

\* A response is put on the queue of the connection its command came from.
OwnResponses(c) ==
    \A i \in DOMAIN responseQueue[c] :
       IsResponse(responseQueue[c][i]) => responseQueue[c][i].to.con = c

\* Exactly the commands queued and not yet answered are on their way, ...
Complete(c) ==
    /\ Len(answers[c]) <= Handed(c)
    /\ \A k \in PosNat : OnItsWay(c, k) <=> Len(answers[c]) < k /\ k <= Handed(c)

\* ... the older ones ahead of the younger ones.
InOrder(c) ==
    \A k, l \in PosNat :
       /\ \A i, j \in PosNat : QueuedAt(c, i, k) /\ QueuedAt(c, j, l) /\ i < j => k < l
       /\ \A j \in PosNat : ServedNow(c, k) /\ QueuedAt(c, j, l) => k < l
       /\ \A i, j \in PosNat : RepliedAt(c, i, k) /\ RepliedAt(c, j, l) /\ i < j => k < l
       /\ \A i \in PosNat : RepliedAt(c, i, k) /\ ServedNow(c, l) => k < l
       /\ \A i, j \in PosNat : RepliedAt(c, i, k) /\ QueuedAt(c, j, l) => k < l

OrderAt(c) == KeyDone(c) /\ OwnResponses(c) /\ Complete(c) /\ InOrder(c)
OrderInv == \A c \in Connections : OrderAt(c)

LEMMA OrderInit == Init => OrderInv
<1> SUFFICES ASSUME Init, NEW c \in Connections PROVE OrderAt(c)
    BY DEF OrderInv
<1>1. /\ \A j, k \in PosNat : ~QueuedAt(c, j, k) /\ ~RepliedAt(c, j, k)
      /\ \A k \in PosNat : ~ServedNow(c, k)
      /\ Len(answers[c]) = 0 /\ Handed(c) = 0
    BY DEF Init, QueuedAt, RepliedAt, ServedNow, Served, Handed
<1>2. KeyDone(c) /\ OwnResponses(c)
    BY DEF Init, KeyDone, OwnResponses
<1>3. Complete(c) /\ InOrder(c)
    BY <1>1 DEF Complete, InOrder, OnItsWay, PosNat
<1> QED
    BY <1>2, <1>3 DEF OrderAt

\* The two counts that bound the commands on their way.
LEMMA CountTypes ==
    ASSUME TypeInv, NEW c \in Connections
    PROVE  Handed(c) \in Nat /\ Len(answers[c]) \in Nat
BY DEF TypeInv, TypeOK, PlaceInv, Handed

-----------------------------------------------------------------------------
(* How a step moves the commands of one connection.                        *)

\* What stays where it is stays in order.
LEMMA PlacesKept ==
    ASSUME NEW c \in Connections, Complete(c), InOrder(c),
           \A j, k \in PosNat : QueuedAt(c, j, k)' <=> QueuedAt(c, j, k),
           \A k \in PosNat : ServedNow(c, k)' <=> ServedNow(c, k),
           \A i, k \in PosNat : RepliedAt(c, i, k)' <=> RepliedAt(c, i, k),
           Len(answers'[c]) = Len(answers[c]), Handed(c)' = Handed(c)
    PROVE  Complete(c)' /\ InOrder(c)'
BY DEF Complete, InOrder, OnItsWay

\* A command put on the queue is younger than all others.
LEMMA YoungestQueued ==
    ASSUME TypeInv, NEW c \in Connections, Complete(c), InOrder(c),
           NEW n \in PosNat,
           \A j, k \in PosNat : QueuedAt(c, j, k) => j < n,
           \A j, k \in PosNat :
              QueuedAt(c, j, k)' <=> QueuedAt(c, j, k) \/ (j = n /\ k = Handed(c) + 1),
           \A k \in PosNat : ServedNow(c, k)' <=> ServedNow(c, k),
           \A i, k \in PosNat : RepliedAt(c, i, k)' <=> RepliedAt(c, i, k),
           Len(answers'[c]) = Len(answers[c]), Handed(c)' = Handed(c) + 1
    PROVE  Complete(c)' /\ InOrder(c)'
<1>0. Handed(c) \in Nat /\ Len(answers[c]) \in Nat
    BY CountTypes
<1>1. \A k \in PosNat : OnItsWay(c, k)' <=> OnItsWay(c, k) \/ k = Handed(c) + 1
    BY DEF OnItsWay
<1>2. Complete(c)'
    BY <1>0, <1>1 DEF Complete, PosNat
<1>3. \A k \in PosNat : OnItsWay(c, k) => k < Handed(c) + 1
    BY <1>0 DEF Complete, PosNat
<1>4. /\ \A k \in PosNat : ServedNow(c, k) => k < Handed(c) + 1
      /\ \A i, k \in PosNat : QueuedAt(c, i, k) => k < Handed(c) + 1
      /\ \A i, k \in PosNat : RepliedAt(c, i, k) => k < Handed(c) + 1
    BY <1>3 DEF OnItsWay
<1>5. InOrder(c)'
    <2> SUFFICES ASSUME NEW k \in PosNat, NEW l \in PosNat, NEW i \in PosNat,
                        NEW j \in PosNat
                 PROVE  /\ QueuedAt(c, i, k)' /\ QueuedAt(c, j, l)' /\ i < j => k < l
                        /\ ServedNow(c, k)' /\ QueuedAt(c, j, l)' => k < l
                        /\ RepliedAt(c, i, k)' /\ RepliedAt(c, j, l)' /\ i < j => k < l
                        /\ RepliedAt(c, i, k)' /\ ServedNow(c, l)' => k < l
                        /\ RepliedAt(c, i, k)' /\ QueuedAt(c, j, l)' => k < l
        BY DEF InOrder
    <2>1. QueuedAt(c, i, k)' /\ QueuedAt(c, j, l)' /\ i < j => k < l
        <3>1. QueuedAt(c, i, k) /\ QueuedAt(c, j, l) /\ i < j => k < l
            BY DEF InOrder
        <3>2. QueuedAt(c, i, k) => k < Handed(c) + 1
            BY <1>4
        <3>3. i = n /\ i < j => j # n /\ ~QueuedAt(c, j, l)
            BY DEF PosNat
        <3> QED
            BY <3>1, <3>2, <3>3
    <2>2. ServedNow(c, k)' /\ QueuedAt(c, j, l)' => k < l
        BY <1>4 DEF InOrder
    <2>3. /\ RepliedAt(c, i, k)' /\ RepliedAt(c, j, l)' /\ i < j => k < l
          /\ RepliedAt(c, i, k)' /\ ServedNow(c, l)' => k < l
        BY DEF InOrder
    <2>4. RepliedAt(c, i, k)' /\ QueuedAt(c, j, l)' => k < l
        <3>1. RepliedAt(c, i, k) /\ QueuedAt(c, j, l) => k < l
            BY DEF InOrder
        <3>2. RepliedAt(c, i, k) => k < Handed(c) + 1
            BY <1>4
        <3> QED
            BY <3>1, <3>2
    <2> QED
        BY <2>1, <2>2, <2>3, <2>4
<1> QED
    BY <1>2, <1>5

\* The first of the queue goes to the server.
LEMMA OldestServed ==
    ASSUME NEW c \in Connections, Complete(c), InOrder(c),
           \A k \in PosNat : ~ServedNow(c, k),
           \A j, k \in PosNat : QueuedAt(c, j, k)' <=> QueuedAt(c, j + 1, k),
           \A k \in PosNat : ServedNow(c, k)' <=> QueuedAt(c, 1, k),
           \A i, k \in PosNat : RepliedAt(c, i, k)' <=> RepliedAt(c, i, k),
           Len(answers'[c]) = Len(answers[c]), Handed(c)' = Handed(c)
    PROVE  Complete(c)' /\ InOrder(c)'
<1>1. 1 \in PosNat /\ \A j \in PosNat : j + 1 \in PosNat /\ 1 < j + 1
    BY DEF PosNat
<1>2. ASSUME NEW k \in PosNat PROVE OnItsWay(c, k)' <=> OnItsWay(c, k)
    <2>1. ASSUME NEW j \in PosNat, QueuedAt(c, j, k) PROVE OnItsWay(c, k)'
        <3>1. j = 1 \/ (j - 1 \in PosNat /\ j = (j - 1) + 1)
            BY DEF PosNat
        <3>2. j - 1 \in PosNat /\ j = (j - 1) + 1 => QueuedAt(c, j - 1, k)'
            BY <2>1
        <3> QED
            BY <2>1, <3>1, <3>2 DEF OnItsWay
    <2> QED
        BY <1>1, <2>1 DEF OnItsWay
<1>3. Complete(c)'
    BY <1>2 DEF Complete
<1>4. InOrder(c)'
    BY <1>1 DEF InOrder, PosNat
<1> QED
    BY <1>3, <1>4

\* The response of the command served goes to the end of the response queue.
LEMMA ServedReplied ==
    ASSUME NEW c \in Connections, Complete(c), InOrder(c),
           NEW n \in PosNat,
           \A i, k \in PosNat : RepliedAt(c, i, k) => i < n,
           \A j, k \in PosNat : QueuedAt(c, j, k)' <=> QueuedAt(c, j, k),
           \A k \in PosNat : ~ServedNow(c, k)',
           \A i, k \in PosNat :
              RepliedAt(c, i, k)' <=> RepliedAt(c, i, k) \/ (i = n /\ ServedNow(c, k)),
           Len(answers'[c]) = Len(answers[c]), Handed(c)' = Handed(c)
    PROVE  Complete(c)' /\ InOrder(c)'
<1>1. \A k \in PosNat : OnItsWay(c, k)' <=> OnItsWay(c, k)
    BY DEF OnItsWay
<1>2. Complete(c)'
    BY <1>1 DEF Complete
<1>3. InOrder(c)'
    <2> SUFFICES ASSUME NEW k \in PosNat, NEW l \in PosNat, NEW i \in PosNat,
                        NEW j \in PosNat
                 PROVE  /\ QueuedAt(c, i, k)' /\ QueuedAt(c, j, l)' /\ i < j => k < l
                        /\ RepliedAt(c, i, k)' /\ RepliedAt(c, j, l)' /\ i < j => k < l
                        /\ RepliedAt(c, i, k)' /\ QueuedAt(c, j, l)' => k < l
        BY DEF InOrder
    <2>1. QueuedAt(c, i, k)' /\ QueuedAt(c, j, l)' /\ i < j => k < l
        BY DEF InOrder
    <2>2. RepliedAt(c, i, k)' /\ RepliedAt(c, j, l)' /\ i < j => k < l
        <3>1. n < j \/ i # n \/ ~(i < j)
            BY DEF PosNat
        <3>2. RepliedAt(c, i, k) /\ RepliedAt(c, j, l) /\ i < j => k < l
            BY DEF InOrder
        <3>3. RepliedAt(c, i, k) /\ ServedNow(c, l) => k < l
            BY DEF InOrder
        <3>4. RepliedAt(c, j, l) => ~(n < j)
            BY DEF PosNat
        <3>5. j = n => ~(n < j)
            BY DEF PosNat
        <3> QED
            BY <3>1, <3>2, <3>3, <3>4, <3>5
    <2>3. RepliedAt(c, i, k)' /\ QueuedAt(c, j, l)' => k < l
        BY DEF InOrder
    <2> QED
        BY <2>1, <2>2, <2>3
<1> QED
    BY <1>2, <1>3

\* A message that is no response leaves the response queue.
LEMMA OtherWritten ==
    ASSUME NEW c \in Connections, Complete(c), InOrder(c),
           \A k \in PosNat : ~RepliedAt(c, 1, k),
           \A j, k \in PosNat : QueuedAt(c, j, k)' <=> QueuedAt(c, j, k),
           \A k \in PosNat : ServedNow(c, k)' <=> ServedNow(c, k),
           \A i, k \in PosNat : RepliedAt(c, i, k)' <=> RepliedAt(c, i + 1, k),
           Len(answers'[c]) = Len(answers[c]), Handed(c)' = Handed(c)
    PROVE  Complete(c)' /\ InOrder(c)'
<1>1. \A i \in PosNat : i + 1 \in PosNat
    BY DEF PosNat
<1>2. ASSUME NEW k \in PosNat PROVE OnItsWay(c, k)' <=> OnItsWay(c, k)
    <2>1. ASSUME NEW i \in PosNat, RepliedAt(c, i, k) PROVE OnItsWay(c, k)'
        <3>1. i = 1 \/ (i - 1 \in PosNat /\ i = (i - 1) + 1)
            BY DEF PosNat
        <3>2. i - 1 \in PosNat /\ i = (i - 1) + 1 => RepliedAt(c, i - 1, k)'
            BY <2>1
        <3> QED
            BY <2>1, <3>1, <3>2 DEF OnItsWay
    <2> QED
        BY <1>1, <2>1 DEF OnItsWay
<1>3. Complete(c)'
    BY <1>2 DEF Complete
<1>4. InOrder(c)'
    BY <1>1 DEF InOrder, PosNat
<1> QED
    BY <1>3, <1>4

\* A response that leaves the queue first is the one the user waits for.
LEMMA OldestAnswered ==
    ASSUME TypeInv, NEW c \in Connections, Complete(c), InOrder(c),
           NEW k \in PosNat, RepliedAt(c, 1, k)
    PROVE  k = Len(answers[c]) + 1 /\ k <= Handed(c)
<1>0. Handed(c) \in Nat /\ Len(answers[c]) \in Nat
    BY CountTypes
<1> DEFINE n == Len(answers[c]) + 1
<1>1. n <= k /\ k <= Handed(c) /\ n \in PosNat /\ 1 \in PosNat
    BY <1>0 DEF Complete, OnItsWay, PosNat
<1>2. OnItsWay(c, n)
    BY <1>0, <1>1 DEF Complete, PosNat
<1>3. k <= n
    <2>1. ASSUME NEW i \in PosNat, RepliedAt(c, i, n) PROVE k <= n
        <3>1. i = 1 \/ 1 < i
            BY DEF PosNat
        <3>2. CASE i = 1
            BY <2>1, <3>2 DEF RepliedAt
        <3>3. CASE 1 < i
            BY <1>1, <2>1, <3>3 DEF InOrder, PosNat
        <3> QED
            BY <3>1, <3>2, <3>3
    <2> QED
        BY <1>1, <1>2, <2>1 DEF OnItsWay, InOrder, PosNat
<1> QED
    BY <1>0, <1>1, <1>3 DEF PosNat

LEMMA ResponseWritten ==
    ASSUME TypeInv, NEW c \in Connections, Complete(c), InOrder(c),
           NEW m \in PosNat, RepliedAt(c, 1, m),
           \A j, k \in PosNat : QueuedAt(c, j, k)' <=> QueuedAt(c, j, k),
           \A k \in PosNat : ServedNow(c, k)' <=> ServedNow(c, k),
           \A i, k \in PosNat : RepliedAt(c, i, k)' <=> RepliedAt(c, i + 1, k),
           Len(answers'[c]) = Len(answers[c]) + 1, Handed(c)' = Handed(c)
    PROVE  Complete(c)' /\ InOrder(c)'
<1>0. Handed(c) \in Nat /\ Len(answers[c]) \in Nat /\ 1 \in PosNat
    BY CountTypes DEF PosNat
<1>1. \A i \in PosNat : i + 1 \in PosNat /\ 1 < i + 1
    BY DEF PosNat
<1>2. \A k \in PosNat : RepliedAt(c, 1, k) => k = m
    BY DEF RepliedAt
<1>3. m = Len(answers[c]) + 1 /\ m <= Handed(c)
    BY OldestAnswered
<1>4. \A k \in PosNat : OnItsWay(c, k)' <=> OnItsWay(c, k) /\ k # m
    <2> SUFFICES ASSUME NEW k \in PosNat PROVE OnItsWay(c, k)' <=> OnItsWay(c, k) /\ k # m
        OBVIOUS
    <2>1. OnItsWay(c, k)' => OnItsWay(c, k)
        BY <1>1 DEF OnItsWay
    <2>2. OnItsWay(c, k)' => m < k
        BY <1>0, <1>1 DEF OnItsWay, InOrder
    <2>3. OnItsWay(c, k) /\ k # m => OnItsWay(c, k)'
        <3>1. ASSUME NEW i \in PosNat, RepliedAt(c, i, k), k # m
              PROVE  RepliedAt(c, i - 1, k)' /\ i - 1 \in PosNat
            <4>1. i # 1
                BY <1>2, <3>1
            <4>2. i - 1 \in PosNat /\ i = (i - 1) + 1
                BY <4>1 DEF PosNat
            <4> QED
                BY <3>1, <4>2
        <3> QED
            BY <3>1 DEF OnItsWay
    <2> QED
        BY SMTT(30), <2>1, <2>2, <2>3 DEF PosNat
<1>5. Complete(c)'
    <2> SUFFICES ASSUME NEW k \in PosNat
                 PROVE  OnItsWay(c, k)' <=> Len(answers'[c]) < k /\ k <= Handed(c)'
        BY <1>3 DEF Complete
    <2>1. OnItsWay(c, k) <=> Len(answers[c]) < k /\ k <= Handed(c)
        BY DEF Complete
    <2>2. \A a \in Nat : (a < k /\ k # a + 1) <=> a + 1 < k
        BY DEF PosNat
    <2>3. (Len(answers[c]) < k /\ k # m) <=> Len(answers'[c]) < k
        BY <1>0, <1>3, <2>2
    <2> QED
        BY <1>4, <2>1, <2>3
<1>6. InOrder(c)'
    <2> SUFFICES ASSUME NEW k \in PosNat, NEW l \in PosNat, NEW i \in PosNat,
                        NEW j \in PosNat
                 PROVE  /\ QueuedAt(c, i, k)' /\ QueuedAt(c, j, l)' /\ i < j => k < l
                        /\ ServedNow(c, k)' /\ QueuedAt(c, j, l)' => k < l
                        /\ RepliedAt(c, i, k)' /\ RepliedAt(c, j, l)' /\ i < j => k < l
                        /\ RepliedAt(c, i, k)' /\ ServedNow(c, l)' => k < l
                        /\ RepliedAt(c, i, k)' /\ QueuedAt(c, j, l)' => k < l
        BY DEF InOrder
    <2>1. /\ QueuedAt(c, i, k)' /\ QueuedAt(c, j, l)' /\ i < j => k < l
          /\ ServedNow(c, k)' /\ QueuedAt(c, j, l)' => k < l
        BY DEF InOrder
    <2>2. i + 1 \in PosNat /\ j + 1 \in PosNat /\ (i < j <=> i + 1 < j + 1)
        BY DEF PosNat
    <2>3. /\ RepliedAt(c, i + 1, k) /\ RepliedAt(c, j + 1, l) /\ i + 1 < j + 1 => k < l
          /\ RepliedAt(c, i + 1, k) /\ ServedNow(c, l) => k < l
          /\ RepliedAt(c, i + 1, k) /\ QueuedAt(c, j, l) => k < l
        BY <2>2 DEF InOrder
    <2> QED
        BY <2>1, <2>2, <2>3
<1> QED
    BY <1>5, <1>6

-----------------------------------------------------------------------------
(* The steps of the threads.                                               *)

\* The places of a queue that is appended to, or whose head is taken.
LEMMA AppendedAt ==
    ASSUME NEW T, NEW q \in Seq(T), NEW e \in T
    PROVE  /\ Len(q) + 1 \in PosNat
           /\ Append(q, e)[Len(q) + 1] = e
           /\ \A i \in PosNat :
                 /\ i \in DOMAIN Append(q, e) <=> i \in DOMAIN q \/ i = Len(q) + 1
                 /\ i \in DOMAIN q => i < Len(q) + 1 /\ Append(q, e)[i] = q[i]
BY DEF PosNat

LEMMA RemovedAt ==
    ASSUME NEW T, NEW q \in Seq(T), q # <<>>
    PROVE  /\ 1 \in DOMAIN q /\ Head(q) = q[1]
           /\ \A i \in PosNat :
                 /\ i \in DOMAIN Tail(q) <=> i + 1 \in DOMAIN q
                 /\ i \in DOMAIN Tail(q) => Tail(q)[i] = q[i + 1]
BY DEF PosNat

\* A step that moves no command of c.
LEMMA OrderQuiet ==
    ASSUME NEW c \in Connections, OrderAt(c), KeyDone(c)',
           UNCHANGED <<commandQueue, issued, todo>>,
           responseQueue'[c] = responseQueue[c], answers'[c] = answers[c],
           \A k \in PosNat : ServedNow(c, k)' <=> ServedNow(c, k)
    PROVE  OrderAt(c)'
<1>1. /\ \A j, k \in PosNat : QueuedAt(c, j, k)' <=> QueuedAt(c, j, k)
      /\ \A i, k \in PosNat : RepliedAt(c, i, k)' <=> RepliedAt(c, i, k)
      /\ OwnResponses(c) => OwnResponses(c)'
      /\ Len(answers'[c]) = Len(answers[c]) /\ Handed(c)' = Handed(c)
    BY DEF QueuedAt, RepliedAt, OwnResponses, Handed
<1>2. Complete(c)' /\ InOrder(c)'
    BY <1>1, PlacesKept DEF OrderAt
<1> QED
    BY <1>1, <1>2 DEF OrderAt

\* What the server's steps leave alone.
LEMMA ServerFrame ==
    ASSUME Server
    PROVE  UNCHANGED <<clientPc, purpose, todo, issued, answers>>
BY DEF Server, ServerLock, ServerRelock, ServerGet, ServerUnlock, ServerMalloc,
       ServerSeePool, ServerTake, ServerTakeNull, ServerPutResponse, ServerRecycle,
       queueVars, lockVars, serverVars, clientVars, userVars

LEMMA OrderServer ==
    ASSUME TypeInv, OrderInv, Server PROVE OrderInv'
<1> SUFFICES ASSUME NEW c \in Connections PROVE OrderAt(c)'
    BY DEF OrderInv
<1>0. /\ OrderAt(c) /\ KeyDone(c)'
      /\ UNCHANGED <<issued, todo, answers>>
      /\ Handed(c)' = Handed(c)
    BY ServerFrame DEF OrderInv, OrderAt, KeyDone, Handed
<1>1. CASE ServerGet
    <2>1. /\ serverPc = "drain" /\ serverPc' = "create"
          /\ commandQueue \in Seq(Commands) /\ commandQueue # <<>>
          /\ cmd' = Head(commandQueue) /\ commandQueue' = Tail(commandQueue)
          /\ responseQueue' = responseQueue
        BY <1>1 DEF ServerGet, TypeInv, TypeOK
    <2>2. \A j, k \in PosNat : QueuedAt(c, j, k)' <=> QueuedAt(c, j + 1, k)
        BY <2>1, RemovedAt DEF QueuedAt
    <2>3. \A k \in PosNat : ~ServedNow(c, k)
        BY <2>1 DEF ServedNow, Served
    <2>4. \A k \in PosNat : ServedNow(c, k)' <=> QueuedAt(c, 1, k)
        <3>1. 1 \in DOMAIN commandQueue /\ cmd' = commandQueue[1] /\ cmd' \in Commands
            BY <2>1, RemovedAt
        <3> QED
            BY <2>1, <3>1 DEF ServedNow, Served, QueuedAt, Commands
    <2>5. /\ \A i, k \in PosNat : RepliedAt(c, i, k)' <=> RepliedAt(c, i, k)
          /\ OwnResponses(c) => OwnResponses(c)'
        BY <2>1 DEF RepliedAt, OwnResponses
    <2>6. Complete(c)' /\ InOrder(c)'
        BY <1>0, <2>2, <2>3, <2>4, <2>5, OldestServed DEF OrderAt
    <2> QED
        BY <1>0, <2>5, <2>6 DEF OrderAt
<1>2. CASE ServerPutResponse
    <2>1. /\ serverPc = "put" /\ serverPc' = "recycle"
          /\ cmd \in Commands /\ cmd.con \in Connections /\ cmd' = cmd
          /\ Response(cmd) \in Messages /\ IsResponse(Response(cmd))
          /\ Response(cmd).to = cmd
          /\ commandQueue' = commandQueue
        BY <1>2, DataTypes DEF ServerPutResponse, TypeInv, TypeOK, CmdInv, Commands,
                               Response, IsResponse
    <2>2. /\ responseQueue[cmd.con] \in Seq(Messages)
          /\ responseQueue'[cmd.con] = Append(responseQueue[cmd.con], Response(cmd))
          /\ \A d \in Connections \ {cmd.con} : responseQueue'[d] = responseQueue[d]
        BY <1>2, <2>1 DEF ServerPutResponse, PutResponse, TypeInv, TypeOK
    <2>3. \A j, k \in PosNat : QueuedAt(c, j, k)' <=> QueuedAt(c, j, k)
        BY <2>1 DEF QueuedAt
    <2>4. \A k \in PosNat : ~ServedNow(c, k)'
        BY <2>1 DEF ServedNow, Served
    <2>5. CASE c = cmd.con
        <3>0. /\ responseQueue[c] \in Seq(Messages) /\ Response(cmd) \in Messages
              /\ responseQueue'[c] = Append(responseQueue[c], Response(cmd))
            BY <2>1, <2>2, <2>5
        <3>1. \A k \in PosNat : ServedNow(c, k) <=> cmd = [con |-> c, id |-> k]
            BY <2>1, <2>5 DEF ServedNow, Served, Commands
        <3>2. PICK n \in PosNat :
                 /\ responseQueue'[c][n] = Response(cmd)
                 /\ \A i \in PosNat :
                       /\ i \in DOMAIN responseQueue'[c] <=>
                             i \in DOMAIN responseQueue[c] \/ i = n
                       /\ i \in DOMAIN responseQueue[c] =>
                             i < n /\ responseQueue'[c][i] = responseQueue[c][i]
            BY <3>0, AppendedAt
        <3>3. ~(n < n)
            BY DEF PosNat
        <3>4. /\ \A i, k \in PosNat : RepliedAt(c, i, k) => i < n
              /\ \A k \in PosNat : RepliedAt(c, n, k)' <=> ServedNow(c, k)
              /\ \A i, k \in PosNat : i # n => (RepliedAt(c, i, k)' <=> RepliedAt(c, i, k))
            BY <2>1, <3>1, <3>2 DEF RepliedAt
        <3>5. Complete(c)' /\ InOrder(c)'
            BY <1>0, <2>3, <2>4, <3>3, <3>4, ServedReplied DEF OrderAt
        <3>6. OwnResponses(c)'
            BY <1>0, <2>1, <2>5, <3>0, Appended DEF OwnResponses, OrderAt
        <3> QED
            BY <1>0, <3>5, <3>6 DEF OrderAt
    <2>6. CASE c # cmd.con
        <3>1. \A k \in PosNat : ~ServedNow(c, k)
            BY <2>6 DEF ServedNow, Served
        <3> QED
            BY <1>0, <2>1, <2>2, <2>4, <2>6, <3>1, OrderQuiet
    <2> QED
        BY <2>5, <2>6
<1>3. CASE ServerRecycle
    BY <1>0, <1>3, OrderQuiet DEF ServerRecycle, Recycle, ServedNow, Served
<1>4. CASE /\ Served(c)' <=> Served(c)
           /\ UNCHANGED <<commandQueue, responseQueue, cmd>>
    BY <1>0, <1>4, OrderQuiet DEF ServedNow
<1>5. \/ ServerGet \/ ServerPutResponse \/ ServerRecycle
      \/ /\ Served(c)' <=> Served(c)
         /\ UNCHANGED <<commandQueue, responseQueue, cmd>>
    BY DEF Server, ServerLock, ServerRelock, ServerUnlock, ServerMalloc,
           ServerSeePool, ServerTake, ServerTakeNull, Served,
           queueVars, lockVars, serverVars, clientVars, userVars
<1> QED
    BY <1>1, <1>2, <1>3, <1>4, <1>5

LEMMA ServedKept ==
    ASSUME UNCHANGED <<serverPc, cmd>>, NEW c \in Connections
    PROVE  \A k \in PosNat : ServedNow(c, k)' <=> ServedNow(c, k)
BY DEF ServedNow, Served

\* A message that is no response may be queued without moving a command.
LEMMA OrderOtherPut ==
    ASSUME TypeInv, OrderInv, NEW c \in Connections, NEW m \in Messages,
           ~IsResponse(m),
           responseQueue' = [responseQueue EXCEPT ![c] = Append(@, m)],
           UNCHANGED <<commandQueue, serverPc, cmd, issued, todo, answers>>,
           \A d \in Connections : KeyDone(d)'
    PROVE  OrderInv'
<1>1. ASSUME NEW d \in Connections, d # c PROVE OrderAt(d)'
    <2>1. responseQueue'[d] = responseQueue[d] /\ OrderAt(d)
        BY <1>1 DEF TypeInv, TypeOK, OrderInv
    <2> QED
        BY <2>1, OrderQuiet, ServedKept
<1>2. OrderAt(c)'
    <2>0. /\ responseQueue[c] \in Seq(Messages)
          /\ responseQueue'[c] = Append(responseQueue[c], m)
          /\ OrderAt(c)
        BY DEF TypeInv, TypeOK, OrderInv
    <2>1. PICK n \in PosNat :
             /\ responseQueue'[c][n] = m
             /\ \A i \in PosNat :
                   /\ i \in DOMAIN responseQueue'[c] <=>
                         i \in DOMAIN responseQueue[c] \/ i = n
                   /\ i \in DOMAIN responseQueue[c] =>
                         i < n /\ responseQueue'[c][i] = responseQueue[c][i]
        BY <2>0, AppendedAt
    <2>2. ~(n < n)
        BY DEF PosNat
    <2>3. \A i, k \in PosNat : RepliedAt(c, i, k)' <=> RepliedAt(c, i, k)
        BY <2>1, <2>2 DEF RepliedAt
    <2>4. \A j, k \in PosNat : QueuedAt(c, j, k)' <=> QueuedAt(c, j, k)
        BY DEF QueuedAt
    <2>5. Len(answers'[c]) = Len(answers[c]) /\ Handed(c)' = Handed(c)
        BY DEF Handed
    <2>6. Complete(c)' /\ InOrder(c)'
        BY <2>0, <2>3, <2>4, <2>5, PlacesKept, ServedKept DEF OrderAt
    <2>7. OwnResponses(c)'
        BY <2>0, Appended DEF OwnResponses, OrderAt
    <2> QED
        BY <2>6, <2>7 DEF OrderAt
<1> QED
    BY <1>1, <1>2 DEF OrderInv

LEMMA KeyDoneClient ==
    ASSUME TypeInv, OrderInv, NEW c \in Connections, Client(c),
           NEW d \in Connections
    PROVE  KeyDone(d)'
<1> USE DEF TypeInv, TypeOK, KeyDone, queueVars, lockVars, serverVars, clientVars,
            userVars
<1>0. KeyDone(d)
    BY DEF OrderInv, OrderAt
<1>1. CASE ClientLockLine(c)
    BY <1>0, <1>1 DEF ClientLockLine, AfterScan, PlaceInv
<1>2. CASE ClientUnlockLine(c)
    BY <1>0, <1>2 DEF ClientUnlockLine
<1>3. CASE ClientMalloc(c)
    BY <1>0, <1>3 DEF ClientMalloc
<1>4. CASE ClientSeePool(c)
    BY <1>0, <1>4 DEF ClientSeePool
<1>5. CASE ClientTake(c)
    BY <1>0, <1>5 DEF ClientTake
<1>6. CASE ClientTakeNull(c)
    BY <1>0, <1>6 DEF ClientTakeNull
<1>7. CASE ClientPutGreeting(c)
    BY <1>0, <1>7 DEF ClientPutGreeting
<1>8. CASE ClientPutAsk(c)
    BY <1>0, <1>8 DEF ClientPutAsk
<1>9. CASE ClientPutCommand(c)
    BY <1>0, <1>9 DEF ClientPutCommand, AfterScan
<1> QED
    BY <1>1, <1>2, <1>3, <1>4, <1>5, <1>6, <1>7, <1>8, <1>9 DEF Client

LEMMA OrderClient ==
    ASSUME TypeInv, OrderInv, NEW c \in Connections, Client(c) PROVE OrderInv'
<1>0. \A d \in Connections : OrderAt(d) /\ KeyDone(d)'
    BY KeyDoneClient DEF OrderInv
<1>1. CASE ClientPutGreeting(c)
    <2>1. Greeting \in Messages /\ ~IsResponse(Greeting)
        BY DataTypes DEF Greeting, IsResponse
    <2>2. /\ responseQueue' = [responseQueue EXCEPT ![c] = Append(@, Greeting)]
          /\ UNCHANGED <<commandQueue, serverPc, cmd, issued, todo, answers>>
        BY <1>1 DEF ClientPutGreeting, PutResponse, serverVars, userVars
    <2> QED
        BY <1>0, <2>1, <2>2, OrderOtherPut
<1>2. CASE ClientPutAsk(c)
    <2>1. Ask \in Messages /\ ~IsResponse(Ask)
        BY DataTypes DEF Ask, IsResponse
    <2>2. /\ responseQueue' = [responseQueue EXCEPT ![c] = Append(@, Ask)]
          /\ UNCHANGED <<commandQueue, serverPc, cmd, issued, todo, answers>>
        BY <1>2 DEF ClientPutAsk, PutResponse, serverVars, userVars
    <2> QED
        BY <1>0, <2>1, <2>2, OrderOtherPut
<1>3. CASE ClientPutCommand(c)
    <2>1. PICK h \in Nat : h = Handed(c)
        BY CountTypes
    <2> DEFINE command == [con |-> c, id |-> h + 1]
    <2>2. todo[c] > 0 /\ h + 1 = issued[c] - todo[c] + 1
        BY <1>3, <2>1 DEF ClientPutCommand, TypeInv, PlaceInv, Handed
    <2>3. h + 1 \in PosNat /\ command \in Commands
        BY DEF PosNat, Commands
    <2>4. /\ commandQueue \in Seq(Commands)
          /\ commandQueue' = Append(commandQueue, command)
          /\ todo' = [todo EXCEPT ![c] = @ - 1]
          /\ UNCHANGED <<responseQueue, cmd, issued, answers>>
        BY <1>3, <2>2 DEF ClientPutCommand, PutCommand, TypeInv, TypeOK, userVars
    <2>5. \A d \in Connections, k \in PosNat : ServedNow(d, k)' <=> ServedNow(d, k)
        BY <1>3 DEF ClientPutCommand, PutCommand, Signal, ServedNow, Served
    <2>6. PICK n \in PosNat :
             /\ commandQueue'[n] = command
             /\ \A i \in PosNat :
                   /\ i \in DOMAIN commandQueue' <=> i \in DOMAIN commandQueue \/ i = n
                   /\ i \in DOMAIN commandQueue =>
                         i < n /\ commandQueue'[i] = commandQueue[i]
        BY <2>3, <2>4, AppendedAt
    <2>7. ~(n < n)
        BY DEF PosNat
    <2>8. \A d \in Connections, j, k \in PosNat : j # n =>
             /\ QueuedAt(d, j, k)' <=> QueuedAt(d, j, k)
             /\ QueuedAt(d, j, k) => j < n
        BY <2>6 DEF QueuedAt
    <2>9. \A d \in Connections, k \in PosNat :
             /\ ~QueuedAt(d, n, k)
             /\ QueuedAt(d, n, k)' <=> d = c /\ k = h + 1
        BY <2>6, <2>7 DEF QueuedAt
    <2>10. \A d \in Connections :
              /\ OwnResponses(d) => OwnResponses(d)'
              /\ \A i, k \in PosNat : RepliedAt(d, i, k)' <=> RepliedAt(d, i, k)
        BY <2>4 DEF OwnResponses, RepliedAt
    <2>11. ASSUME NEW d \in Connections, d # c PROVE OrderAt(d)'
        <3>1. Handed(d)' = Handed(d) /\ Len(answers'[d]) = Len(answers[d])
            BY <2>4, <2>11 DEF Handed, TypeInv, TypeOK
        <3>2. \A j, k \in PosNat : QueuedAt(d, j, k)' <=> QueuedAt(d, j, k)
            BY <2>8, <2>9, <2>11
        <3>3. Complete(d)' /\ InOrder(d)'
            BY <1>0, <2>5, <2>10, <3>1, <3>2, PlacesKept DEF OrderAt
        <3> QED
            BY <1>0, <2>10, <3>3 DEF OrderAt
    <2>12. OrderAt(c)'
        <3>1. Handed(c)' = Handed(c) + 1 /\ Len(answers'[c]) = Len(answers[c])
            BY <2>2, <2>4 DEF Handed, TypeInv, TypeOK
        <3>2. \A j, k \in PosNat :
                 /\ QueuedAt(c, j, k) => j < n
                 /\ QueuedAt(c, j, k)' <=>
                       QueuedAt(c, j, k) \/ (j = n /\ k = Handed(c) + 1)
            BY <2>1, <2>8, <2>9
        <3>3. Complete(c)' /\ InOrder(c)'
            BY <1>0, <2>5, <2>10, <3>1, <3>2, YoungestQueued DEF OrderAt
        <3> QED
            BY <1>0, <2>10, <3>3 DEF OrderAt
    <2> QED
        BY <2>11, <2>12 DEF OrderInv
<1>4. CASE UNCHANGED <<commandQueue, responseQueue, serverPc, cmd, issued, todo, answers>>
    <2> SUFFICES ASSUME NEW d \in Connections PROVE OrderAt(d)'
        BY DEF OrderInv
    <2> QED
        BY <1>0, <1>4, OrderQuiet, ServedKept
<1>5. \/ ClientPutGreeting(c) \/ ClientPutAsk(c) \/ ClientPutCommand(c)
      \/ UNCHANGED <<commandQueue, responseQueue, serverPc, cmd, issued, todo, answers>>
    BY DEF Client, ClientLockLine, ClientUnlockLine, ClientMalloc, ClientSeePool,
           ClientTake, ClientTakeNull, queueVars, lockVars, serverVars, clientVars,
           userVars
<1> QED
    BY <1>1, <1>2, <1>3, <1>4, <1>5

LEMMA OrderRsp ==
    ASSUME TypeInv, OrderInv, NEW c \in Connections, Rsp(c) PROVE OrderInv'
<1>0. /\ UNCHANGED <<clientPc, purpose, todo, issued, commandQueue, serverPc, cmd>>
      /\ \A d \in Connections : OrderAt(d)
    BY DEF Rsp, RspLock, RspRelock, RspLockLine, RspWrite, RspRecycle, RspUnlock,
           queueVars, lockVars, serverVars, clientVars, userVars, OrderInv
<1>1. \A d \in Connections : KeyDone(d)'
    BY <1>0 DEF KeyDone, OrderAt
<1>2. CASE RspWrite(c)
    <2>1. /\ responseQueue[c] \in Seq(Messages) /\ responseQueue[c] # <<>>
          /\ responseQueue' = [responseQueue EXCEPT ![c] = Tail(@)]
          /\ answers' = [answers EXCEPT ![c] =
                IF IsResponse(Head(responseQueue[c]))
                THEN Append(@, Head(responseQueue[c]).to) ELSE @]
          /\ answers[c] \in Seq(Commands)
        BY <1>2 DEF RspWrite, TypeInv, TypeOK
    <2>2. ASSUME NEW d \in Connections, d # c PROVE OrderAt(d)'
        <3>1. /\ responseQueue'[d] = responseQueue[d] /\ answers'[d] = answers[d]
            BY <2>1, <2>2 DEF TypeInv, TypeOK
        <3> QED
            BY <1>0, <1>1, <3>1, OrderQuiet, ServedKept
    <2>3. OrderAt(c)'
        <3>1. /\ responseQueue'[c] = Tail(responseQueue[c])
              /\ answers'[c] = IF IsResponse(responseQueue[c][1])
                               THEN Append(answers[c], responseQueue[c][1].to)
                               ELSE answers[c]
              /\ 1 \in DOMAIN responseQueue[c] /\ responseQueue[c][1] \in Messages
              /\ \A i \in PosNat :
                    /\ i \in DOMAIN responseQueue'[c] <=> i + 1 \in DOMAIN responseQueue[c]
                    /\ i \in DOMAIN responseQueue'[c] =>
                          responseQueue'[c][i] = responseQueue[c][i + 1]
            BY <2>1, RemovedAt DEF TypeInv, TypeOK
        <3>2. OwnResponses(c)'
            BY <1>0, <2>1, <3>1, Removed DEF OwnResponses, OrderAt
        <3>3. /\ \A j, k \in PosNat : QueuedAt(c, j, k)' <=> QueuedAt(c, j, k)
              /\ \A i, k \in PosNat : RepliedAt(c, i, k)' <=> RepliedAt(c, i + 1, k)
              /\ Handed(c)' = Handed(c)
            BY <1>0, <3>1 DEF QueuedAt, RepliedAt, Handed
        <3>4. CASE IsResponse(responseQueue[c][1])
            <4>1. responseQueue[c][1].to \in Commands /\ responseQueue[c][1].to.con = c
                BY <1>0, <3>1, <3>4, DataTypes DEF IsResponse, OwnResponses, OrderAt
            <4>2. PICK m \in PosNat : RepliedAt(c, 1, m)
                BY <3>1, <3>4, <4>1 DEF RepliedAt, Commands, PosNat
            <4>3. Len(answers'[c]) = Len(answers[c]) + 1
                BY <2>1, <3>1, <3>4, <4>1, AppendProperties
            <4>4. Complete(c)' /\ InOrder(c)'
                BY <1>0, <3>3, <4>2, <4>3, ResponseWritten, ServedKept DEF OrderAt
            <4> QED
                BY <1>1, <3>2, <4>4 DEF OrderAt
        <3>5. CASE ~IsResponse(responseQueue[c][1])
            <4>1. \A k \in PosNat : ~RepliedAt(c, 1, k)
                BY <3>5 DEF RepliedAt
            <4>2. Complete(c)' /\ InOrder(c)'
                BY <1>0, <3>1, <3>3, <3>5, <4>1, OtherWritten, ServedKept DEF OrderAt
            <4> QED
                BY <1>1, <3>2, <4>2 DEF OrderAt
        <3> QED
            BY <3>4, <3>5
    <2> QED
        BY <2>2, <2>3 DEF OrderInv
<1>3. CASE UNCHANGED <<responseQueue, answers>>
    BY <1>0, <1>1, <1>3, OrderQuiet, ServedKept DEF OrderInv
<1>4. RspWrite(c) \/ UNCHANGED <<responseQueue, answers>>
    BY DEF Rsp, RspLock, RspRelock, RspLockLine, RspRecycle, RspUnlock, queueVars,
           userVars
<1> QED
    BY <1>2, <1>3, <1>4

LEMMA OrderEnvironment ==
    ASSUME TypeInv, OrderInv, Environment PROVE OrderInv'
<1>0. /\ \A d \in Connections : OrderAt(d)
      /\ UNCHANGED <<commandQueue, responseQueue, cmd, answers>>
      /\ \A d \in Connections, k \in PosNat : ServedNow(d, k)' <=> ServedNow(d, k)
    BY DEF Environment, ServerSpuriousWake, Accept, ClientKey, ClientAsk,
           RspSpuriousWake, queueVars, lockVars, serverVars, clientVars, userVars,
           OrderInv, ServedNow, Served
<1>1. ASSUME NEW c \in Connections, ClientKey(c) PROVE OrderInv'
    <2>1. PICK k \in 0..MaxOutstanding :
             /\ todo' = [todo EXCEPT ![c] = k]
             /\ issued' = [issued EXCEPT ![c] = @ + k]
        BY <1>1 DEF ClientKey
    <2>2. /\ clientPc[c] = "recv" /\ clientPc' = [clientPc EXCEPT ![c] = "lockLine"]
          /\ purpose' = [purpose EXCEPT ![c] = "command"]
        BY <1>1 DEF ClientKey
    <2>3. k \in Nat /\ todo[c] = 0
        <3>1. KeyDone(c) /\ todo[c] \in Nat
            BY <1>0 DEF OrderAt, TypeInv, TypeOK
        <3>2. todo[c] = 0
            BY <2>2, <3>1 DEF KeyDone
        <3> QED
            BY <3>2, FlowAssumption
    <2>4. \A d \in Connections : Handed(d)' = Handed(d)
        BY <2>1, <2>3 DEF Handed, TypeInv, TypeOK
    <2>5. \A d \in Connections : KeyDone(d)'
        BY <1>0, <2>1, <2>2 DEF KeyDone, OrderAt, TypeInv, TypeOK
    <2>6. ASSUME NEW d \in Connections PROVE OrderAt(d)'
        <3>1. /\ \A j, k1 \in PosNat : QueuedAt(d, j, k1)' <=> QueuedAt(d, j, k1)
              /\ \A i, k1 \in PosNat : RepliedAt(d, i, k1)' <=> RepliedAt(d, i, k1)
              /\ OwnResponses(d) => OwnResponses(d)'
            BY <1>0 DEF QueuedAt, RepliedAt, OwnResponses
        <3>2. Complete(d)' /\ InOrder(d)'
            BY <1>0, <2>4, <3>1, PlacesKept DEF OrderAt
        <3> QED
            BY <1>0, <2>5, <3>1, <3>2 DEF OrderAt
    <2> QED
        BY <2>6 DEF OrderInv
<1>2. CASE /\ UNCHANGED <<issued, todo>>
           /\ \A d \in Connections : KeyDone(d)'
    BY <1>0, <1>2, OrderQuiet DEF OrderInv
<1>3. CASE ServerSpuriousWake
    BY <1>0, <1>2, <1>3 DEF ServerSpuriousWake, KeyDone, OrderAt, clientVars, userVars
<1>4. ASSUME NEW c \in Connections, Accept(c) \/ ClientAsk(c) \/ RspSpuriousWake(c)
      PROVE  OrderInv'
    <2>1. UNCHANGED <<issued, todo>>
        BY <1>4 DEF Accept, ClientAsk, RspSpuriousWake, clientVars, userVars
    <2>2. ASSUME NEW d \in Connections PROVE KeyDone(d)'
        BY <1>0, <1>4, <2>1 DEF KeyDone, OrderAt, Accept, ClientAsk, RspSpuriousWake,
                                clientVars, TypeInv, TypeOK, PlaceInv
    <2> QED
        BY <1>2, <2>1, <2>2
<1> QED
    BY <1>1, <1>3, <1>4 DEF Environment

LEMMA OrderNext == TypeInv /\ OrderInv /\ [Next]_vars => OrderInv'
<1> SUFFICES ASSUME TypeInv, OrderInv, [Next]_vars PROVE OrderInv'
    OBVIOUS
<1>1. CASE Next
    BY <1>1, OrderServer, OrderClient, OrderRsp, OrderEnvironment DEF Next
<1>2. CASE UNCHANGED vars
    <2>1. /\ UNCHANGED <<commandQueue, responseQueue, serverPc, cmd, clientPc, purpose,
                         todo, issued, answers>>
          /\ \A c \in Connections : OrderAt(c)
        BY <1>2 DEF vars, queueVars, serverVars, clientVars, userVars, OrderInv
    <2>2. \A c \in Connections : KeyDone(c)'
        BY <2>1 DEF OrderAt, KeyDone
    <2> QED
        BY <2>1, <2>2, OrderQuiet, ServedKept DEF OrderInv
<1> QED
    BY <1>1, <1>2

-----------------------------------------------------------------------------
(* The refinement.                                                         *)

LEMMA ServiceInit == Init => Service!Init
BY DEF Init, Service!Init

\* A step that writes no answer and completes no command.
LEMMA ServiceStutters ==
    ASSUME UNCHANGED <<issued, answers>>, crashed' = crashed
    PROVE  [Service!Next]_Service!vars
BY DEF Service!vars

LEMMA ServiceNext ==
    ASSUME TypeInv, OrderInv, Next PROVE [Service!Next]_Service!vars
<1>0. ~crashed
    BY DEF Next
<1>1. ASSUME NEW c \in Connections, RspWrite(c) PROVE [Service!Next]_Service!vars
    <2>1. /\ responseQueue[c] \in Seq(Messages) /\ responseQueue[c] # <<>>
          /\ answers' = [answers EXCEPT ![c] =
                IF IsResponse(Head(responseQueue[c]))
                THEN Append(@, Head(responseQueue[c]).to) ELSE @]
          /\ UNCHANGED <<issued, crashed>>
        BY <1>1 DEF RspWrite, TypeInv, TypeOK
    <2>2. /\ 1 \in DOMAIN responseQueue[c] /\ Head(responseQueue[c]) = responseQueue[c][1]
          /\ responseQueue[c][1] \in Messages
        BY <2>1, RemovedAt
    <2>3. CASE ~IsResponse(responseQueue[c][1])
        <3>1. answers' = answers
            BY <2>1, <2>2, <2>3 DEF TypeInv, TypeOK
        <3> QED
            BY <2>1, <3>1, ServiceStutters
    <2>4. CASE IsResponse(responseQueue[c][1])
        <3> DEFINE to == responseQueue[c][1].to
        <3>1. to \in Commands /\ to.con = c /\ Complete(c) /\ InOrder(c)
            BY <2>2, <2>4, DataTypes DEF IsResponse, OrderInv, OrderAt, OwnResponses
        <3>2. to = [con |-> c, id |-> to.id] /\ to.id \in PosNat
            BY <3>1 DEF Commands, PosNat
        <3>3. RepliedAt(c, 1, to.id)
            BY <2>2, <2>4, <3>2 DEF RepliedAt
        <3>4. to.id = Len(answers[c]) + 1 /\ to.id <= Handed(c)
            BY <3>1, <3>2, <3>3, OldestAnswered
        <3>5. Len(answers[c]) < issued[c]
            BY <3>4, CountTypes DEF Handed, TypeInv, TypeOK
        <3>6. to = Service!Answer(c, Len(answers[c]) + 1)
            BY <3>2, <3>4 DEF Service!Answer
        <3>7. Service!Reply(c)
            BY <1>0, <2>1, <2>2, <2>4, <3>5, <3>6 DEF Service!Reply
        <3> QED
            BY <3>7 DEF Service!Next
    <2> QED
        BY <2>3, <2>4
<1>2. ASSUME NEW c \in Connections, ClientKey(c) PROVE [Service!Next]_Service!vars
    <2>1. PICK k \in 0..MaxOutstanding :
             /\ issued[c] + k <= MaxCommands
             /\ issued' = [issued EXCEPT ![c] = @ + k]
        BY <1>2 DEF ClientKey
    <2>2. UNCHANGED <<answers, crashed>>
        BY <1>2 DEF ClientKey
    <2>3. k \in Nat /\ issued[c] \in Nat
        BY FlowAssumption DEF TypeInv, TypeOK
    <2>4. CASE k = 0
        <3>1. issued' = issued
            BY <2>1, <2>3, <2>4 DEF TypeInv, TypeOK
        <3> QED
            BY <2>2, <3>1, ServiceStutters
    <2>5. CASE k # 0
        <3>1. issued[c] + k \in (issued[c] + 1)..MaxCommands
            BY <2>1, <2>3, <2>5, FlowAssumption
        <3>2. Service!Submit(c)
            BY <1>0, <2>1, <2>2, <3>1 DEF Service!Submit
        <3> QED
            BY <3>2 DEF Service!Next
    <2> QED
        BY <2>4, <2>5
<1>3. CASE UNCHANGED <<issued, answers>> /\ crashed' = TRUE
    BY <1>0, <1>3 DEF Service!Next, Service!Die
<1>4. CASE UNCHANGED <<issued, answers, crashed>>
    BY <1>4, ServiceStutters
<1>5. CASE Server
    BY <1>3, <1>4, <1>5 DEF Server, ServerLock, ServerRelock, ServerGet, ServerUnlock,
        ServerMalloc, ServerSeePool, ServerTake, ServerTakeNull, ServerPutResponse,
        ServerRecycle, userVars
<1>6. ASSUME NEW c \in Connections, Client(c) PROVE [Service!Next]_Service!vars
    BY <1>3, <1>4, <1>6 DEF Client, ClientLockLine, ClientUnlockLine, ClientMalloc,
        ClientSeePool, ClientTake, ClientTakeNull, ClientPutGreeting, ClientPutAsk,
        ClientPutCommand, userVars
<1>7. ASSUME NEW c \in Connections, Rsp(c) PROVE [Service!Next]_Service!vars
    BY <1>1, <1>4, <1>7 DEF Rsp, RspLock, RspRelock, RspLockLine, RspRecycle, RspUnlock,
        userVars
<1>8. CASE Environment
    BY <1>2, <1>4, <1>8 DEF Environment, ServerSpuriousWake, Accept, ClientAsk,
        RspSpuriousWake, userVars
<1> QED
    BY <1>5, <1>6, <1>7, <1>8 DEF Next

\* Whatever its threads do, the program answers the commands of a connection on
\* that connection, once each and in the order in which they were completed
\* (hello.c:84-103, 873-962).
THEOREM ImplementsService == Spec => ServiceSpec
<1>1. Init => Service!Init
    BY ServiceInit
<1>2. TypeInv /\ OrderInv /\ [Next]_vars => [Service!Next]_Service!vars
    <2>1. UNCHANGED vars => UNCHANGED Service!vars
        BY DEF vars, userVars, Service!vars
    <2> QED
        BY <2>1, ServiceNext
<1> QED
    BY <1>1, <1>2, TypeInit, TypeNext, OrderInit, OrderNext, PTL
    DEF Spec, ServiceSpec, Service!Spec

-----------------------------------------------------------------------------
(* Counting.                                                               *)

LEMMA CountAdd ==
    ASSUME NEW S, IsFiniteSet(S), NEW x, x \notin S
    PROVE  /\ IsFiniteSet(S \union {x})
           /\ Cardinality(S \union {x}) = Cardinality(S) + 1
BY FS_AddElement

LEMMA CountRemove ==
    ASSUME NEW S, IsFiniteSet(S), NEW x \in S
    PROVE  /\ IsFiniteSet(S \ {x})
           /\ Cardinality(S \ {x}) = Cardinality(S) - 1
BY FS_RemoveElement

LEMMA CountSwap ==
    ASSUME NEW S, IsFiniteSet(S), NEW x \in S, NEW y, y \notin S
    PROVE  /\ IsFiniteSet((S \ {x}) \union {y})
           /\ Cardinality((S \ {x}) \union {y}) = Cardinality(S)
<1>1. IsFiniteSet(S \ {x}) /\ Cardinality(S \ {x}) = Cardinality(S) - 1
    BY CountRemove
<1>2. Cardinality(S) \in Nat
    BY FS_CardinalityType
<1>3. y \notin S \ {x}
    OBVIOUS
<1> QED
    BY <1>1, <1>2, <1>3, CountAdd

-----------------------------------------------------------------------------
(* The structs in use, by the place they are in.                           *)

\* The nodes of the queues Q, and the last one of Q[c] when it has n nodes.
Nodes(Q) ==
    UNION {{<<"response queue", i, c>> : i \in DOMAIN Q[c]} : c \in Connections}
Node(n, c) == <<"response queue", n, c>>

LEMMA NodesElements ==
    ASSUME NEW Q
    PROVE  \A e : e \in Nodes(Q) <=>
              \E c \in Connections : \E i \in DOMAIN Q[c] : e = Node(i, c)
<1> DEFINE F(c) == {<<"response queue", i, c>> : i \in DOMAIN Q[c]}
<1>1. \A e : \A c \in Connections :
         e \in F(c) <=> \E i \in DOMAIN Q[c] : e = <<"response queue", i, c>>
    OBVIOUS
<1> HIDE DEF F
<1>2. \A e : e \in UNION {F(c) : c \in Connections} <=>
                \E c \in Connections : e \in F(c)
    BY SMT
<1> QED
    BY <1>1, <1>2, Zenon DEF F, Nodes, Node

LEMMA NodeAdded ==
    ASSUME NEW Q, NEW R, NEW c \in Connections, NEW n, n \notin DOMAIN Q[c],
           DOMAIN R[c] = DOMAIN Q[c] \union {n},
           \A d \in Connections \ {c} : R[d] = Q[d]
    PROVE  Node(n, c) \notin Nodes(Q) /\ Nodes(R) = Nodes(Q) \union {Node(n, c)}
<1>1. \A i, j, x, y : Node(i, x) = Node(j, y) => i = j /\ x = y
    BY DEF Node
<1>2. /\ \A e : e \in Nodes(Q) <=>
            \E d \in Connections : \E i \in DOMAIN Q[d] : e = Node(i, d)
      /\ \A e : e \in Nodes(R) <=>
            \E d \in Connections : \E i \in DOMAIN R[d] : e = Node(i, d)
    BY NodesElements
<1>3. ASSUME NEW e PROVE e \in Nodes(R) <=> e \in Nodes(Q) \/ e = Node(n, c)
    BY <1>2
<1> QED
    BY <1>1, <1>2, <1>3

LEMMA NodeRemoved ==
    ASSUME NEW Q, NEW R, NEW c \in Connections, NEW n, n \in DOMAIN Q[c],
           DOMAIN R[c] = DOMAIN Q[c] \ {n},
           \A d \in Connections \ {c} : R[d] = Q[d]
    PROVE  Node(n, c) \in Nodes(Q) /\ Nodes(R) = Nodes(Q) \ {Node(n, c)}
<1>1. \A i, j, x, y : Node(i, x) = Node(j, y) => i = j /\ x = y
    BY DEF Node
<1>2. /\ \A e : e \in Nodes(Q) <=>
            \E d \in Connections : \E i \in DOMAIN Q[d] : e = Node(i, d)
      /\ \A e : e \in Nodes(R) <=>
            \E d \in Connections : \E i \in DOMAIN R[d] : e = Node(i, d)
    BY NodesElements
<1>3. ASSUME NEW e PROVE e \in Nodes(R) <=> e \in Nodes(Q) /\ e # Node(n, c)
    BY <1>1, <1>2
<1> QED
    BY <1>2, <1>3

\* No struct is in two places.
LEMMA Tags ==
    /\ \A e \in InCommandQueue : e[1] = "command queue"
    /\ \A e \in InResponseQueue : e[1] = "response queue"
    /\ \A e \in AtServer : e[1] \in {"cmd", "rsp"}
    /\ \A e \in AtClient : e[1] = "client"
    /\ \A e \in Written : e[1] = "written"
<1>1. \A e \in InCommandQueue : e[1] = "command queue"
    <2>1. \A e \in InCommandQueue : \E i : e = <<"command queue", i>>
        BY Zenon DEF InCommandQueue
    <2>2. \A i : <<"command queue", i>>[1] = "command queue"
        OBVIOUS
    <2> QED
        BY <2>1, <2>2, Zenon
<1>2. \A e \in InResponseQueue : e[1] = "response queue"
    <2>1. InResponseQueue = Nodes(responseQueue)
        BY DEF InResponseQueue, Nodes
    <2> SUFFICES ASSUME NEW e \in Nodes(responseQueue) PROVE e[1] = "response queue"
        BY <2>1
    <2>2. PICK c \in Connections : \E i \in DOMAIN responseQueue[c] : e = Node(i, c)
        BY NodesElements, Zenon
    <2>3. PICK i \in DOMAIN responseQueue[c] : e = Node(i, c)
        BY <2>2
    <2> QED
        BY <2>3 DEF Node
<1>3. \A e \in AtServer : e[1] \in {"cmd", "rsp"}
    BY DEF AtServer
<1>4. /\ \A e \in AtClient : e[1] = "client"
      /\ \A e \in Written : e[1] = "written"
    BY DEF AtClient, Written
<1> QED
    BY <1>1, <1>2, <1>3, <1>4

LEMMA PlaceRemoved ==
    ASSUME NEW D, NEW n \in D
    PROVE  {<<"command queue", i>> : i \in D \ {n}} =
              {<<"command queue", i>> : i \in D} \ {<<"command queue", n>>}
<1>1. \A i, j : <<"command queue", i>> = <<"command queue", j>> => i = j
    OBVIOUS
<1> QED
    BY <1>1, Zenon

\* The indices of a queue that is appended to, or whose head is taken.
LEMMA Indices ==
    ASSUME NEW T, NEW q \in Seq(T)
    PROVE  /\ \A e \in T : /\ Len(q) + 1 \notin DOMAIN q
                           /\ DOMAIN Append(q, e) = DOMAIN q \union {Len(q) + 1}
           /\ q # <<>> => /\ Len(q) \in DOMAIN q
                          /\ DOMAIN Tail(q) = DOMAIN q \ {Len(q)}
<1>1. Len(q) \in Nat /\ DOMAIN q = 1..Len(q)
    OBVIOUS
<1>2. ASSUME NEW e \in T PROVE DOMAIN Append(q, e) = 1..(Len(q) + 1)
    OBVIOUS
<1>3. q # <<>> => Len(q) > 0 /\ DOMAIN Tail(q) = 1..(Len(q) - 1)
    OBVIOUS
<1> QED
    BY <1>1, <1>2, <1>3

\* A node is put on a queue, or taken from it.
LEMMA CommandQueued ==
    ASSUME commandQueue \in Seq(Commands), NEW command \in Commands,
           commandQueue' = Append(commandQueue, command)
    PROVE  \E x : /\ x \notin InCommandQueue /\ x[1] = "command queue"
                  /\ InCommandQueue' = InCommandQueue \union {x}
<1>1. PICK n : /\ n \notin DOMAIN commandQueue
               /\ DOMAIN commandQueue' = DOMAIN commandQueue \union {n}
    BY Indices
<1>2. /\ <<"command queue", n>> \notin InCommandQueue
      /\ InCommandQueue' = InCommandQueue \union {<<"command queue", n>>}
    BY <1>1 DEF InCommandQueue
<1> QED
    BY <1>2

LEMMA CommandTaken ==
    ASSUME commandQueue \in Seq(Commands), commandQueue # <<>>,
           commandQueue' = Tail(commandQueue)
    PROVE  \E x \in InCommandQueue : InCommandQueue' = InCommandQueue \ {x}
<1>1. PICK n : /\ n \in DOMAIN commandQueue
               /\ DOMAIN commandQueue' = DOMAIN commandQueue \ {n}
    BY Indices
<1>2. <<"command queue", n>> \in InCommandQueue
    BY <1>1 DEF InCommandQueue
<1>3. InCommandQueue' = InCommandQueue \ {<<"command queue", n>>}
    BY <1>1, PlaceRemoved DEF InCommandQueue
<1> QED
    BY <1>2, <1>3

LEMMA ResponseQueued ==
    ASSUME TypeOK, NEW c \in Connections, NEW m \in Messages, PutResponse(c, m)
    PROVE  \E x : /\ x \notin InResponseQueue /\ x[1] = "response queue"
                  /\ InResponseQueue' = InResponseQueue \union {x}
<1>1. /\ responseQueue[c] \in Seq(Messages)
      /\ responseQueue'[c] = Append(responseQueue[c], m)
      /\ \A d \in Connections \ {c} : responseQueue'[d] = responseQueue[d]
    BY DEF TypeOK, PutResponse
<1>2. PICK n : /\ n \notin DOMAIN responseQueue[c]
               /\ DOMAIN responseQueue'[c] = DOMAIN responseQueue[c] \union {n}
    BY <1>1, Indices
<1>3. Node(n, c) \notin Nodes(responseQueue) /\
      Nodes(responseQueue') = Nodes(responseQueue) \union {Node(n, c)}
    <2> DEFINE Q == responseQueue
               R == responseQueue'
    <2>1. /\ n \notin DOMAIN Q[c]
          /\ DOMAIN R[c] = DOMAIN Q[c] \union {n}
          /\ \A d \in Connections \ {c} : R[d] = Q[d]
        BY <1>1, <1>2
    <2> HIDE DEF Q, R
    <2>2. Node(n, c) \notin Nodes(Q) /\ Nodes(R) = Nodes(Q) \union {Node(n, c)}
        BY <2>1, NodeAdded
    <2> QED
        BY <2>2 DEF Q, R
<1>4. Node(n, c)[1] = "response queue"
    BY DEF Node
<1>5. InResponseQueue = Nodes(responseQueue) /\ InResponseQueue' = Nodes(responseQueue')
    BY DEF InResponseQueue, Nodes
<1> QED
    BY <1>3, <1>4, <1>5

LEMMA ResponseTaken ==
    ASSUME TypeOK, NEW c \in Connections, responseQueue[c] # <<>>,
           responseQueue' = [responseQueue EXCEPT ![c] = Tail(@)]
    PROVE  \E x \in InResponseQueue : InResponseQueue' = InResponseQueue \ {x}
<1>1. /\ responseQueue[c] \in Seq(Messages)
      /\ responseQueue'[c] = Tail(responseQueue[c])
      /\ \A d \in Connections \ {c} : responseQueue'[d] = responseQueue[d]
    BY DEF TypeOK
<1>2. PICK n \in DOMAIN responseQueue[c] :
         DOMAIN responseQueue'[c] = DOMAIN responseQueue[c] \ {n}
    BY <1>1, Indices
<1>3. Node(n, c) \in Nodes(responseQueue) /\
      Nodes(responseQueue') = Nodes(responseQueue) \ {Node(n, c)}
    <2> DEFINE Q == responseQueue
               R == responseQueue'
    <2>1. /\ n \in DOMAIN Q[c]
          /\ DOMAIN R[c] = DOMAIN Q[c] \ {n}
          /\ \A d \in Connections \ {c} : R[d] = Q[d]
        BY <1>1, <1>2
    <2>2. c \in Connections
        OBVIOUS
    <2> HIDE DEF Q, R
    <2>3. Node(n, c) \in Nodes(Q) /\ Nodes(R) = Nodes(Q) \ {Node(n, c)}
        BY ONLY <2>1, <2>2, NodeRemoved
    <2> QED
        BY <2>3 DEF Q, R
<1>4. InResponseQueue = Nodes(responseQueue) /\ InResponseQueue' = Nodes(responseQueue')
    BY DEF InResponseQueue, Nodes
<1> QED
    BY <1>3, <1>4

\* A client or a response thread gets a node, or gives it away.
LEMMA ClientNode ==
    ASSUME NEW c \in Connections,
           \A d \in Connections \ {c} : clientPc'[d] = "put" <=> clientPc[d] = "put"
    PROVE  /\ clientPc[c] # "put" /\ clientPc'[c] = "put" =>
                 /\ <<"client", c>> \notin AtClient
                 /\ AtClient' = AtClient \union {<<"client", c>>}
           /\ clientPc[c] = "put" /\ clientPc'[c] # "put" =>
                 /\ <<"client", c>> \in AtClient
                 /\ AtClient' = AtClient \ {<<"client", c>>}
BY DEF AtClient

LEMMA WrittenNode ==
    ASSUME NEW c \in Connections,
           \A d \in Connections \ {c} : rspPc'[d] = "recycle" <=> rspPc[d] = "recycle"
    PROVE  /\ rspPc[c] # "recycle" /\ rspPc'[c] = "recycle" =>
                 /\ <<"written", c>> \notin Written
                 /\ Written' = Written \union {<<"written", c>>}
           /\ rspPc[c] = "recycle" /\ rspPc'[c] # "recycle" =>
                 /\ <<"written", c>> \in Written
                 /\ Written' = Written \ {<<"written", c>>}
BY DEF Written

-----------------------------------------------------------------------------
(* The steps.                                                              *)

StructsInv == IsFiniteSet(InUse) /\ StructsConserved

LEMMA StructsInit == Init => StructsInv
<1> SUFFICES ASSUME Init PROVE StructsInv
    OBVIOUS
<1>1. InCommandQueue = {} /\ AtServer = {} /\ AtClient = {} /\ Written = {}
    BY DEF Init, InCommandQueue, AtServer, AtClient, Written
<1>2. InResponseQueue = {}
    <2>1. \A c \in Connections : DOMAIN responseQueue[c] = {}
        BY DEF Init
    <2>2. \A e : e \notin Nodes(responseQueue)
        BY <2>1, NodesElements
    <2> QED
        BY <2>2 DEF InResponseQueue, Nodes
<1>3. InUse = {}
    BY <1>1, <1>2 DEF InUse
<1> QED
    BY <1>3, FS_EmptySet DEF Init, StructsInv, StructsConserved

\* A step keeps the books when the structs in use change by those allocated
\* less those pooled.
LEMMA StructsStep ==
    ASSUME TypeOK, TypeOK', StructsInv, IsFiniteSet(InUse'),
           NEW k \in Int, NEW l \in Int,
           allocated' = allocated + k, pooled' = pooled + l,
           Cardinality(InUse') = Cardinality(InUse) + (k - l)
    PROVE  StructsInv'
<1> DEFINE a == allocated
           b == allocated'
           p == pooled
           q == pooled'
           n == Cardinality(InUse)
           m == Cardinality(InUse')
<1>1. n \in Nat
    BY FS_CardinalityType DEF StructsInv
<1>2. a \in Nat /\ p \in Nat
    BY DEF TypeOK
<1>3. a = p + n
    BY DEF StructsInv, StructsConserved
<1>4. b = a + k /\ q = p + l /\ m = n + (k - l)
    OBVIOUS
<1> HIDE DEF a, b, p, q, n, m
<1>5. b = q + m
    BY <1>1, <1>2, <1>3, <1>4
<1> QED
    BY <1>5 DEF StructsInv, StructsConserved, b, q, m

\* The same nodes in other places.
LEMMA StructsMoved ==
    ASSUME TypeOK, TypeOK', StructsInv, UNCHANGED <<allocated, pooled>>,
           IsFiniteSet(InUse'), Cardinality(InUse') = Cardinality(InUse)
    PROVE  StructsInv'
<1>1. Cardinality(InUse) \in Nat
    BY FS_CardinalityType DEF StructsInv
<1>2. allocated \in Nat /\ pooled \in Nat
    BY DEF TypeOK
<1>3. /\ allocated' = allocated + 0 /\ pooled' = pooled + 0
      /\ Cardinality(InUse') = Cardinality(InUse) + (0 - 0)
    BY <1>1, <1>2
<1> QED
    BY <1>3, StructsStep

LEMMA StructsSame ==
    ASSUME TypeOK, TypeOK', StructsInv, UNCHANGED <<allocated, pooled>>,
           \/ InUse' = InUse
           \/ \E x \in InUse : \E y :
                 y \notin InUse /\ InUse' = (InUse \ {x}) \union {y}
    PROVE  StructsInv'
<1>1. IsFiniteSet(InUse') /\ Cardinality(InUse') = Cardinality(InUse)
    BY CountSwap DEF StructsInv
<1> QED
    BY <1>1, StructsMoved

\* getCommandCreate: one more in use, from malloc or from the pool.
LEMMA StructsGot ==
    ASSUME TypeOK, TypeOK', StructsInv,
           \/ allocated' = allocated + 1 /\ pooled' = pooled
           \/ pooled' = pooled - 1 /\ allocated' = allocated,
           IsFiniteSet(InUse'), Cardinality(InUse') = Cardinality(InUse) + 1
    PROVE  StructsInv'
<1>1. allocated \in Nat /\ pooled \in Nat
    BY DEF TypeOK
<1>2. CASE allocated' = allocated + 1 /\ pooled' = pooled
    <2>1. pooled' = pooled + 0 /\ 1 = 1 - 0
        BY <1>1, <1>2
    <2> QED
        BY <1>2, <2>1, StructsStep
<1>3. CASE pooled' = pooled - 1 /\ allocated' = allocated
    <2>1. allocated' = allocated + 0 /\ pooled' = pooled + (0 - 1) /\ 1 = 0 - (0 - 1)
        BY <1>1, <1>3
    <2> QED
        BY <2>1, StructsStep
<1> QED
    BY <1>2, <1>3

LEMMA StructsReturned ==
    ASSUME TypeOK, TypeOK', StructsInv, pooled' = pooled + 1, allocated' = allocated,
           NEW x \in InUse, InUse' = InUse \ {x}
    PROVE  StructsInv'
<1>1. IsFiniteSet(InUse') /\ Cardinality(InUse') = Cardinality(InUse) - 1
    BY CountRemove DEF StructsInv
<1>2. Cardinality(InUse) \in Nat
    BY FS_CardinalityType DEF StructsInv
<1>3. allocated \in Nat
    BY DEF TypeOK
<1>4. allocated' = allocated + 0 /\ Cardinality(InUse') = Cardinality(InUse) + (0 - 1)
    BY <1>1, <1>2, <1>3
<1> QED
    BY <1>1, <1>4, StructsStep

\* The server's own structs at its place pc.
HeldAt(pc) ==
    {<<"cmd", q>> : q \in {pc} \intersect {"create", "take", "put", "recycle"}}
    \union {<<"rsp", q>> : q \in {pc} \intersect {"put"}}

LEMMA ServerHolds ==
    /\ \A pc \in {"create", "take", "recycle"} : HeldAt(pc) = {<<"cmd", pc>>}
    /\ HeldAt("put") = {<<"cmd", "put">>, <<"rsp", "put">>}
    /\ \A pc \in {"lock", "waiting", "woken", "drain"} : HeldAt(pc) = {}
BY DEF HeldAt

\* The places a step leaves alone.
LEMMA PlacesSame ==
    /\ UNCHANGED commandQueue => UNCHANGED InCommandQueue
    /\ UNCHANGED responseQueue => UNCHANGED InResponseQueue
    /\ AtServer = HeldAt(serverPc) /\ AtServer' = HeldAt(serverPc')
    /\ UNCHANGED clientPc => UNCHANGED AtClient
    /\ UNCHANGED rspPc => UNCHANGED Written
<1>1. UNCHANGED commandQueue => UNCHANGED InCommandQueue
    BY DEF InCommandQueue
<1>2. UNCHANGED responseQueue => UNCHANGED InResponseQueue
    BY DEF InResponseQueue
<1>3. AtServer = HeldAt(serverPc) /\ AtServer' = HeldAt(serverPc')
    BY DEF AtServer, HeldAt
<1>4. /\ UNCHANGED clientPc => UNCHANGED AtClient
      /\ UNCHANGED rspPc => UNCHANGED Written
    BY DEF AtClient, Written
<1> QED
    BY <1>1, <1>2, <1>3, <1>4

\* The signal of putCommand gives nobody a node and takes none.
LEMMA SignalKeeps ==
    \A pc : /\ Signal(pc) = "recycle" <=> pc = "recycle"
            /\ HeldAt(Signal(pc)) = HeldAt(pc)
BY ServerHolds DEF Signal

LEMMA WrittenKept ==
    ASSUME TypeOK, NEW c, NEW m, PutResponse(c, m)
    PROVE  UNCHANGED Written
<1>1. \A d \in Connections : rspPc'[d] = "recycle" <=> rspPc[d] = "recycle"
    BY SignalKeeps DEF PutResponse, TypeOK
<1> QED
    BY <1>1 DEF Written

LEMMA StructsServer ==
    ASSUME TypeInv, TypeInv', StructsInv, Server PROVE StructsInv'
<1>0. TypeOK /\ TypeOK'
    BY DEF TypeInv
<1>1. UNCHANGED AtClient
    BY PlacesSame DEF Server, ServerLock, ServerRelock, ServerGet, ServerUnlock,
       ServerMalloc, ServerSeePool, ServerTake, ServerTakeNull,
       ServerPutResponse, ServerRecycle, clientVars
<1>2. CASE ServerLock \/ ServerRelock \/ ServerUnlock \/ ServerTakeNull
    <2>1. UNCHANGED <<allocated, pooled, commandQueue, responseQueue, rspPc>>
        BY <1>2 DEF ServerLock, ServerRelock, ServerUnlock, ServerTakeNull,
                    queueVars
    <2>2. HeldAt(serverPc') = HeldAt(serverPc)
        BY <1>2, ServerHolds DEF ServerLock, ServerRelock, ServerUnlock,
                    ServerTakeNull, serverVars
    <2>3. UNCHANGED InUse
        BY <1>1, <2>1, <2>2, PlacesSame DEF InUse
    <2> QED
        BY <1>0, <2>1, <2>3, StructsSame
<1>3. CASE ServerGet
    <2>1. /\ UNCHANGED <<allocated, pooled, responseQueue, rspPc>>
          /\ serverPc = "drain" /\ serverPc' = "create"
          /\ commandQueue # <<>> /\ commandQueue' = Tail(commandQueue)
          /\ commandQueue \in Seq(Commands)
        BY <1>0, <1>3 DEF ServerGet, TypeOK
    <2>2. PICK x \in InCommandQueue : InCommandQueue' = InCommandQueue \ {x}
        BY <2>1, CommandTaken
    <2>3. AtServer = {} /\ AtServer' = {<<"cmd", "create">>}
        BY <2>1, ServerHolds, PlacesSame
    <2>4. x \in InUse /\ <<"cmd", "create">> \notin InUse
        BY <2>3, Tags DEF InUse
    <2>5. InUse' = (InUse \ {x}) \union {<<"cmd", "create">>}
        BY <1>1, <2>1, <2>2, <2>3, PlacesSame, Tags DEF InUse
    <2> QED
        BY <1>0, <2>1, <2>4, <2>5, StructsSame
<1>4. CASE ServerSeePool
    <2>1. /\ UNCHANGED <<allocated, pooled, commandQueue, responseQueue, rspPc>>
          /\ serverPc = "create" /\ serverPc' = "take"
        BY <1>4 DEF ServerSeePool, queueVars
    <2>2. AtServer = {<<"cmd", "create">>} /\ AtServer' = {<<"cmd", "take">>}
        BY <2>1, ServerHolds, PlacesSame
    <2>3. <<"cmd", "create">> \in InUse /\ <<"cmd", "take">> \notin InUse
        BY <2>2, Tags DEF InUse
    <2>4. InUse' = (InUse \ {<<"cmd", "create">>}) \union {<<"cmd", "take">>}
        BY <1>1, <2>1, <2>2, PlacesSame, Tags DEF InUse
    <2> QED
        BY <1>0, <2>1, <2>3, <2>4, StructsSame
<1>5. CASE ServerMalloc \/ ServerTake
    <2> DEFINE before == <<"cmd", serverPc>>
               now == <<"cmd", "put">>
               new == <<"rsp", "put">>
               S == (InUse \ {before}) \union {now}
    <2>1. /\ UNCHANGED <<commandQueue, responseQueue, rspPc>>
          /\ serverPc \in {"create", "take"} /\ serverPc' = "put"
          /\ \/ allocated' = allocated + 1 /\ pooled' = pooled
             \/ pooled' = pooled - 1 /\ allocated' = allocated
        BY <1>5 DEF ServerMalloc, ServerTake
    <2>2. AtServer = {before} /\ AtServer' = {now, new}
        BY <2>1, ServerHolds, PlacesSame
    <2>3. before \in InUse /\ now \notin InUse /\ new \notin S
        BY <2>1, <2>2, Tags DEF InUse
    <2>4. InUse' = S \union {new}
        BY <1>1, <2>1, <2>2, PlacesSame, Tags DEF InUse
    <2>5. IsFiniteSet(S) /\ Cardinality(S) = Cardinality(InUse)
        BY <2>3, CountSwap DEF StructsInv
    <2> HIDE DEF S
    <2>6. IsFiniteSet(InUse') /\ Cardinality(InUse') = Cardinality(InUse) + 1
        BY <2>3, <2>4, <2>5, CountAdd
    <2> QED
        BY <1>0, <2>1, <2>6, StructsGot
<1>6. CASE ServerPutResponse
    <2> DEFINE before == <<"cmd", "put">>
               now == <<"cmd", "recycle">>
               given == <<"rsp", "put">>
               S == (InUse \ {before}) \union {now}
    <2>1. /\ UNCHANGED <<allocated, pooled, commandQueue>>
          /\ serverPc = "put" /\ serverPc' = "recycle"
          /\ PutResponse(cmd.con, Response(cmd))
        BY <1>6 DEF ServerPutResponse
    <2>2. cmd.con \in Connections /\ Response(cmd) \in Messages
        BY <1>0, <2>1, DataTypes DEF TypeInv, CmdInv, TypeOK, Commands
    <2>3. PICK y : /\ y \notin InResponseQueue /\ y[1] = "response queue"
                   /\ InResponseQueue' = InResponseQueue \union {y}
        BY <1>0, <2>1, <2>2, ResponseQueued
    <2>4. UNCHANGED Written
        BY <1>0, <2>1, WrittenKept
    <2>5. AtServer = {before, given} /\ AtServer' = {now}
        BY <2>1, ServerHolds, PlacesSame
    <2>6. /\ before \in InUse /\ now \notin InUse
          /\ given \in S /\ y \notin S
        <3>1. before # now /\ before # given /\ now # given
            OBVIOUS
        <3>2. now[1] = "cmd"
            OBVIOUS
        <3> HIDE DEF before, now, given
        <3>3. before \in InUse /\ given \in InUse
            BY <2>5 DEF InUse
        <3>4. now \notin InUse
            BY <2>5, <3>1, <3>2, Tags DEF InUse
        <3>5. y \notin InUse /\ y # now
            BY <2>3, <3>2, Tags DEF InUse
        <3> QED
            BY <3>1, <3>3, <3>4, <3>5
    <2>7. InUse' = (S \ {given}) \union {y}
        BY <1>1, <2>1, <2>3, <2>4, <2>5, PlacesSame, Tags DEF InUse
    <2>8. IsFiniteSet(S) /\ Cardinality(S) = Cardinality(InUse)
        BY <2>6, CountSwap DEF StructsInv
    <2> HIDE DEF S
    <2>9. IsFiniteSet(InUse') /\ Cardinality(InUse') = Cardinality(InUse)
        BY <2>6, <2>7, <2>8, CountSwap
    <2> QED
        BY <1>0, <2>1, <2>9, StructsMoved
<1>7. CASE ServerRecycle
    <2>1. /\ UNCHANGED <<allocated, commandQueue, responseQueue, rspPc>>
          /\ serverPc = "recycle" /\ serverPc' = "drain" /\ pooled' = pooled + 1
        BY <1>7 DEF ServerRecycle, Recycle
    <2>2. AtServer = {<<"cmd", "recycle">>} /\ AtServer' = {}
        BY <2>1, ServerHolds, PlacesSame
    <2>3. <<"cmd", "recycle">> \in InUse
        BY <2>2 DEF InUse
    <2>4. InUse' = InUse \ {<<"cmd", "recycle">>}
        BY <1>1, <2>1, <2>2, PlacesSame, Tags DEF InUse
    <2> QED
        BY <1>0, <2>1, <2>3, <2>4, StructsReturned
<1> QED
    BY <1>2, <1>3, <1>4, <1>5, <1>6, <1>7 DEF Server

LEMMA StructsClient ==
    ASSUME NEW c \in Connections, TypeInv, TypeInv', StructsInv, Client(c)
    PROVE  StructsInv'
<1> DEFINE node == <<"client", c>>
<1>0. TypeOK /\ TypeOK'
    BY DEF TypeInv
<1>1. CASE \/ ClientLockLine(c) \/ ClientUnlockLine(c) \/ ClientSeePool(c)
           \/ ClientTakeNull(c)
    <2>1. /\ UNCHANGED <<allocated, pooled, commandQueue, responseQueue, rspPc,
                         serverPc>>
          /\ \A d \in Connections : clientPc'[d] = "put" <=> clientPc[d] = "put"
        <3>1. CASE ClientLockLine(c)
            BY <1>0, <3>1 DEF ClientLockLine, AfterScan, TypeOK, queueVars, serverVars
        <3>2. CASE ClientUnlockLine(c)
            BY <1>0, <3>2 DEF ClientUnlockLine, TypeOK, queueVars, serverVars
        <3>3. CASE ClientSeePool(c)
            BY <1>0, <3>3 DEF ClientSeePool, TypeOK, queueVars, serverVars
        <3>4. CASE ClientTakeNull(c)
            BY <3>4 DEF ClientTakeNull, queueVars, serverVars, clientVars
        <3> QED
            BY <1>1, <3>1, <3>2, <3>3, <3>4
    <2>2. UNCHANGED AtClient
        BY <2>1 DEF AtClient
    <2>3. UNCHANGED InUse
        BY <2>1, <2>2, PlacesSame DEF InUse
    <2> QED
        BY <1>0, <2>1, <2>3, StructsSame
<1>2. CASE ClientMalloc(c) \/ ClientTake(c)
    <2>1. /\ UNCHANGED <<commandQueue, responseQueue, rspPc, serverPc>>
          /\ \/ allocated' = allocated + 1 /\ pooled' = pooled
             \/ pooled' = pooled - 1 /\ allocated' = allocated
          /\ clientPc[c] # "put" /\ clientPc'[c] = "put"
          /\ \A d \in Connections \ {c} :
                clientPc'[d] = "put" <=> clientPc[d] = "put"
        BY SMTT(30), <1>0, <1>2 DEF ClientMalloc, ClientTake, TypeOK, serverVars
    <2>2. node \notin AtClient /\ AtClient' = AtClient \union {node}
        BY <2>1, ClientNode
    <2>3. node \notin InUse
        BY <2>2, Tags DEF InUse
    <2>4. InUse' = InUse \union {node}
        BY <2>1, <2>2, PlacesSame DEF InUse
    <2>5. IsFiniteSet(InUse') /\ Cardinality(InUse') = Cardinality(InUse) + 1
        BY <2>3, <2>4, CountAdd DEF StructsInv
    <2> QED
        BY <1>0, <2>1, <2>5, StructsGot
<1>3. CASE ClientPutGreeting(c) \/ ClientPutAsk(c)
    <2>1. PICK m \in Messages : PutResponse(c, m)
        BY <1>3, DataTypes DEF ClientPutGreeting, ClientPutAsk
    <2>2. /\ UNCHANGED <<allocated, pooled, commandQueue, serverPc>>
          /\ clientPc[c] = "put" /\ clientPc'[c] # "put"
          /\ \A d \in Connections \ {c} :
                clientPc'[d] = "put" <=> clientPc[d] = "put"
        <3>1. CASE ClientPutGreeting(c)
            BY <1>0, <3>1 DEF ClientPutGreeting, TypeOK, serverVars
        <3>2. CASE ClientPutAsk(c)
            BY <1>0, <3>2 DEF ClientPutAsk, TypeOK, serverVars
        <3> QED
            BY <1>3, <3>1, <3>2
    <2>3. node \in AtClient /\ AtClient' = AtClient \ {node}
        BY <2>2, ClientNode
    <2>4. PICK y : /\ y \notin InResponseQueue /\ y[1] = "response queue"
                   /\ InResponseQueue' = InResponseQueue \union {y}
        BY <1>0, <2>1, ResponseQueued
    <2>5. UNCHANGED Written
        BY <1>0, <2>1, WrittenKept
    <2>6. node \in InUse /\ y \notin InUse
        BY <2>3, <2>4, Tags DEF InUse
    <2>7. InUse' = (InUse \ {node}) \union {y}
        BY <2>2, <2>3, <2>4, <2>5, PlacesSame, Tags DEF InUse
    <2> QED
        BY <1>0, <2>2, <2>6, <2>7, StructsSame
<1>4. CASE ClientPutCommand(c)
    <2> DEFINE command == [con |-> c, id |-> issued[c] - todo[c] + 1]
    <2>1. command \in Commands
        <3>1. todo[c] \in Nat /\ issued[c] \in Nat /\ todo[c] <= issued[c]
            BY DEF TypeInv, TypeOK, PlaceInv
        <3>2. issued[c] - todo[c] + 1 \in Nat \ {0}
            BY <3>1
        <3> QED
            BY <3>2 DEF Commands
    <2>2. /\ UNCHANGED <<allocated, pooled, responseQueue, rspPc>>
          /\ commandQueue' = Append(commandQueue, command)
          /\ serverPc' = Signal(serverPc)
          /\ clientPc[c] = "put" /\ clientPc'[c] # "put"
          /\ \A d \in Connections \ {c} :
                clientPc'[d] = "put" <=> clientPc[d] = "put"
          /\ commandQueue \in Seq(Commands)
        BY <1>0, <1>4 DEF ClientPutCommand, PutCommand, AfterScan, TypeOK
    <2> HIDE DEF command
    <2>3. node \in AtClient /\ AtClient' = AtClient \ {node}
        BY <2>2, ClientNode
    <2>4. PICK y : /\ y \notin InCommandQueue /\ y[1] = "command queue"
                   /\ InCommandQueue' = InCommandQueue \union {y}
        BY <2>1, <2>2, CommandQueued
    <2>5. UNCHANGED AtServer
        BY <2>2, SignalKeeps, PlacesSame
    <2>6. node \in InUse /\ y \notin InUse
        BY <2>3, <2>4, Tags DEF InUse
    <2>7. InUse' = (InUse \ {node}) \union {y}
        BY <2>2, <2>3, <2>4, <2>5, PlacesSame, Tags DEF InUse
    <2> QED
        BY <1>0, <2>2, <2>6, <2>7, StructsSame
<1> QED
    BY <1>1, <1>2, <1>3, <1>4 DEF Client

LEMMA StructsRsp ==
    ASSUME NEW c \in Connections, TypeInv, TypeInv', StructsInv, Rsp(c)
    PROVE  StructsInv'
<1> DEFINE node == <<"written", c>>
<1>0. TypeOK /\ TypeOK'
    BY DEF TypeInv
<1>1. CASE RspLock(c) \/ RspRelock(c) \/ RspLockLine(c) \/ RspUnlock(c)
    <2>1. /\ UNCHANGED <<allocated, pooled, commandQueue, responseQueue,
                         serverPc, clientPc>>
          /\ \A d \in Connections : rspPc'[d] = "recycle" <=> rspPc[d] = "recycle"
        <3>1. CASE RspLock(c)
            BY SMTT(30), <1>0, <3>1 DEF RspLock, TypeOK, queueVars, serverVars, clientVars
        <3>2. CASE RspRelock(c)
            BY <1>0, <3>2 DEF RspRelock, TypeOK, queueVars, serverVars, clientVars
        <3>3. CASE RspLockLine(c)
            BY <1>0, <3>3 DEF RspLockLine, TypeOK, queueVars, serverVars, clientVars
        <3>4. CASE RspUnlock(c)
            BY <1>0, <3>4 DEF RspUnlock, TypeOK, queueVars, serverVars, clientVars
        <3> QED
            BY <1>1, <3>1, <3>2, <3>3, <3>4
    <2>2. UNCHANGED Written
        BY <2>1 DEF Written
    <2>3. UNCHANGED InUse
        BY <2>1, <2>2, PlacesSame DEF InUse
    <2> QED
        BY <1>0, <2>1, <2>3, StructsSame
<1>2. CASE RspWrite(c)
    <2>1. /\ UNCHANGED <<allocated, pooled, commandQueue, serverPc, clientPc>>
          /\ responseQueue[c] # <<>>
          /\ responseQueue' = [responseQueue EXCEPT ![c] = Tail(@)]
          /\ rspPc[c] # "recycle" /\ rspPc'[c] = "recycle"
          /\ \A d \in Connections \ {c} :
                rspPc'[d] = "recycle" <=> rspPc[d] = "recycle"
        BY <1>0, <1>2 DEF RspWrite, TypeOK, serverVars, clientVars
    <2>2. PICK x \in InResponseQueue : InResponseQueue' = InResponseQueue \ {x}
        BY <1>0, <2>1, ResponseTaken
    <2>3. node \notin Written /\ Written' = Written \union {node}
        BY <2>1, WrittenNode
    <2>4. x \in InUse /\ node \notin InUse
        BY <2>3, Tags DEF InUse
    <2>5. InUse' = (InUse \ {x}) \union {node}
        BY <2>1, <2>2, <2>3, PlacesSame, Tags DEF InUse
    <2> QED
        BY <1>0, <2>1, <2>4, <2>5, StructsSame
<1>3. CASE RspRecycle(c)
    <2>1. /\ UNCHANGED <<allocated, commandQueue, responseQueue, serverPc, clientPc>>
          /\ pooled' = pooled + 1
          /\ rspPc[c] = "recycle" /\ rspPc'[c] # "recycle"
          /\ \A d \in Connections \ {c} :
                rspPc'[d] = "recycle" <=> rspPc[d] = "recycle"
        BY <1>0, <1>3 DEF RspRecycle, Recycle, TypeOK, serverVars, clientVars
    <2>2. node \in Written /\ Written' = Written \ {node}
        BY <2>1, WrittenNode
    <2>3. node \in InUse /\ InUse' = InUse \ {node}
        BY <2>1, <2>2, PlacesSame, Tags DEF InUse
    <2> QED
        BY <1>0, <2>1, <2>3, StructsReturned
<1> QED
    BY <1>1, <1>2, <1>3 DEF Rsp

LEMMA StructsEnvironment ==
    ASSUME TypeInv, TypeInv', StructsInv, Environment PROVE StructsInv'
<1>0. TypeOK /\ TypeOK'
    BY DEF TypeInv
<1>1. UNCHANGED <<allocated, pooled, commandQueue, responseQueue>>
    BY DEF Environment, ServerSpuriousWake, RspSpuriousWake, Accept, ClientKey,
           ClientAsk, queueVars
<1>2. HeldAt(serverPc') = HeldAt(serverPc)
    BY ServerHolds DEF Environment, ServerSpuriousWake, RspSpuriousWake, Accept,
                       ClientKey, ClientAsk, serverVars
<1>3. /\ \A c \in Connections : clientPc'[c] = "put" <=> clientPc[c] = "put"
      /\ \A c \in Connections : rspPc'[c] = "recycle" <=> rspPc[c] = "recycle"
    <2>1. CASE ServerSpuriousWake
        BY <2>1 DEF ServerSpuriousWake, clientVars
    <2>2. ASSUME NEW c \in Connections, Accept(c)
          PROVE  /\ \A d \in Connections : clientPc'[d] = "put" <=> clientPc[d] = "put"
                 /\ \A d \in Connections :
                       rspPc'[d] = "recycle" <=> rspPc[d] = "recycle"
        <3>1. rspPc[c] = "none"
            BY <2>2 DEF Accept, TypeInv, PlaceInv
        <3> QED
            BY <1>0, <2>2, <3>1 DEF Accept, TypeOK
    <2>3. ASSUME NEW c \in Connections, ClientKey(c) \/ ClientAsk(c)
          PROVE  /\ \A d \in Connections : clientPc'[d] = "put" <=> clientPc[d] = "put"
                 /\ UNCHANGED rspPc
        <3>1. CASE ClientKey(c)
            BY <1>0, <3>1 DEF ClientKey, TypeOK
        <3>2. CASE ClientAsk(c)
            BY <1>0, <3>2 DEF ClientAsk, TypeOK
        <3> QED
            BY <2>3, <3>1, <3>2
    <2>4. ASSUME NEW c \in Connections, RspSpuriousWake(c)
          PROVE  /\ UNCHANGED clientPc
                 /\ \A d \in Connections :
                       rspPc'[d] = "recycle" <=> rspPc[d] = "recycle"
        BY <1>0, <2>4 DEF RspSpuriousWake, TypeOK, clientVars
    <2> QED
        BY <2>1, <2>2, <2>3, <2>4 DEF Environment
<1>4. UNCHANGED AtClient /\ UNCHANGED Written
    BY <1>3 DEF AtClient, Written
<1>5. UNCHANGED InUse
    BY <1>1, <1>2, <1>4, PlacesSame DEF InUse
<1> QED
    BY <1>0, <1>1, <1>5, StructsSame

LEMMA StructsNext == TypeInv /\ StructsInv /\ [Next]_vars => StructsInv'
<1> SUFFICES ASSUME TypeInv, StructsInv, [Next]_vars PROVE StructsInv'
    OBVIOUS
<1>1. TypeInv'
    BY TypeNext
<1>2. CASE UNCHANGED vars
    <2>1. UNCHANGED InUse /\ UNCHANGED <<allocated, pooled>>
        BY <1>2, PlacesSame DEF vars, queueVars, serverVars, clientVars, InUse
    <2> QED
        BY <1>1, <2>1, StructsSame DEF TypeInv
<1>3. CASE Next
    BY <1>1, <1>3, StructsServer, StructsClient, StructsRsp, StructsEnvironment
       DEF Next
<1> QED
    BY <1>2, <1>3

\* No thread loses a struct or returns it twice: what malloc gave is in use in
\* one place or in the pool (CommandQueue.c:31-94, hello.c:897, 926-957).
THEOREM StructsKept == Spec => []StructsConserved
<1>1. Init => TypeInv /\ StructsInv
    BY TypeInit, StructsInit
<1>2. TypeInv /\ StructsInv /\ [Next]_vars => TypeInv' /\ StructsInv'
    BY TypeNext, StructsNext
<1>3. StructsInv => StructsConserved
    BY DEF StructsInv
<1> QED
    BY <1>1, <1>2, <1>3, PTL DEF Spec


-----------------------------------------------------------------------------
(* Sizes.                                                                  *)

LEMMA SizeOfUnion ==
    ASSUME NEW S, IsFiniteSet(S), NEW m \in Nat, Cardinality(S) <= m,
           NEW T, IsFiniteSet(T), NEW n \in Nat, Cardinality(T) <= n
    PROVE  IsFiniteSet(S \union T) /\ Cardinality(S \union T) <= m + n
<1>1. IsFiniteSet(S \union T) /\ Cardinality(S \union T) =
         Cardinality(S) + Cardinality(T) - Cardinality(S \cap T)
    BY FS_Union
<1>2. IsFiniteSet(S \cap T)
    BY FS_Intersection
<1>3. Cardinality(S) \in Nat /\ Cardinality(T) \in Nat /\ Cardinality(S \cap T) \in Nat
    BY <1>2, FS_CardinalityType
<1> QED
    BY <1>1, <1>3

LEMMA SizeOfOne ==
    ASSUME NEW x, NEW n \in Nat, NEW P \in BOOLEAN, P => n > 0
    PROVE  /\ IsFiniteSet(IF P THEN {x} ELSE {})
           /\ Cardinality(IF P THEN {x} ELSE {}) <= n
<1>1. IsFiniteSet({x}) /\ Cardinality({x}) = 1
    BY FS_Singleton
<1>2. IsFiniteSet({}) /\ Cardinality({}) = 0
    BY FS_EmptySet
<1>3. CASE P
    BY <1>1, <1>3
<1>4. CASE ~P
    BY <1>2, <1>4
<1> QED
    BY <1>3, <1>4

\* A union of sets of m elements at most.
LEMMA SizeOfFamily ==
    ASSUME NEW C, IsFiniteSet(C), NEW m \in Nat, NEW F,
           \A c \in C : IsFiniteSet(F[c]) /\ Cardinality(F[c]) <= m
    PROVE  /\ IsFiniteSet(UNION {F[c] : c \in C})
           /\ Cardinality(UNION {F[c] : c \in C}) <= Cardinality(C) * m
<1> DEFINE U == UNION {F[c] : c \in C}
           Listed(c) == CHOOSE h : h \in Bijection(1..Cardinality(F[c]), F[c])
           Owner(e) == CHOOSE c \in C : e \in F[c]
           Place(e) == CHOOSE n \in 1..m : Listed(Owner(e))[n] = e
           T == C \X (1..m)
           f == [e \in U |-> <<Owner(e), Place(e)>>]
<1>1. ASSUME NEW c \in C, NEW e \in F[c]
      PROVE  \E n \in 1..m : Listed(c)[n] = e
    <2>1. Cardinality(F[c]) \in Nat /\ ExistsBijection(1..Cardinality(F[c]), F[c])
        BY FS_CardinalityType
    <2>2. Listed(c) \in Bijection(1..Cardinality(F[c]), F[c])
        BY <2>1 DEF ExistsBijection
    <2>3. \E n \in 1..Cardinality(F[c]) : Listed(c)[n] = e
        BY <2>2 DEF Bijection, Surjection
    <2>4. Cardinality(F[c]) <= m
        OBVIOUS
    <2> HIDE DEF Listed
    <2> QED
        BY <2>1, <2>3, <2>4
<1> HIDE DEF Listed
<1>2. ASSUME NEW e \in U PROVE Owner(e) \in C /\ e \in F[Owner(e)]
    <2>1. \E c \in C : e \in F[c]
        OBVIOUS
    <2> QED
        BY <2>1
<1> HIDE DEF Owner
<1>3. ASSUME NEW e \in U PROVE Place(e) \in 1..m /\ Listed(Owner(e))[Place(e)] = e
    <2>1. \E n \in 1..m : Listed(Owner(e))[n] = e
        BY <1>1, <1>2
    <2> QED
        BY <2>1
<1> HIDE DEF Place
<1>4. f \in Injection(U, T)
    <2>1. \A e \in U : <<Owner(e), Place(e)>> \in T
        BY <1>2, <1>3
    <2>2. f \in [U -> T]
        BY <2>1
    <2>3. ASSUME NEW d \in U, NEW e \in U, f[d] = f[e] PROVE d = e
        <3>1. Owner(d) = Owner(e) /\ Place(d) = Place(e)
            BY <2>3
        <3> QED
            BY <1>3, <3>1
    <2> QED
        BY <2>2, <2>3 DEF Injection, IsInjective
<1>5. IsFiniteSet(1..m) /\ Cardinality(1..m) = m
    BY FS_Interval
<1>6. IsFiniteSet(T) /\ Cardinality(T) = Cardinality(C) * m
    BY <1>5, FS_Product
<1> HIDE DEF f, T
<1>7. IsFiniteSet(U) /\ Cardinality(U) <= Cardinality(T)
    BY <1>4, <1>6, FS_Injection
<1> QED
    BY <1>6, <1>7

-----------------------------------------------------------------------------
(* The commands of one connection on the command queue.                    *)

By(q, c) == {i \in DOMAIN q : q[i].con = c}
CountBy(q, c) == Cardinality(By(q, c))

LEMMA CountByType ==
    ASSUME NEW T, NEW q \in Seq(T), NEW c
    PROVE  IsFiniteSet(By(q, c)) /\ CountBy(q, c) \in Nat
<1>1. Len(q) \in Nat /\ DOMAIN q = 1..Len(q)
    OBVIOUS
<1>2. IsFiniteSet(DOMAIN q)
    BY <1>1, FS_Interval
<1>3. IsFiniteSet(By(q, c))
    BY <1>2, FS_Subset DEF By
<1> QED
    BY <1>3, FS_CardinalityType DEF CountBy

LEMMA CountByAppend ==
    ASSUME NEW T, NEW q \in Seq(T), NEW e \in T, NEW c
    PROVE  CountBy(Append(q, e), c) = CountBy(q, c) + (IF e.con = c THEN 1 ELSE 0)
<1> DEFINE n == Len(q) + 1
           S == By(q, c)
<1>1. /\ n \notin DOMAIN q /\ DOMAIN Append(q, e) = DOMAIN q \union {n}
      /\ \A i \in DOMAIN q : Append(q, e)[i] = q[i]
      /\ Append(q, e)[n] = e
    BY Indices, AppendProperties
<1>2. By(Append(q, e), c) = IF e.con = c THEN S \union {n} ELSE S
    BY <1>1 DEF By
<1>3. n \notin S
    BY <1>1 DEF By
<1>4. IsFiniteSet(S) /\ Cardinality(S) \in Nat
    BY CountByType DEF CountBy
<1> HIDE DEF S, n
<1>5. IsFiniteSet(S \union {n}) /\ Cardinality(S \union {n}) = Cardinality(S) + 1
    BY <1>3, <1>4, CountAdd
<1> QED
    BY <1>2, <1>4, <1>5 DEF CountBy, S

LEMMA CountByTail ==
    ASSUME NEW T, NEW q \in Seq(T), q # <<>>, NEW c
    PROVE  CountBy(Tail(q), c) = CountBy(q, c) - (IF Head(q).con = c THEN 1 ELSE 0)
<1> DEFINE S == By(Tail(q), c)
           R == By(q, c)
           f == [i \in S |-> i + 1]
<1>1. /\ 1 \in DOMAIN q /\ Head(q) = q[1]
      /\ \A i \in DOMAIN Tail(q) :
            i \in Nat /\ i + 1 \in DOMAIN q \ {1} /\ Tail(q)[i] = q[i + 1]
    BY Removed
<1>2. \A j \in DOMAIN q : j \in Nat /\ (j # 1 => j - 1 \in DOMAIN Tail(q))
    OBVIOUS
<1>3. f \in Bijection(S, R \ {1})
    <2>1. \A i \in S : i \in Nat /\ i + 1 \in R \ {1}
        BY <1>1 DEF By
    <2>2. ASSUME NEW j \in R \ {1} PROVE \E i \in S : f[i] = j
        <3>1. j \in DOMAIN q /\ j # 1 /\ j \in Nat /\ q[j].con = c
            BY <1>2 DEF By
        <3>2. j - 1 \in DOMAIN Tail(q) /\ (j - 1) + 1 = j
            BY <1>2, <3>1
        <3>3. Tail(q)[j - 1].con = c
            BY <1>1, <3>1, <3>2
        <3>4. j - 1 \in S
            BY <3>2, <3>3 DEF By
        <3> HIDE DEF S
        <3> QED
            BY <3>2, <3>4
    <2> HIDE DEF S, R
    <2>3. f \in [S -> R \ {1}]
        BY <2>1
    <2>4. \A i, j \in S : f[i] = f[j] => i = j
        BY <2>1
    <2> QED
        BY <2>2, <2>3, <2>4 DEF Bijection, Injection, Surjection, IsInjective
<1>4. IsFiniteSet(S) /\ IsFiniteSet(R) /\ Cardinality(R) \in Nat
    <2>1. Tail(q) \in Seq(T)
        BY QueueTypes
    <2> QED
        BY <2>1, CountByType DEF CountBy
<1>5. 1 \in R <=> Head(q).con = c
    BY <1>1 DEF By
<1> HIDE DEF S, R, f
<1>6. Cardinality(R \ {1}) = Cardinality(S)
    BY <1>3, <1>4, FS_Bijection DEF ExistsBijection
<1>7. CASE 1 \in R
    BY <1>4, <1>5, <1>6, <1>7, CountRemove DEF CountBy, S, R
<1>8. CASE 1 \notin R
    <2>1. R \ {1} = R
        BY <1>8
    <2>2. Cardinality(R) = Cardinality(S)
        BY <1>6, <2>1
    <2> QED
        BY <1>4, <1>5, <1>8, <2>2 DEF CountBy, S, R
<1> QED
    BY <1>7, <1>8

-----------------------------------------------------------------------------
(* What is on its way on a connection: the inductive invariant of the bound. *)

\* The messages of c the client thread has still to put on a queue.
ToHand(c) ==
    IF purpose[c] = "command" THEN todo[c]
    ELSE IF clientPc[c] \in {"none", "create", "take", "put"} THEN 1 ELSE 0
AtHand(c) == IF Served(c) THEN 1 ELSE 0
Replies(c) == Len(responseQueue[c])

\* The greeting, the terminal types asked for and the commands not yet answered
\* leave room for every message of c on its way.
Load(c) == CountBy(commandQueue, c) + Replies(c) + AtHand(c) + ToHand(c)
Room(c) == (IF greeted[c] THEN 0 ELSE 1) + asked[c] + Outstanding(c)

RoomAt(c) ==
    /\ Load(c) <= Room(c)
    /\ asked[c] <= MaxAsks /\ Outstanding(c) <= MaxOutstanding
    /\ rspPc[c] = "recycle" => greeted[c]
RoomInv == \A c \in Connections : RoomAt(c)

LEMMA LoadTypes ==
    ASSUME TypeOK, NEW c \in Connections
    PROVE  /\ CountBy(commandQueue, c) \in Nat /\ Replies(c) \in Nat
           /\ AtHand(c) \in Nat /\ ToHand(c) \in Nat
           /\ Room(c) \in Int /\ Outstanding(c) \in Int /\ asked[c] \in Nat
<1>1. CountBy(commandQueue, c) \in Nat
    BY CountByType DEF TypeOK
<1>2. Replies(c) \in Nat
    BY DEF TypeOK, Replies
<1>3. AtHand(c) \in Nat /\ ToHand(c) \in Nat /\ asked[c] \in Nat
    BY DEF TypeOK, AtHand, ToHand
<1>4. Len(answers[c]) \in Nat /\ issued[c] \in Nat
    BY DEF TypeOK
<1>5. Outstanding(c) \in Int
    BY <1>4 DEF Outstanding
<1>6. Room(c) \in Int
    BY <1>3, <1>5 DEF Room
<1> QED
    BY <1>1, <1>2, <1>3, <1>5, <1>6

LEMMA RoomInit == Init => RoomInv
<1> SUFFICES ASSUME Init, NEW c \in Connections PROVE RoomAt(c)
    BY DEF RoomInv
<1>1. By(<<>>, c) = {}
    BY DEF By
<1>2. CountBy(commandQueue, c) = 0
    BY <1>1, FS_EmptySet DEF Init, CountBy
<1>3. Replies(c) = 0 /\ AtHand(c) = 0 /\ ToHand(c) = 1
    BY DEF Init, Replies, AtHand, ToHand, Served
<1>4. asked[c] = 0 /\ ~greeted[c] /\ rspPc[c] = "none" /\ Outstanding(c) = 0
    BY DEF Init, Outstanding
<1> QED
    BY <1>2, <1>3, <1>4, FlowAssumption DEF RoomAt, Load, Room

\* The room of a connection is not touched.
LEMMA RoomKept ==
    ASSUME NEW c \in Connections, RoomAt(c), Load(c)' = Load(c),
           UNCHANGED <<greeted[c], asked[c], issued[c], answers[c]>>,
           (rspPc[c])' = "recycle" => rspPc[c] = "recycle"
    PROVE  RoomAt(c)'
<1>1. Outstanding(c)' = Outstanding(c)
    BY DEF Outstanding
<1>2. Room(c)' = Room(c)
    BY <1>1 DEF Room
<1> QED
    BY <1>1, <1>2 DEF RoomAt

\* Nothing of c moves.
LEMMA RoomSame ==
    ASSUME TypeOK, NEW c \in Connections, RoomAt(c),
           CountBy(commandQueue, c)' = CountBy(commandQueue, c),
           Replies(c)' = Replies(c), AtHand(c)' = AtHand(c), ToHand(c)' = ToHand(c),
           UNCHANGED <<greeted[c], asked[c], issued[c], answers[c]>>,
           (rspPc[c])' = "recycle" => rspPc[c] = "recycle"
    PROVE  RoomAt(c)'
<1>1. Load(c)' = Load(c)
    BY DEF Load
<1> QED
    BY <1>1, RoomKept

-----------------------------------------------------------------------------
(* The steps.                                                              *)

\* putCommand on the response queue of c.
LEMMA RoomReply ==
    ASSUME TypeOK, NEW c \in Connections, NEW m \in Messages, PutResponse(c, m)
    PROVE  /\ Replies(c)' = Replies(c) + 1
           /\ \A d \in Connections \ {c} : Replies(d)' = Replies(d)
           /\ \A d \in Connections : (rspPc[d])' = "recycle" => rspPc[d] = "recycle"
<1>1. responseQueue[c] \in Seq(Messages)
    BY DEF TypeOK
<1>2. /\ responseQueue'[c] = Append(responseQueue[c], m)
      /\ \A d \in Connections \ {c} : responseQueue'[d] = responseQueue[d]
      /\ rspPc' = [rspPc EXCEPT ![c] = Signal(@)]
    BY DEF TypeOK, PutResponse
<1>3. Len(responseQueue'[c]) = Len(responseQueue[c]) + 1
    BY <1>1, <1>2
<1>4. \A d \in Connections : (rspPc[d])' = "recycle" => rspPc[d] = "recycle"
    BY <1>2, SignalKeeps DEF TypeOK
<1> QED
    BY <1>2, <1>3, <1>4 DEF Replies

LEMMA RoomServer ==
    ASSUME TypeInv, RoomInv, Server PROVE RoomInv'
<1>0. TypeOK
    BY DEF TypeInv
<1> SUFFICES ASSUME NEW d \in Connections PROVE RoomAt(d)'
    BY DEF RoomInv
<1>1. RoomAt(d)
    BY DEF RoomInv
<1>2. UNCHANGED <<greeted[d], asked[d], issued[d], answers[d]>> /\ ToHand(d)' = ToHand(d)
    BY DEF Server, ServerLock, ServerRelock, ServerGet, ServerUnlock, ServerMalloc,
           ServerSeePool, ServerTake, ServerTakeNull, ServerPutResponse,
           ServerRecycle, clientVars, userVars, ToHand
<1>3. CASE \/ ServerLock \/ ServerRelock \/ ServerUnlock \/ ServerMalloc
           \/ ServerSeePool \/ ServerTake \/ ServerTakeNull \/ ServerRecycle
    <2>1. UNCHANGED <<commandQueue, responseQueue, rspPc>>
        BY <1>3 DEF ServerLock, ServerRelock, ServerUnlock, ServerMalloc,
           ServerSeePool, ServerTake, ServerTakeNull, ServerRecycle, queueVars
    <2>2. Served(d)' <=> Served(d)
        BY <1>3 DEF ServerLock, ServerRelock, ServerUnlock, ServerMalloc,
           ServerSeePool, ServerTake, ServerTakeNull, ServerRecycle, serverVars, Served
    <2>3. /\ CountBy(commandQueue, d)' = CountBy(commandQueue, d)
          /\ Replies(d)' = Replies(d) /\ AtHand(d)' = AtHand(d)
        BY <2>1, <2>2 DEF Replies, AtHand
    <2> QED
        BY <1>0, <1>1, <1>2, <2>1, <2>3, RoomSame
<1>4. CASE ServerGet
    <2> DEFINE n == IF Head(commandQueue).con = d THEN 1 ELSE 0
    <2>1. /\ commandQueue \in Seq(Commands) /\ commandQueue # <<>>
          /\ commandQueue' = Tail(commandQueue) /\ UNCHANGED <<responseQueue, rspPc>>
          /\ serverPc = "drain" /\ serverPc' = "create" /\ cmd' = Head(commandQueue)
        BY <1>0, <1>4 DEF ServerGet, TypeOK
    <2>2. CountBy(commandQueue, d)' = CountBy(commandQueue, d) - n
        BY <2>1, CountByTail
    <2>3. AtHand(d) = 0 /\ AtHand(d)' = n /\ Replies(d)' = Replies(d)
        BY <2>1 DEF AtHand, Served, Replies
    <2>4. n \in Int
        OBVIOUS
    <2> HIDE DEF n
    <2>5. Load(d)' = Load(d)
        BY <1>0, <1>2, <2>2, <2>3, <2>4, LoadTypes DEF Load
    <2> QED
        BY <1>1, <1>2, <2>1, <2>5, RoomKept
<1>5. CASE ServerPutResponse
    <2>1. /\ UNCHANGED <<commandQueue, cmd>>
          /\ serverPc = "put" /\ serverPc' = "recycle"
          /\ PutResponse(cmd.con, Response(cmd))
        BY <1>5 DEF ServerPutResponse
    <2>2. PICK c \in Connections : c = cmd.con
        BY <2>1 DEF TypeInv, CmdInv, TypeOK, Commands
    <2>3. /\ Replies(c)' = Replies(c) + 1
          /\ \A x \in Connections \ {c} : Replies(x)' = Replies(x)
          /\ \A x \in Connections : (rspPc[x])' = "recycle" => rspPc[x] = "recycle"
        <3>1. Response(cmd) \in Messages
            BY <2>1, DataTypes DEF TypeInv, CmdInv, TypeOK
        <3>2. PutResponse(c, Response(cmd))
            BY <2>1, <2>2
        <3>3. PICK m \in Messages : PutResponse(c, m)
            BY <3>1, <3>2
        <3> QED
            BY <1>0, <3>3, RoomReply
    <2>4. CountBy(commandQueue, d)' = CountBy(commandQueue, d)
        BY <2>1
    <2>5. CASE d = c
        <3>1. AtHand(d) = 1 /\ AtHand(d)' = 0
            BY <2>1, <2>2, <2>5 DEF AtHand, Served
        <3>2. Load(d)' = Load(d)
            <4>1. Replies(d)' = Replies(d) + 1 /\ Replies(d) \in Nat
                BY <1>0, <2>3, <2>5, LoadTypes
            <4>2. CountBy(commandQueue, d) \in Nat /\ ToHand(d) \in Nat
                BY <1>0, LoadTypes
            <4> QED
                BY <1>2, <2>4, <3>1, <4>1, <4>2 DEF Load
        <3> QED
            BY <1>1, <1>2, <2>3, <3>2, RoomKept
    <2>6. CASE d # c
        <3>1. AtHand(d) = 0 /\ AtHand(d)' = 0
            BY <2>1, <2>2, <2>6 DEF AtHand, Served
        <3> QED
            BY <1>0, <1>1, <1>2, <2>3, <2>4, <2>6, <3>1, RoomSame
    <2> QED
        BY <2>5, <2>6
<1> QED
    BY <1>3, <1>4, <1>5 DEF Server

LEMMA RoomClient ==
    ASSUME NEW c \in Connections, TypeInv, RoomInv, Client(c) PROVE RoomInv'
<1>0. TypeOK /\ PlaceInv
    BY DEF TypeInv
<1> SUFFICES ASSUME NEW d \in Connections PROVE RoomAt(d)'
    BY DEF RoomInv
<1>1. RoomAt(d)
    BY DEF RoomInv
<1>2. UNCHANGED <<greeted[d], asked[d], issued[d], answers[d]>>
    BY DEF Client, ClientLockLine, ClientUnlockLine, ClientMalloc, ClientSeePool,
           ClientTake, ClientTakeNull, ClientPutGreeting, ClientPutAsk,
           ClientPutCommand, userVars
<1>3. CASE \/ ClientLockLine(c) \/ ClientUnlockLine(c) \/ ClientMalloc(c)
           \/ ClientSeePool(c) \/ ClientTake(c) \/ ClientTakeNull(c)
    <2>1. UNCHANGED <<commandQueue, responseQueue, rspPc, serverPc, cmd, todo, purpose>>
        BY <1>3 DEF ClientLockLine, ClientUnlockLine, ClientMalloc, ClientSeePool,
                    ClientTake, ClientTakeNull, queueVars, serverVars, clientVars
    <2>2. /\ CountBy(commandQueue, d)' = CountBy(commandQueue, d)
          /\ Replies(d)' = Replies(d) /\ AtHand(d)' = AtHand(d)
        BY <2>1 DEF Replies, AtHand, Served
    <2>3. ToHand(d)' = ToHand(d)
        <3>1. CASE ClientLockLine(c) \/ ClientUnlockLine(c)
            <4>1. purpose[c] = "command"
                BY <1>0, <3>1 DEF ClientLockLine, ClientUnlockLine, PlaceInv
            <4>2. d # c => clientPc'[d] = clientPc[d]
                BY <1>0, <3>1 DEF ClientLockLine, ClientUnlockLine, TypeOK
            <4> QED
                BY <2>1, <4>1, <4>2 DEF ToHand
        <3>2. CASE \/ ClientMalloc(c) \/ ClientSeePool(c) \/ ClientTake(c)
                   \/ ClientTakeNull(c)
            <4>1. \/ clientPc'[d] = clientPc[d]
                  \/ {clientPc[d], clientPc'[d]} \subseteq {"create", "take", "put"}
                BY <1>0, <3>2 DEF ClientMalloc, ClientSeePool, ClientTake,
                                  ClientTakeNull, clientVars, TypeOK
            <4> QED
                BY <2>1, <4>1 DEF ToHand
        <3> QED
            BY <1>3, <3>1, <3>2
    <2> QED
        BY <1>0, <1>1, <1>2, <2>1, <2>2, <2>3, RoomSame
<1>4. CASE ClientPutGreeting(c) \/ ClientPutAsk(c)
    <2>1. PICK m \in Messages : PutResponse(c, m)
        BY <1>4, DataTypes DEF ClientPutGreeting, ClientPutAsk
    <2>2. /\ UNCHANGED <<commandQueue, serverPc, cmd, todo, purpose>>
          /\ clientPc[c] = "put" /\ purpose[c] # "command"
          /\ clientPc' = [clientPc EXCEPT ![c] = "recv"]
        BY <1>4 DEF ClientPutGreeting, ClientPutAsk, serverVars
    <2>3. /\ Replies(c)' = Replies(c) + 1
          /\ \A x \in Connections \ {c} : Replies(x)' = Replies(x)
          /\ \A x \in Connections : (rspPc[x])' = "recycle" => rspPc[x] = "recycle"
        BY <1>0, <2>1, RoomReply
    <2>4. CountBy(commandQueue, d)' = CountBy(commandQueue, d) /\ AtHand(d)' = AtHand(d)
        BY <2>2 DEF AtHand, Served
    <2>5. CASE d = c
        <3>1. ToHand(d) = 1 /\ ToHand(d)' = 0
            BY <1>0, <2>2, <2>5 DEF ToHand, TypeOK
        <3>2. /\ Replies(d)' = Replies(d) + 1 /\ Replies(d) \in Nat
              /\ CountBy(commandQueue, d) \in Nat /\ AtHand(d) \in Nat
            BY <1>0, <2>3, <2>5, LoadTypes
        <3>3. Load(d)' = Load(d)
            BY <2>4, <3>1, <3>2 DEF Load
        <3> QED
            BY <1>1, <1>2, <2>3, <3>3, RoomKept
    <2>6. CASE d # c
        <3>1. ToHand(d)' = ToHand(d)
            BY <1>0, <2>2, <2>6 DEF ToHand, TypeOK
        <3> QED
            BY <1>0, <1>1, <1>2, <2>3, <2>4, <2>6, <3>1, RoomSame
    <2> QED
        BY <2>5, <2>6
<1>5. CASE ClientPutCommand(c)
    <2> DEFINE command == [con |-> c, id |-> issued[c] - todo[c] + 1]
    <2>1. /\ commandQueue' = Append(commandQueue, command)
          /\ serverPc' = Signal(serverPc)
          /\ UNCHANGED <<responseQueue, rspPc, cmd, purpose>>
          /\ todo' = [todo EXCEPT ![c] = @ - 1]
          /\ clientPc' = [clientPc EXCEPT ![c] = AfterScan(todo[c] - 1)]
          /\ clientPc[c] = "put" /\ purpose[c] = "command"
        BY <1>5 DEF ClientPutCommand, PutCommand
    <2>2. command \in Commands /\ command.con = c
        <3>1. todo[c] \in Nat /\ issued[c] \in Nat /\ todo[c] <= issued[c]
            BY <1>0 DEF TypeOK, PlaceInv
        <3>2. issued[c] - todo[c] + 1 \in Nat \ {0}
            BY <3>1
        <3> QED
            BY <3>2 DEF Commands
    <2>3. commandQueue \in Seq(Commands)
        BY <1>0 DEF TypeOK
    <2> HIDE DEF command
    <2>4. CountBy(commandQueue, d)' = CountBy(commandQueue, d) + (IF c = d THEN 1 ELSE 0)
        <3>1. CountBy(Append(commandQueue, command), d)
                 = CountBy(commandQueue, d) + (IF command.con = d THEN 1 ELSE 0)
            BY <2>2, <2>3, CountByAppend
        <3> QED
            BY <2>1, <2>2, <3>1
    <2>5. Replies(d)' = Replies(d)
        BY <2>1 DEF Replies
    <2>6. AtHand(d)' = AtHand(d)
        BY <2>1 DEF AtHand, Served, Signal
    <2>7. CASE d = c
        <3>1. ToHand(d) = todo[d] /\ ToHand(d)' = todo[d] - 1 /\ todo[d] \in Nat
            BY <1>0, <2>1, <2>7 DEF ToHand, TypeOK
        <3>2. CountBy(commandQueue, d) \in Nat /\ AtHand(d) \in Nat /\ Replies(d) \in Nat
            BY <1>0, LoadTypes
        <3>3. Load(d)' = Load(d)
            BY <2>4, <2>5, <2>6, <2>7, <3>1, <3>2 DEF Load
        <3> QED
            BY <1>1, <1>2, <2>1, <3>3, RoomKept
    <2>8. CASE d # c
        <3>1. ToHand(d)' = ToHand(d)
            BY <1>0, <2>1, <2>8 DEF ToHand, TypeOK
        <3>2. CountBy(commandQueue, d)' = CountBy(commandQueue, d)
            BY <1>0, <2>4, <2>8, LoadTypes
        <3> QED
            BY <1>0, <1>1, <1>2, <2>1, <2>5, <2>6, <3>1, <3>2, RoomSame
    <2> QED
        BY <2>7, <2>8
<1> QED
    BY <1>3, <1>4, <1>5 DEF Client

LEMMA RoomRsp ==
    ASSUME NEW c \in Connections, TypeInv, GreetInv, RoomInv, Rsp(c) PROVE RoomInv'
<1>0. TypeOK /\ PlaceInv
    BY DEF TypeInv
<1> SUFFICES ASSUME NEW d \in Connections PROVE RoomAt(d)'
    BY DEF RoomInv
<1>1. RoomAt(d)
    BY DEF RoomInv
<1>2. UNCHANGED <<commandQueue, serverPc, cmd, clientPc, todo, purpose, asked, issued>>
    BY DEF Rsp, RspLock, RspRelock, RspLockLine, RspWrite, RspRecycle, RspUnlock,
           queueVars, serverVars, clientVars, userVars
<1>3. /\ CountBy(commandQueue, d)' = CountBy(commandQueue, d)
      /\ AtHand(d)' = AtHand(d) /\ ToHand(d)' = ToHand(d)
    BY <1>2 DEF AtHand, ToHand, Served
<1>4. CASE RspLock(c) \/ RspRelock(c) \/ RspLockLine(c) \/ RspRecycle(c) \/ RspUnlock(c)
    <2>1. UNCHANGED <<responseQueue, greeted, answers>>
        BY <1>4 DEF RspLock, RspRelock, RspLockLine, RspRecycle, RspUnlock,
                    queueVars, userVars
    <2>2. (rspPc[d])' = "recycle" => rspPc[d] = "recycle"
        BY <1>0, <1>4 DEF RspLock, RspRelock, RspLockLine, RspRecycle, RspUnlock, TypeOK
    <2>3. Replies(d)' = Replies(d)
        BY <2>1 DEF Replies
    <2> QED
        BY <1>0, <1>1, <1>2, <1>3, <2>1, <2>2, <2>3, RoomSame
<1>5. CASE RspWrite(c)
    <2> DEFINE q == responseQueue[c]
               message == Head(q)
    <2>1. /\ q # <<>> /\ q \in Seq(Messages)
          /\ responseQueue' = [responseQueue EXCEPT ![c] = Tail(@)]
          /\ greeted' = [greeted EXCEPT ![c] = @ \/ message = Greeting]
          /\ answers' = [answers EXCEPT ![c] =
                IF IsResponse(message) THEN Append(@, message.to) ELSE @]
          /\ rspPc' = [rspPc EXCEPT ![c] = "recycle"]
        BY <1>0, <1>5 DEF RspWrite, TypeOK
    <2>2. CASE d # c
        <3>1. UNCHANGED <<responseQueue[d], greeted[d], answers[d], rspPc[d]>>
            BY <1>0, <2>1, <2>2 DEF TypeOK
        <3>2. Replies(d)' = Replies(d)
            BY <3>1 DEF Replies
        <3> QED
            BY <1>0, <1>1, <1>2, <1>3, <3>1, <3>2, RoomSame
    <2>3. CASE d = c
        <3>1. Replies(d)' = Replies(d) - 1
            <4>1. Len(Tail(q)) = Len(q) - 1
                BY <2>1
            <4>2. responseQueue'[c] = Tail(q)
                BY <1>0, <2>1 DEF TypeOK
            <4> QED
                BY <2>3, <4>1, <4>2 DEF Replies
        <3>2. /\ CountBy(commandQueue, d) \in Nat /\ AtHand(d) \in Nat /\ ToHand(d) \in Nat
              /\ Replies(d) \in Nat
            BY <1>0, LoadTypes
        <3>3. Load(d)' = Load(d) - 1 /\ Load(d) \in Nat
            BY <1>3, <3>1, <3>2 DEF Load
        <3>4. greeted'[d]
            <4>1. ~greeted[c] => message = Greeting
                <5>1. ~Starting(c) \/ responseQueue[c] = <<>>
                    BY DEF GreetInv, GreetingNext
                <5> QED
                    BY <2>1, <5>1 DEF GreetInv, GreetingNext
            <4> QED
                BY <1>0, <2>1, <2>3, <4>1 DEF TypeOK
        <3>5. CASE IsResponse(message)
            <4>1. message # Greeting
                BY <3>5 DEF IsResponse, Greeting
            <4>2. greeted[d]
                BY <1>0, <2>1, <2>3, <3>4, <4>1 DEF TypeOK
            <4>3. answers'[d] = Append(answers[d], message.to)
                BY <1>0, <2>1, <2>3, <3>5 DEF TypeOK
            <4>4. message \in Messages /\ message.to \in Commands
                BY <2>1, <3>5, QueueTypes, DataTypes DEF IsResponse
            <4>5. Len(answers'[d]) = Len(answers[d]) + 1 /\ Len(answers[d]) \in Nat
                BY <1>0, <4>3, <4>4 DEF TypeOK
            <4>6. issued'[d] = issued[d] /\ issued[d] \in Nat /\ asked'[d] = asked[d]
                  /\ asked[d] \in Nat
                BY <1>0, <1>2 DEF TypeOK
            <4>7. Outstanding(d)' = Outstanding(d) - 1 /\ Outstanding(d) \in Int
                BY <4>5, <4>6 DEF Outstanding
            <4>8. Room(d)' = Room(d) - 1 /\ Room(d) \in Int
                BY <3>4, <4>2, <4>6, <4>7 DEF Room
            <4>9. Load(d)' <= Room(d)' /\ Outstanding(d)' <= MaxOutstanding
                BY <1>1, <3>3, <4>7, <4>8, FlowAssumption DEF RoomAt
            <4> QED
                BY <1>1, <3>4, <4>6, <4>9 DEF RoomAt
        <3>6. CASE ~IsResponse(message)
            <4>1. answers'[d] = answers[d]
                BY <1>0, <2>1, <2>3, <3>6 DEF TypeOK
            <4>2. Outstanding(d)' = Outstanding(d) /\ asked'[d] = asked[d]
                BY <1>2, <4>1 DEF Outstanding
            <4>3. Outstanding(d) \in Int /\ asked[d] \in Nat
                BY <1>0, LoadTypes
            <4>4. Room(d)' >= Room(d) - 1 /\ Room(d) \in Int /\ Room(d)' \in Int
                BY <3>4, <4>2, <4>3 DEF Room
            <4>5. Load(d)' <= Room(d)'
                BY <1>1, <3>3, <4>4 DEF RoomAt
            <4> QED
                BY <1>1, <3>4, <4>2, <4>5 DEF RoomAt
        <3> QED
            BY <3>5, <3>6
    <2> QED
        BY <2>2, <2>3
<1> QED
    BY <1>4, <1>5 DEF Rsp

LEMMA RoomEnvironment ==
    ASSUME TypeInv, RoomInv, Environment PROVE RoomInv'
<1>0. TypeOK /\ PlaceInv
    BY DEF TypeInv
<1> SUFFICES ASSUME NEW d \in Connections PROVE RoomAt(d)'
    BY DEF RoomInv
<1>1. RoomAt(d)
    BY DEF RoomInv
<1>2. UNCHANGED <<commandQueue, responseQueue, cmd, greeted, answers>>
    BY DEF Environment, ServerSpuriousWake, RspSpuriousWake, Accept, ClientKey,
           ClientAsk, queueVars, serverVars, userVars
<1>3. Served(d)' <=> Served(d)
    BY <1>2 DEF Environment, ServerSpuriousWake, RspSpuriousWake, Accept, ClientKey,
                ClientAsk, serverVars, Served
<1>4. /\ CountBy(commandQueue, d)' = CountBy(commandQueue, d)
      /\ Replies(d)' = Replies(d) /\ AtHand(d)' = AtHand(d)
    BY <1>2, <1>3 DEF Replies, AtHand
<1>5. CASE ServerSpuriousWake \/ \E c \in Connections : RspSpuriousWake(c) \/ Accept(c)
    <2>1. UNCHANGED <<asked, issued, todo, purpose>>
        BY <1>5 DEF ServerSpuriousWake, RspSpuriousWake, Accept, clientVars, userVars
    <2>2. \/ clientPc'[d] = clientPc[d]
          \/ clientPc[d] = "none" /\ clientPc'[d] = "create"
        BY <1>0, <1>5 DEF ServerSpuriousWake, RspSpuriousWake, Accept, clientVars, TypeOK
    <2>3. ToHand(d)' = ToHand(d)
        BY <2>1, <2>2 DEF ToHand
    <2>4. (rspPc[d])' = "recycle" => rspPc[d] = "recycle"
        BY <1>0, <1>5 DEF ServerSpuriousWake, RspSpuriousWake, Accept, TypeOK
    <2> QED
        BY <1>0, <1>1, <1>2, <1>4, <2>1, <2>3, <2>4, RoomSame
<1>6. ASSUME NEW c \in Connections, ClientKey(c) \/ ClientAsk(c) PROVE RoomAt(d)'
    <2>1. UNCHANGED rspPc
        BY <1>6 DEF ClientKey, ClientAsk
    <2>2. CASE d # c
        <3>1. UNCHANGED <<asked[d], issued[d], todo[d], purpose[d], clientPc[d]>>
            <4>1. CASE ClientKey(c)
                BY <1>0, <2>2, <4>1 DEF ClientKey, TypeOK
            <4>2. CASE ClientAsk(c)
                BY <1>0, <2>2, <4>2 DEF ClientAsk, TypeOK
            <4> QED
                BY <1>6, <4>1, <4>2
        <3>2. ToHand(d)' = ToHand(d)
            BY <3>1 DEF ToHand
        <3> QED
            BY <1>0, <1>1, <1>2, <1>4, <2>1, <3>1, <3>2, RoomSame
    <2>3. /\ CountBy(commandQueue, d) \in Nat /\ Replies(d) \in Nat /\ AtHand(d) \in Nat
          /\ ToHand(d) \in Nat /\ Room(d) \in Int /\ Outstanding(d) \in Int
          /\ asked[d] \in Nat /\ issued[d] \in Nat /\ Len(answers[d]) \in Nat
        <3>1. issued[d] \in Nat /\ Len(answers[d]) \in Nat
            BY <1>0 DEF TypeOK
        <3> QED
            BY <1>0, <3>1, LoadTypes
    <2>4. CASE d = c /\ ClientKey(c)
        <3>1. PICK k \in 0..MaxOutstanding :
                 /\ Outstanding(d) + k <= MaxOutstanding
                 /\ todo' = [todo EXCEPT ![c] = k]
                 /\ issued' = [issued EXCEPT ![c] = @ + k]
            BY <2>4 DEF ClientKey
        <3>2. k \in Nat
            BY FlowAssumption
        <3>3. /\ ToHand(d)' = k /\ issued'[d] = issued[d] + k /\ asked'[d] = asked[d]
            <4>1. purpose'[d] = "command" /\ todo'[d] = k
                BY <1>0, <2>4, <3>1 DEF ClientKey, TypeOK
            <4>2. issued'[d] = issued[d] + k /\ asked'[d] = asked[d]
                BY <1>0, <2>4, <3>1 DEF ClientKey, TypeOK
            <4> QED
                BY <4>1, <4>2 DEF ToHand
        <3>4. Outstanding(d)' = Outstanding(d) + k
            BY <1>2, <2>3, <3>2, <3>3 DEF Outstanding
        <3>5. Room(d)' = Room(d) + k
            <4> DEFINE others == (IF greeted[d] THEN 0 ELSE 1) + asked[d]
            <4>1. Room(d) = others + Outstanding(d)
                BY DEF Room
            <4>2. Room(d)' = others + Outstanding(d)'
                BY <1>2, <3>3 DEF Room
            <4>3. others \in Nat /\ Outstanding(d) \in Int
                BY <2>3
            <4> HIDE DEF others
            <4> QED
                BY <3>2, <3>4, <4>1, <4>2, <4>3
        <3>6. Load(d)' <= Load(d) + k /\ Load(d) \in Nat /\ Load(d)' \in Nat
            <4> DEFINE other == CountBy(commandQueue, d) + Replies(d) + AtHand(d)
                       hand == ToHand(d)
            <4>1. Load(d)' = other + k /\ Load(d) = other + hand
                BY <1>4, <3>3 DEF Load
            <4>2. other \in Nat /\ hand \in Nat
                BY <2>3
            <4> HIDE DEF other, hand
            <4> QED
                BY <3>2, <4>1, <4>2
        <3>7. Load(d)' <= Room(d)'
            BY <1>1, <2>3, <3>2, <3>5, <3>6 DEF RoomAt
        <3> QED
            BY <1>1, <1>2, <2>1, <3>1, <3>3, <3>4, <3>7 DEF RoomAt
    <2>5. CASE d = c /\ ClientAsk(c)
        <3>1. /\ asked[d] < MaxAsks /\ asked'[d] = asked[d] + 1 /\ issued'[d] = issued[d]
              /\ purpose'[d] = "ask" /\ clientPc'[d] = "create"
            BY <1>0, <2>5 DEF ClientAsk, TypeOK
        <3>2. ToHand(d)' = 1 /\ Outstanding(d)' = Outstanding(d)
            BY <1>2, <3>1 DEF ToHand, Outstanding
        <3>3. Room(d)' = Room(d) + 1
            BY <1>2, <2>3, <3>1, <3>2 DEF Room
        <3>4. Load(d)' <= Load(d) + 1 /\ Load(d) \in Nat /\ Load(d)' \in Nat
            BY SMTT(30), <1>4, <2>3, <3>2 DEF Load
        <3>5. Load(d)' <= Room(d)'
            BY <1>1, <2>3, <3>3, <3>4 DEF RoomAt
        <3>6. asked'[d] <= MaxAsks
            BY <2>3, <3>1, FlowAssumption
        <3> QED
            BY <1>1, <1>2, <2>1, <3>2, <3>5, <3>6 DEF RoomAt
    <2> QED
        BY <1>6, <2>2, <2>4, <2>5
<1> QED
    BY <1>5, <1>6 DEF Environment

LEMMA RoomNext == TypeInv /\ GreetInv /\ RoomInv /\ [Next]_vars => RoomInv'
<1> SUFFICES ASSUME TypeInv, GreetInv, RoomInv, [Next]_vars PROVE RoomInv'
    OBVIOUS
<1>1. CASE Next
    BY <1>1, RoomServer, RoomClient, RoomRsp, RoomEnvironment DEF Next
<1>2. CASE UNCHANGED vars
    BY <1>2 DEF vars, queueVars, lockVars, serverVars, clientVars, userVars, RoomInv,
                RoomAt, Load, Room, Replies, AtHand, ToHand, Served, Outstanding
<1> QED
    BY <1>1, <1>2

-----------------------------------------------------------------------------
(* The structs in use are bounded, and malloc is asked only for what is used. *)

PerConnection == 1 + MaxAsks + MaxOutstanding
Bound == Cardinality(Connections) * PerConnection + 1

\* The structs in use for c, and the server's second one.
CommandNodes(c) == {<<"command queue", i>> : i \in By(commandQueue, c)}
ReplyNodes(c) == {<<"response queue", i, c>> : i \in DOMAIN responseQueue[c]}
ServedNode(c) == IF Served(c) THEN {<<"cmd", serverPc>>} ELSE {}
ClientsNode(c) == IF clientPc[c] = "put" THEN {<<"client", c>>} ELSE {}
WrittenOf(c) == IF rspPc[c] = "recycle" THEN {<<"written", c>>} ELSE {}
UsedFor(c) == (((CommandNodes(c) \union ReplyNodes(c)) \union ServedNode(c))
                 \union ClientsNode(c)) \union WrittenOf(c)
Second == IF serverPc = "put" THEN {<<"rsp", "put">>}
          ELSE IF serverPc = "recycle" THEN {<<"cmd", "recycle">>} ELSE {}

\* A set numbered by another is no larger.
LEMMA SizeOfImage ==
    ASSUME NEW S, IsFiniteSet(S), NEW T, NEW f \in [S -> T],
           \A t \in T : \E s \in S : f[s] = t
    PROVE  IsFiniteSet(T) /\ Cardinality(T) <= Cardinality(S)
<1>1. f \in Surjection(S, T)
    BY DEF Surjection
<1> QED
    BY <1>1, FS_Surjection

LEMMA SizeOfUsed ==
    ASSUME TypeInv, RoomInv, NEW c \in Connections
    PROVE  IsFiniteSet(UsedFor(c)) /\ Cardinality(UsedFor(c)) <= PerConnection
<1>0. TypeOK /\ PlaceInv
    BY DEF TypeInv
<1> DEFINE q == CountBy(commandQueue, c)
           r == Replies(c)
           s == AtHand(c)
           t == ToHand(c)
           w == IF rspPc[c] = "recycle" THEN 1 ELSE 0
<1>1. q \in Nat /\ r \in Nat /\ s \in Nat /\ t \in Nat /\ w \in Nat
    BY <1>0, LoadTypes
<1>2. IsFiniteSet(CommandNodes(c)) /\ Cardinality(CommandNodes(c)) <= q
    <2> DEFINE S == By(commandQueue, c)
               f == [i \in S |-> <<"command queue", i>>]
    <2>1. f \in [S -> CommandNodes(c)] /\ \A x \in CommandNodes(c) : \E i \in S : f[i] = x
        BY DEF CommandNodes
    <2>2. IsFiniteSet(S)
        BY <1>0, CountByType DEF TypeOK
    <2> HIDE DEF f, S
    <2>3. IsFiniteSet(CommandNodes(c)) /\ Cardinality(CommandNodes(c)) <= Cardinality(S)
        BY <2>1, <2>2, SizeOfImage
    <2> QED
        BY <2>3 DEF S, CountBy
<1>3. IsFiniteSet(ReplyNodes(c)) /\ Cardinality(ReplyNodes(c)) <= r
    <2> DEFINE S == DOMAIN responseQueue[c]
               f == [i \in S |-> <<"response queue", i, c>>]
    <2>1. f \in [S -> ReplyNodes(c)] /\ \A x \in ReplyNodes(c) : \E i \in S : f[i] = x
        BY DEF ReplyNodes
    <2>2. S = 1..r /\ r \in Nat
        BY <1>0 DEF TypeOK, Replies
    <2> HIDE DEF f, S, r
    <2>3. IsFiniteSet(S) /\ Cardinality(S) = r
        BY <2>2, FS_Interval
    <2>4. IsFiniteSet(ReplyNodes(c)) /\ Cardinality(ReplyNodes(c)) <= Cardinality(S)
        BY <2>1, <2>3, SizeOfImage
    <2> QED
        BY <2>3, <2>4
<1>4. IsFiniteSet(ServedNode(c)) /\ Cardinality(ServedNode(c)) <= s
    <2>1. Served(c) \in BOOLEAN /\ (Served(c) => s > 0)
        BY DEF AtHand, Served
    <2> HIDE DEF s
    <2> QED
        BY <1>1, <2>1, SizeOfOne DEF ServedNode
<1>5. IsFiniteSet(ClientsNode(c)) /\ Cardinality(ClientsNode(c)) <= t
    <2>1. clientPc[c] = "put" => t > 0
        BY <1>0 DEF ToHand, PlaceInv
    <2> HIDE DEF t
    <2> QED
        BY <1>1, <2>1, SizeOfOne DEF ClientsNode
<1>6. IsFiniteSet(WrittenOf(c)) /\ Cardinality(WrittenOf(c)) <= w
    <2>1. rspPc[c] = "recycle" => w > 0
        OBVIOUS
    <2> HIDE DEF w
    <2> QED
        BY <1>1, <2>1, SizeOfOne DEF WrittenOf
<1>7. q + r + s + t + w <= PerConnection
    <2>1. q + r + s + t <= Room(c)
        BY DEF RoomInv, RoomAt, Load
    <2>2. Room(c) + w <= PerConnection
        <3>1. asked[c] <= MaxAsks /\ Outstanding(c) <= MaxOutstanding
              /\ (rspPc[c] = "recycle" => greeted[c])
            BY DEF RoomInv, RoomAt
        <3>2. asked[c] \in Nat /\ Outstanding(c) \in Int
            BY <1>0, LoadTypes
        <3> QED
            BY <3>1, <3>2, FlowAssumption DEF Room, PerConnection
    <2>3. Room(c) \in Int /\ PerConnection \in Nat
        BY <1>0, LoadTypes, FlowAssumption DEF PerConnection
    <2> HIDE DEF q, r, s, t, w
    <2> QED
        BY <1>1, <2>1, <2>2, <2>3
<1> HIDE DEF q, r, s, t, w
<1>8. IsFiniteSet(CommandNodes(c) \union ReplyNodes(c))
      /\ Cardinality(CommandNodes(c) \union ReplyNodes(c)) <= q + r
    BY <1>1, <1>2, <1>3, SizeOfUnion
<1>9. q + r \in Nat /\ q + r + s \in Nat /\ q + r + s + t \in Nat
    BY <1>1
<1> DEFINE A == CommandNodes(c) \union ReplyNodes(c)
           B == A \union ServedNode(c)
           D == B \union ClientsNode(c)
           E == D \union WrittenOf(c)
<1> HIDE DEF A
<1>10. IsFiniteSet(B) /\ Cardinality(B) <= q + r + s
    BY <1>1, <1>4, <1>8, <1>9, SizeOfUnion DEF A
<1> HIDE DEF B
<1>11. IsFiniteSet(D) /\ Cardinality(D) <= q + r + s + t
    BY <1>1, <1>5, <1>9, <1>10, SizeOfUnion
<1> HIDE DEF D
<1>12. IsFiniteSet(E) /\ Cardinality(E) <= q + r + s + t + w
    BY <1>1, <1>6, <1>9, <1>11, SizeOfUnion
<1>13. E = UsedFor(c)
    BY DEF UsedFor, A, B, D
<1> HIDE DEF E
<1>14. Cardinality(E) \in Nat /\ PerConnection \in Nat
    BY <1>12, FS_CardinalityType, FlowAssumption DEF PerConnection
<1> QED
    BY <1>1, <1>7, <1>12, <1>13, <1>14

\* Every struct in use is used for a connection or is the server's second one.
LEMMA UsedForSome ==
    ASSUME TypeInv
    PROVE  \A e \in InUse : e \in Second \/ \E c \in Connections : e \in UsedFor(c)
<1>0. TypeOK
    BY DEF TypeInv
<1>1. ASSUME NEW e \in InCommandQueue PROVE \E c \in Connections : e \in UsedFor(c)
    <2>1. PICK i \in DOMAIN commandQueue : e = <<"command queue", i>>
        BY <1>1 DEF InCommandQueue
    <2>2. commandQueue[i].con \in Connections
        <3>1. commandQueue[i] \in Commands
            BY <1>0 DEF TypeOK
        <3> QED
            BY <3>1 DEF Commands
    <2>3. i \in By(commandQueue, commandQueue[i].con)
        BY DEF By
    <2>4. e \in CommandNodes(commandQueue[i].con)
        BY <2>1, <2>3 DEF CommandNodes
    <2> QED
        BY <2>2, <2>4 DEF UsedFor
<1>2. ASSUME NEW e \in InResponseQueue PROVE \E c \in Connections : e \in UsedFor(c)
    <2>1. PICK c \in Connections : \E i \in DOMAIN responseQueue[c] : e = Node(i, c)
        BY <1>2, NodesElements, Zenon DEF InResponseQueue, Nodes
    <2>2. e \in ReplyNodes(c)
        BY <2>1 DEF ReplyNodes, Node
    <2> QED
        BY <2>2 DEF UsedFor
<1>3. ASSUME NEW e \in AtServer
      PROVE  e \in Second \/ \E c \in Connections : e \in UsedFor(c)
    <2>1. e \in HeldAt(serverPc)
        BY <1>3, PlacesSame
    <2>2. serverPc \in {"create", "take", "put", "recycle"}
        BY <1>0, <2>1, ServerHolds DEF TypeOK
    <2>3. cmd.con \in Connections
        BY <2>2 DEF TypeInv, CmdInv, TypeOK, Commands
    <2>4. CASE serverPc \in {"create", "take"}
        <3>1. e = <<"cmd", serverPc>> /\ Served(cmd.con)
            BY <2>1, <2>4, ServerHolds DEF Served
        <3> QED
            BY <2>3, <3>1 DEF ServedNode, UsedFor
    <2>5. CASE serverPc = "put"
        <3>1. e = <<"cmd", serverPc>> \/ e = <<"rsp", "put">>
            BY <2>1, <2>5, ServerHolds
        <3>2. Served(cmd.con)
            BY <2>5 DEF Served
        <3> QED
            BY <2>3, <2>5, <3>1, <3>2 DEF ServedNode, UsedFor, Second
    <2>6. CASE serverPc = "recycle"
        <3>1. e = <<"cmd", "recycle">>
            BY <2>1, <2>6, ServerHolds
        <3> QED
            BY <2>6, <3>1 DEF Second
    <2> QED
        BY <2>2, <2>4, <2>5, <2>6
<1>4. ASSUME NEW e \in AtClient PROVE \E c \in Connections : e \in UsedFor(c)
    BY <1>4 DEF AtClient, ClientsNode, UsedFor
<1>5. ASSUME NEW e \in Written PROVE \E c \in Connections : e \in UsedFor(c)
    BY <1>5 DEF Written, WrittenOf, UsedFor
<1> QED
    BY <1>1, <1>2, <1>3, <1>4, <1>5 DEF InUse

UsedBounded == Cardinality(InUse) <= Bound

LEMMA UsedIsBounded == TypeInv /\ RoomInv => UsedBounded
<1> SUFFICES ASSUME TypeInv, RoomInv PROVE UsedBounded
    OBVIOUS
<1> DEFINE F == [c \in Connections |-> UsedFor(c)]
           U == UNION {F[c] : c \in Connections}
           n == Cardinality(Connections) * PerConnection
<1>1. \A c \in Connections : IsFiniteSet(F[c]) /\ Cardinality(F[c]) <= PerConnection
    BY SizeOfUsed
<1>2. PerConnection \in Nat
    BY FlowAssumption DEF PerConnection
<1>3. \A c \in Connections : F[c] = UsedFor(c)
    OBVIOUS
<1> HIDE DEF F
<1>4. IsFiniteSet(U) /\ Cardinality(U) <= n
    BY <1>1, <1>2, FlowAssumption, SizeOfFamily
<1>5. n \in Nat
    BY <1>2, FlowAssumption, FS_CardinalityType
<1>6. IsFiniteSet(Second) /\ Cardinality(Second) <= 1
    <2>1. \A x : IsFiniteSet({x}) /\ Cardinality({x}) = 1
        BY FS_Singleton
    <2>2. IsFiniteSet({}) /\ Cardinality({}) = 0
        BY FS_EmptySet
    <2>3. Second \in {{}, {<<"rsp", "put">>}, {<<"cmd", "recycle">>}}
        BY DEF Second
    <2>4. CASE Second = {}
        BY <2>2, <2>4
    <2>5. CASE Second # {}
        <3>1. PICK x : Second = {x}
            BY <2>3, <2>5
        <3>2. IsFiniteSet(Second) /\ Cardinality(Second) = 1
            BY <2>1, <3>1, Zenon
        <3> QED
            BY <3>2
    <2> QED
        BY <2>4, <2>5
<1>7. \A c \in Connections : \A e \in UsedFor(c) : e \in U
    BY <1>3
<1> HIDE DEF U, n
<1>8. IsFiniteSet(U \union Second) /\ Cardinality(U \union Second) <= n + 1
    BY <1>4, <1>5, <1>6, SizeOfUnion
<1>9. InUse \in SUBSET (U \union Second)
    BY <1>7, UsedForSome
<1>10. /\ IsFiniteSet(InUse)
       /\ Cardinality(InUse) <= Cardinality(U \union Second)
    BY <1>8, <1>9, FS_Subset
<1>11. Cardinality(InUse) \in Nat /\ Cardinality(U \union Second) \in Nat
    BY <1>8, <1>10, FS_CardinalityType
<1> QED
    BY <1>5, <1>8, <1>10, <1>11 DEF UsedBounded, Bound, n

\* malloc is called only when the pool is empty, and the pool stays so.
LEMMA MallocWhenEmpty ==
    [Next]_vars => allocated' = allocated \/ pooled' = 0
<1> SUFFICES ASSUME [Next]_vars, allocated' # allocated PROVE pooled' = 0
    OBVIOUS
<1>1. ServerMalloc \/ \E c \in Connections : ClientMalloc(c)
    BY DEF Next, Server, ServerLock, ServerRelock, ServerGet, ServerUnlock,
           ServerSeePool, ServerTake, ServerTakeNull, ServerPutResponse,
           ServerRecycle, Client, ClientLockLine, ClientUnlockLine, ClientSeePool,
           ClientTake, ClientTakeNull, ClientPutGreeting, ClientPutAsk,
           ClientPutCommand, Rsp, RspLock, RspRelock, RspLockLine, RspWrite,
           RspRecycle, RspUnlock, Environment, ServerSpuriousWake, RspSpuriousWake,
           Accept, ClientKey, ClientAsk, Recycle, vars, queueVars
<1> QED
    BY <1>1 DEF ServerMalloc, ClientMalloc

LEMMA BoundInit == Init => StructsBounded
<1> SUFFICES ASSUME Init PROVE StructsBounded
    OBVIOUS
<1>1. Cardinality(Connections) \in Nat /\ MaxAsks \in Nat /\ MaxOutstanding \in Nat
    BY FlowAssumption, FS_CardinalityType
<1> DEFINE n == Cardinality(Connections) * (1 + MaxAsks + MaxOutstanding)
<1>2. n \in Nat
    BY <1>1
<1>3. allocated = 0
    BY DEF Init
<1> HIDE DEF n
<1>4. allocated <= n + 1
    BY <1>2, <1>3
<1> QED
    BY <1>4 DEF StructsBounded, n

LEMMA BoundNext ==
    ASSUME TypeOK', StructsInv', UsedBounded', StructsBounded, [Next]_vars
    PROVE  StructsBounded'
<1> DEFINE n == Cardinality(Connections) * (1 + MaxAsks + MaxOutstanding)
<1>1. n + 1 = Bound
    BY DEF Bound, PerConnection
<1>2. CASE allocated' = allocated
    BY <1>2 DEF StructsBounded
<1>3. CASE pooled' = 0
    <2>1. allocated' = pooled' + Cardinality(InUse')
        BY DEF StructsInv, StructsConserved
    <2>2. Cardinality(InUse') \in Nat
        BY FS_CardinalityType DEF StructsInv
    <2>3. allocated' = Cardinality(InUse')
        BY <1>3, <2>1, <2>2
    <2>4. allocated' <= Bound
        BY <2>3 DEF UsedBounded, Bound
    <2> QED
        BY <1>1, <2>4 DEF StructsBounded
<1> QED
    BY <1>2, <1>3, MallocWhenEmpty

\* However many commands are served, malloc is asked for no more structs than one
\* for each message that can be on its way and the server's second one: what is
\* in the pool is used again before more is allocated (CommandQueue.c:29-60).
THEOREM StructsWithinBound == Spec => []StructsBounded
<1>1. Init => TypeInv /\ GreetInv /\ StructsInv /\ RoomInv /\ StructsBounded
    BY TypeInit, GreetInit, StructsInit, RoomInit, BoundInit
<1>2. TypeInv /\ GreetInv /\ StructsInv /\ RoomInv /\ [Next]_vars
          => TypeInv' /\ GreetInv' /\ StructsInv' /\ RoomInv'
    BY TypeNext, GreetNext, StructsNext, RoomNext
<1>3. Spec => [](TypeInv /\ GreetInv /\ StructsInv /\ RoomInv)
    BY <1>1, <1>2, PTL DEF Spec
<1>4. TypeInv /\ RoomInv => UsedBounded
    BY UsedIsBounded
<1>5. TypeInv' /\ StructsInv' /\ UsedBounded' /\ StructsBounded /\ [Next]_vars
          => StructsBounded'
    BY BoundNext DEF TypeInv
<1> QED
    BY <1>1, <1>3, <1>4, <1>5, PTL DEF Spec
=============================================================================
