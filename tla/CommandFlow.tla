---------------------------- MODULE CommandFlow ----------------------------
(***************************************************************************)
(* The life of a command in the TL1 server: a client thread completes it   *)
(* under its line lock and puts it on the command queue, the server thread *)
(* drains that queue and puts a response on the connection's response      *)
(* queue, and the connection's response thread writes it to the terminal   *)
(* and returns the node to the command pool.                               *)
(*                                                                         *)
(* A step is a maximal piece of code that touches shared state at one      *)
(* point.  The pool mutex, and the queue mutexes as putCommand takes them, *)
(* protect a body that takes no other lock, so lock, body and unlock are   *)
(* one step; the locks a thread keeps while it goes on to take another     *)
(* lock are variables.  The unlocked test of getCommandCreate is a step of *)
(* its own.  A queue is the sequence of its nodes' contents and the pool,  *)
(* whose contents are undefined, the number of its nodes; CommandQueue has *)
(* the nodes and their links.                                              *)
(***************************************************************************)
EXTENDS Naturals, Sequences, FiniteSets

CONSTANTS
    Connections,        \* the connections the server may accept
    NoConnection,       \* not a connection
    MaxCommands,        \* bound: commands completed on one connection
    MaxOutstanding,     \* how far a user runs ahead of the answers
    MaxAsks,            \* bound: terminal types asked for on one connection
    SpuriousWakes       \* a condition wait may return without a signal

\* Each connection is an open socket, of which a process has finitely many.
ASSUME FlowAssumption ==
    /\ IsFiniteSet(Connections)
    /\ NoConnection \notin Connections
    /\ MaxCommands \in Nat
    /\ MaxOutstanding \in Nat \ {0}
    /\ MaxAsks \in Nat
    /\ SpuriousWakes \in BOOLEAN

VARIABLES
    allocated,          \* Command structs malloc has returned
    pooled,             \* structs in command_pool
    commandQueue,       \* the commands for the server
    responseQueue,      \* responseQueue[c]: what is to be written on c
    cqLock,             \* command_queue_lock: "free" or "server"
    rspLock,            \* response_mutex: "free" or "rsp"
    lineLock,           \* line_buffer_mutex: "free", "client" or "rsp"
    serverPc, cmd,      \* serverLoop: its place and its cmd
    clientPc, purpose,  \* clientLoop: its place, what it takes a node for
    todo,               \* todo[c]: commands the current key still has to queue
    rspPc,              \* rspClientLoop: its place
    issued,             \* issued[c]: commands completed on c so far
    asked,              \* asked[c]: terminal types asked for so far
    greeted,            \* greeted[c]: the greeting has been written
    answers,            \* answers[c]: the responses written on c
    crashed             \* the process died of a null dereference

queueVars  == <<allocated, pooled, commandQueue, responseQueue>>
lockVars   == <<cqLock, rspLock, lineLock>>
serverVars == <<serverPc, cmd>>
clientVars == <<clientPc, purpose, todo>>
userVars   == <<issued, asked, greeted, answers>>
vars == <<queueVars, lockVars, serverVars, clientVars, rspPc, userVars, crashed>>

\* The i-th command of connection c, and what is written on a terminal.
Commands == [con : Connections, id : Nat \ {0}]
Greeting == [kind |-> "greeting"]
Ask == [kind |-> "ask"]
Response(command) == [kind |-> "response", to |-> command]
IsResponse(message) == message.kind = "response"
Messages == {Greeting, Ask} \union [kind : {"response"}, to : Commands]

NoCommand == [con |-> NoConnection, id |-> 0]

\* Commands of c that were completed and are not yet answered.
Outstanding(c) == issued[c] - Len(answers[c])

-----------------------------------------------------------------------------
Init ==
    /\ allocated = 0 /\ pooled = 0
    /\ commandQueue = <<>>
    /\ responseQueue = [c \in Connections |-> <<>>]
    /\ cqLock = "free"
    /\ rspLock = [c \in Connections |-> "free"]
    /\ lineLock = [c \in Connections |-> "free"]
    /\ serverPc = "lock" /\ cmd = NoCommand
    /\ clientPc = [c \in Connections |-> "none"]
    /\ purpose = [c \in Connections |-> "greeting"]
    /\ todo = [c \in Connections |-> 0]
    /\ rspPc = [c \in Connections |-> "none"]
    /\ issued = [c \in Connections |-> 0]
    /\ asked = [c \in Connections |-> 0]
    /\ greeted = [c \in Connections |-> FALSE]
    /\ answers = [c \in Connections |-> <<>>]
    /\ crashed = FALSE

\* Mutant of Signal: putCommand is given no condition.
SignalForgotten(pc) == pc

\* pthread_cond_signal: the one thread that can wait on the condition wakes.
Signal(pc) == IF pc = "waiting" THEN "woken" ELSE pc

\* putCommand on response_queue: blocked while the response thread drains it.
PutResponse(c, message) ==
    /\ rspLock[c] = "free"
    /\ responseQueue' = [responseQueue EXCEPT ![c] = Append(@, message)]
    /\ rspPc' = [rspPc EXCEPT ![c] = Signal(@)]

\* Mutant of PutCommand: the node goes to the front of the list.
PutCommandFirst(command) ==
    /\ cqLock = "free"
    /\ commandQueue' = <<command>> \o commandQueue
    /\ serverPc' = Signal(serverPc)

\* putCommand on command_queue: blocked while the server drains it.
PutCommand(command) ==
    /\ cqLock = "free"
    /\ commandQueue' = Append(commandQueue, command)
    /\ serverPc' = Signal(serverPc)

\* putCommand on command_pool.
Recycle == pooled' = pooled + 1

-----------------------------------------------------------------------------
(* main: accept a connection and start its two threads.                    *)

\* Mutant of Accept: clientLoop reads before it greets.
AcceptUngreeted(c) ==
    /\ clientPc[c] = "none"
    /\ clientPc' = [clientPc EXCEPT ![c] = "recv"]
    /\ rspPc' = [rspPc EXCEPT ![c] = "lock"]
    /\ UNCHANGED <<queueVars, lockVars, serverVars, purpose, todo, userVars,
                   crashed>>

Accept(c) ==
    /\ clientPc[c] = "none"
    /\ clientPc' = [clientPc EXCEPT ![c] = "create"]
    /\ rspPc' = [rspPc EXCEPT ![c] = "lock"]
    /\ UNCHANGED <<queueVars, lockVars, serverVars, purpose, todo, userVars,
                   crashed>>

-----------------------------------------------------------------------------
(* clientLoop.                                                             *)

\* A byte that edits the line arrives; it completes k commands, k >= 0.
ClientKey(c) ==
    /\ clientPc[c] = "recv"
    /\ \E k \in 0..MaxOutstanding :
          /\ Outstanding(c) + k <= MaxOutstanding
          /\ issued[c] + k <= MaxCommands
          /\ todo' = [todo EXCEPT ![c] = k]
          /\ issued' = [issued EXCEPT ![c] = @ + k]
    /\ purpose' = [purpose EXCEPT ![c] = "command"]
    /\ clientPc' = [clientPc EXCEPT ![c] = "lockLine"]
    /\ UNCHANGED <<queueVars, lockVars, serverVars, rspPc, asked, greeted,
                   answers, crashed>>

\* The thread goes on under the line lock: to the next ';' that pre_parseInput
\* finds, or to the redraw when none is left.
AfterScan(left) == IF left > 0 THEN "create" ELSE "redraw"

ClientLockLine(c) ==
    /\ clientPc[c] = "lockLine"
    /\ lineLock[c] = "free"
    /\ lineLock' = [lineLock EXCEPT ![c] = "client"]
    /\ clientPc' = [clientPc EXCEPT ![c] = AfterScan(todo[c])]
    /\ UNCHANGED <<queueVars, cqLock, rspLock, serverVars, purpose, todo, rspPc,
                   userVars, crashed>>

ClientUnlockLine(c) ==
    /\ clientPc[c] = "redraw"
    /\ lineLock' = [lineLock EXCEPT ![c] = "free"]
    /\ clientPc' = [clientPc EXCEPT ![c] = "recv"]
    /\ UNCHANGED <<queueVars, cqLock, rspLock, serverVars, purpose, todo, rspPc,
                   userVars, crashed>>

\* Mutant of ClientAsk: askForTerminalType is called under the line lock.
ClientAskUnderLineLock(c) ==
    /\ clientPc[c] = "recv"
    /\ asked[c] < MaxAsks
    /\ lineLock[c] = "free"
    /\ lineLock' = [lineLock EXCEPT ![c] = "client"]
    /\ asked' = [asked EXCEPT ![c] = @ + 1]
    /\ purpose' = [purpose EXCEPT ![c] = "ask"]
    /\ clientPc' = [clientPc EXCEPT ![c] = "create"]
    /\ UNCHANGED <<queueVars, cqLock, rspLock, serverVars, todo, rspPc, issued,
                   greeted, answers, crashed>>

\* The client offers a terminal type and is asked for the next one.
ClientAsk(c) ==
    /\ clientPc[c] = "recv"
    /\ asked[c] < MaxAsks
    /\ asked' = [asked EXCEPT ![c] = @ + 1]
    /\ purpose' = [purpose EXCEPT ![c] = "ask"]
    /\ clientPc' = [clientPc EXCEPT ![c] = "create"]
    /\ UNCHANGED <<queueVars, lockVars, serverVars, todo, rspPc, issued,
                   greeted, answers, crashed>>

\* getCommandCreate, the unlocked test: the pool looks empty, so malloc ...
ClientMalloc(c) ==
    /\ clientPc[c] = "create"
    /\ pooled = 0
    /\ allocated' = allocated + 1
    /\ clientPc' = [clientPc EXCEPT ![c] = "put"]
    /\ UNCHANGED <<pooled, commandQueue, responseQueue, lockVars, serverVars,
                   purpose, todo, rspPc, userVars, crashed>>

\* ... or it does not, and the first node will be taken under the lock.
ClientSeePool(c) ==
    /\ clientPc[c] = "create"
    /\ pooled > 0
    /\ clientPc' = [clientPc EXCEPT ![c] = "take"]
    /\ UNCHANGED <<queueVars, lockVars, serverVars, purpose, todo, rspPc,
                   userVars, crashed>>

ClientTake(c) ==
    /\ clientPc[c] = "take"
    /\ pooled > 0
    /\ pooled' = pooled - 1
    /\ clientPc' = [clientPc EXCEPT ![c] = "put"]
    /\ UNCHANGED <<allocated, commandQueue, responseQueue, lockVars, serverVars,
                   purpose, todo, rspPc, userVars, crashed>>

\* Under the lock the pool is empty after all: queue->first->next is a
\* dereference of a null pointer.
ClientTakeNull(c) ==
    /\ clientPc[c] = "take"
    /\ pooled = 0
    /\ crashed' = TRUE
    /\ UNCHANGED <<queueVars, lockVars, serverVars, clientVars, rspPc, userVars>>

\* sendGreeting.
ClientPutGreeting(c) ==
    /\ clientPc[c] = "put" /\ purpose[c] = "greeting"
    /\ PutResponse(c, Greeting)
    /\ clientPc' = [clientPc EXCEPT ![c] = "recv"]
    /\ UNCHANGED <<allocated, pooled, commandQueue, lockVars, serverVars,
                   purpose, todo, userVars, crashed>>

\* askForTerminalType.
ClientPutAsk(c) ==
    /\ clientPc[c] = "put" /\ purpose[c] = "ask"
    /\ PutResponse(c, Ask)
    /\ clientPc' = [clientPc EXCEPT ![c] = "recv"]
    /\ UNCHANGED <<allocated, pooled, commandQueue, lockVars, serverVars,
                   purpose, todo, userVars, crashed>>

\* Mutant of ClientPutCommand: the command before this one is queued.
ClientPutPrevious(c) ==
    /\ clientPc[c] = "put" /\ purpose[c] = "command"
    /\ PutCommand([con |-> c, id |-> issued[c] - todo[c]])
    /\ todo' = [todo EXCEPT ![c] = @ - 1]
    /\ clientPc' = [clientPc EXCEPT ![c] = AfterScan(todo[c] - 1)]
    /\ UNCHANGED <<allocated, pooled, responseQueue, lockVars, cmd, purpose,
                   rspPc, userVars, crashed>>

\* add_command_to_command_queue, still under the line lock.
ClientPutCommand(c) ==
    /\ clientPc[c] = "put" /\ purpose[c] = "command"
    /\ PutCommand([con |-> c, id |-> issued[c] - todo[c] + 1])
    /\ todo' = [todo EXCEPT ![c] = @ - 1]
    /\ clientPc' = [clientPc EXCEPT ![c] = AfterScan(todo[c] - 1)]
    /\ UNCHANGED <<allocated, pooled, responseQueue, lockVars, cmd, purpose,
                   rspPc, userVars, crashed>>

-----------------------------------------------------------------------------
(* serverLoop.                                                             *)

\* Lock the queue; an empty one is waited for, which unlocks it again.
ServerLock ==
    /\ serverPc = "lock"
    /\ cqLock = "free"
    /\ IF commandQueue = <<>>
       THEN serverPc' = "waiting" /\ UNCHANGED cqLock
       ELSE serverPc' = "drain" /\ cqLock' = "server"
    /\ UNCHANGED <<queueVars, rspLock, lineLock, cmd, clientVars, rspPc,
                   userVars, crashed>>

\* pthread_cond_wait may return with no signal.
ServerSpuriousWake ==
    /\ SpuriousWakes
    /\ serverPc = "waiting"
    /\ serverPc' = "woken"
    /\ UNCHANGED <<queueVars, lockVars, cmd, clientVars, rspPc, userVars,
                   crashed>>

\* The wait returns with the lock; the queue is not tested again.
ServerRelock ==
    /\ serverPc = "woken"
    /\ cqLock = "free"
    /\ cqLock' = "server"
    /\ serverPc' = "drain"
    /\ UNCHANGED <<queueVars, rspLock, lineLock, cmd, clientVars, rspPc,
                   userVars, crashed>>

\* Mutant of ServerGet: getCommand leaves the node first in the queue.
ServerPeek ==
    /\ serverPc = "drain"
    /\ commandQueue # <<>>
    /\ cmd' = Head(commandQueue)
    /\ serverPc' = "create"
    /\ UNCHANGED <<queueVars, lockVars, clientVars, rspPc, userVars, crashed>>

ServerGet ==
    /\ serverPc = "drain"
    /\ commandQueue # <<>>
    /\ cmd' = Head(commandQueue)
    /\ commandQueue' = Tail(commandQueue)
    /\ serverPc' = "create"
    /\ UNCHANGED <<allocated, pooled, responseQueue, lockVars, clientVars,
                   rspPc, userVars, crashed>>

\* Mutant of ServerUnlock: the queue stays locked.
ServerKeepsLock ==
    /\ serverPc = "drain"
    /\ commandQueue = <<>>
    /\ serverPc' = "lock"
    /\ UNCHANGED <<queueVars, lockVars, cmd, clientVars, rspPc, userVars, crashed>>

ServerUnlock ==
    /\ serverPc = "drain"
    /\ commandQueue = <<>>
    /\ cqLock' = "free"
    /\ serverPc' = "lock"
    /\ UNCHANGED <<queueVars, rspLock, lineLock, cmd, clientVars, rspPc,
                   userVars, crashed>>

\* getCommandCreate for the response, as in the client.
ServerMalloc ==
    /\ serverPc = "create"
    /\ pooled = 0
    /\ allocated' = allocated + 1
    /\ serverPc' = "put"
    /\ UNCHANGED <<pooled, commandQueue, responseQueue, lockVars, cmd,
                   clientVars, rspPc, userVars, crashed>>

ServerSeePool ==
    /\ serverPc = "create"
    /\ pooled > 0
    /\ serverPc' = "take"
    /\ UNCHANGED <<queueVars, lockVars, cmd, clientVars, rspPc, userVars,
                   crashed>>

ServerTake ==
    /\ serverPc = "take"
    /\ pooled > 0
    /\ pooled' = pooled - 1
    /\ serverPc' = "put"
    /\ UNCHANGED <<allocated, commandQueue, responseQueue, lockVars, cmd,
                   clientVars, rspPc, userVars, crashed>>

ServerTakeNull ==
    /\ serverPc = "take"
    /\ pooled = 0
    /\ crashed' = TRUE
    /\ UNCHANGED <<queueVars, lockVars, serverVars, clientVars, rspPc, userVars>>

\* The response goes where cmd->con points; the command queue stays locked
\* while the response queue is waited for.
ServerPutResponse ==
    /\ serverPc = "put"
    /\ PutResponse(cmd.con, Response(cmd))
    /\ serverPc' = "recycle"
    /\ UNCHANGED <<allocated, pooled, commandQueue, lockVars, cmd, clientVars,
                   userVars, crashed>>

\* Mutant of ServerRecycle: one of serverLoop's branches forgets the node.
ServerLeaks ==
    /\ serverPc = "recycle"
    /\ cmd' = NoCommand
    /\ serverPc' = "drain"
    /\ UNCHANGED <<queueVars, lockVars, clientVars, rspPc, userVars, crashed>>

ServerRecycle ==
    /\ serverPc = "recycle"
    /\ Recycle
    /\ cmd' = NoCommand
    /\ serverPc' = "drain"
    /\ UNCHANGED <<allocated, commandQueue, responseQueue, lockVars, clientVars,
                   rspPc, userVars, crashed>>

-----------------------------------------------------------------------------
(* rspClientLoop.                                                          *)

RspLock(c) ==
    /\ rspPc[c] = "lock"
    /\ rspLock[c] = "free"
    /\ IF responseQueue[c] = <<>>
       THEN /\ rspPc' = [rspPc EXCEPT ![c] = "waiting"]
            /\ UNCHANGED rspLock
       ELSE /\ rspPc' = [rspPc EXCEPT ![c] = "lockLine"]
            /\ rspLock' = [rspLock EXCEPT ![c] = "rsp"]
    /\ UNCHANGED <<queueVars, cqLock, lineLock, serverVars, clientVars,
                   userVars, crashed>>

RspSpuriousWake(c) ==
    /\ SpuriousWakes
    /\ rspPc[c] = "waiting"
    /\ rspPc' = [rspPc EXCEPT ![c] = "woken"]
    /\ UNCHANGED <<queueVars, lockVars, serverVars, clientVars, userVars,
                   crashed>>

RspRelock(c) ==
    /\ rspPc[c] = "woken"
    /\ rspLock[c] = "free"
    /\ rspLock' = [rspLock EXCEPT ![c] = "rsp"]
    /\ rspPc' = [rspPc EXCEPT ![c] = "lockLine"]
    /\ UNCHANGED <<queueVars, cqLock, lineLock, serverVars, clientVars,
                   userVars, crashed>>

\* The response queue stays locked while the line is waited for.
RspLockLine(c) ==
    /\ rspPc[c] = "lockLine"
    /\ lineLock[c] = "free"
    /\ lineLock' = [lineLock EXCEPT ![c] = "rsp"]
    /\ rspPc' = [rspPc EXCEPT ![c] = "drain"]
    /\ UNCHANGED <<queueVars, cqLock, rspLock, serverVars, clientVars, userVars,
                   crashed>>

\* Take the next element and write its text, whatever it is.
RspWrite(c) ==
    /\ rspPc[c] = "drain"
    /\ responseQueue[c] # <<>>
    /\ responseQueue' = [responseQueue EXCEPT ![c] = Tail(@)]
    /\ LET message == Head(responseQueue[c]) IN
          /\ greeted' = [greeted EXCEPT ![c] = @ \/ message = Greeting]
          /\ answers' = [answers EXCEPT ![c] =
                IF IsResponse(message) THEN Append(@, message.to) ELSE @]
    /\ rspPc' = [rspPc EXCEPT ![c] = "recycle"]
    /\ UNCHANGED <<allocated, pooled, commandQueue, lockVars, serverVars,
                   clientVars, issued, asked, crashed>>

\* Mutant of RspRecycle: the node is not returned.
RspLeaks(c) ==
    /\ rspPc[c] = "recycle"
    /\ rspPc' = [rspPc EXCEPT ![c] = "drain"]
    /\ UNCHANGED <<queueVars, lockVars, serverVars, clientVars, userVars, crashed>>

RspRecycle(c) ==
    /\ rspPc[c] = "recycle"
    /\ Recycle
    /\ rspPc' = [rspPc EXCEPT ![c] = "drain"]
    /\ UNCHANGED <<allocated, commandQueue, responseQueue, lockVars, serverVars,
                   clientVars, userVars, crashed>>

\* Mutants of RspUnlock: one of the two mutexes is forgotten.
RspKeepsLine(c) ==
    /\ rspPc[c] = "drain"
    /\ responseQueue[c] = <<>>
    /\ rspLock' = [rspLock EXCEPT ![c] = "free"]
    /\ rspPc' = [rspPc EXCEPT ![c] = "lock"]
    /\ UNCHANGED <<queueVars, cqLock, lineLock, serverVars, clientVars, userVars,
                   crashed>>

RspKeepsQueue(c) ==
    /\ rspPc[c] = "drain"
    /\ responseQueue[c] = <<>>
    /\ lineLock' = [lineLock EXCEPT ![c] = "free"]
    /\ rspPc' = [rspPc EXCEPT ![c] = "lock"]
    /\ UNCHANGED <<queueVars, cqLock, rspLock, serverVars, clientVars, userVars,
                   crashed>>

RspUnlock(c) ==
    /\ rspPc[c] = "drain"
    /\ responseQueue[c] = <<>>
    /\ lineLock' = [lineLock EXCEPT ![c] = "free"]
    /\ rspLock' = [rspLock EXCEPT ![c] = "free"]
    /\ rspPc' = [rspPc EXCEPT ![c] = "lock"]
    /\ UNCHANGED <<queueVars, cqLock, serverVars, clientVars, userVars, crashed>>

-----------------------------------------------------------------------------
Server == \/ ServerLock \/ ServerRelock \/ ServerGet \/ ServerUnlock
          \/ ServerMalloc \/ ServerSeePool \/ ServerTake \/ ServerTakeNull
          \/ ServerPutResponse \/ ServerRecycle

Client(c) == \/ ClientLockLine(c) \/ ClientUnlockLine(c)
             \/ ClientMalloc(c) \/ ClientSeePool(c)
             \/ ClientTake(c) \/ ClientTakeNull(c)
             \/ ClientPutGreeting(c) \/ ClientPutAsk(c) \/ ClientPutCommand(c)

Rsp(c) == \/ RspLock(c) \/ RspRelock(c) \/ RspLockLine(c)
          \/ RspWrite(c) \/ RspRecycle(c) \/ RspUnlock(c)

\* What arrives from outside the process, and the wake-ups POSIX allows.
Environment == \/ ServerSpuriousWake
               \/ \E c \in Connections : \/ Accept(c) \/ ClientKey(c)
                                         \/ ClientAsk(c) \/ RspSpuriousWake(c)

Next == /\ ~crashed
        /\ \/ Server
           \/ \E c \in Connections : Client(c) \/ Rsp(c)
           \/ Environment

Spec == Init /\ [][Next]_vars

\* A thread that can go on again and again does go on; in particular a mutex
\* that is free again and again is granted.
Fairness ==
    /\ SF_vars(~crashed /\ Server)
    /\ \A c \in Connections : /\ SF_vars(~crashed /\ Client(c))
                              /\ SF_vars(~crashed /\ Rsp(c))

FairSpec == Spec /\ Fairness

-----------------------------------------------------------------------------
(* Correctness.                                                            *)

\* Every variable has its type.
TypeOK ==
    /\ allocated \in Nat /\ pooled \in Nat
    /\ commandQueue \in Seq(Commands)
    /\ responseQueue \in [Connections -> Seq(Messages)]
    /\ cqLock \in {"free", "server"}
    /\ rspLock \in [Connections -> {"free", "rsp"}]
    /\ lineLock \in [Connections -> {"free", "client", "rsp"}]
    /\ serverPc \in {"lock", "waiting", "woken", "drain", "create", "take",
                     "put", "recycle"}
    /\ cmd \in Commands \union {NoCommand}
    /\ clientPc \in [Connections -> {"none", "recv", "lockLine", "redraw",
                                     "create", "take", "put"}]
    /\ purpose \in [Connections -> {"greeting", "ask", "command"}]
    /\ todo \in [Connections -> Nat]
    /\ rspPc \in [Connections -> {"none", "lock", "waiting", "woken",
                                  "lockLine", "drain", "recycle"}]
    /\ issued \in [Connections -> Nat]
    /\ asked \in [Connections -> Nat]
    /\ greeted \in [Connections -> BOOLEAN]
    /\ answers \in [Connections -> Seq(Commands)]
    /\ crashed \in BOOLEAN

\* A lock is held exactly by the thread that is at a place of the code where it
\* must hold it: two threads never write one terminal at once, and a queue is
\* drained only under its mutex (hello.c:376-414, 878-903, 914-962).
ClientHoldsLine(c) ==
    \/ clientPc[c] = "redraw"
    \/ clientPc[c] \in {"create", "take", "put"} /\ purpose[c] = "command"
RspHoldsQueue(c) == rspPc[c] \in {"lockLine", "drain", "recycle"}
RspHoldsLine(c) == rspPc[c] \in {"drain", "recycle"}
ServerHoldsQueue == serverPc \in {"drain", "create", "take", "put", "recycle"}

LockDiscipline ==
    /\ cqLock = "server" <=> ServerHoldsQueue
    /\ \A c \in Connections :
          /\ rspLock[c] = "rsp" <=> RspHoldsQueue(c)
          /\ lineLock[c] = "rsp" <=> RspHoldsLine(c)
          /\ lineLock[c] = "client" <=> ClientHoldsLine(c)

\* A thread asleep on its condition has nothing to do: no signal of putCommand
\* is lost between the test of the queue and the wait (hello.c:879, 915;
\* CommandQueue.c:90).
NoLostWakeup ==
    /\ serverPc = "waiting" => commandQueue = <<>>
    /\ \A c \in Connections : rspPc[c] = "waiting" => responseQueue[c] = <<>>

\* Every struct malloc returned is in use or in the pool, once: the threads
\* neither leak a node nor recycle one twice (CommandQueue.c:31-94, hello.c:897,
\* 926-957).
InCommandQueue == {<<"command queue", i>> : i \in DOMAIN commandQueue}
InResponseQueue ==
    UNION {{<<"response queue", i, c>> : i \in DOMAIN responseQueue[c]} :
              c \in Connections}
AtServer ==
    {<<"cmd", pc>> : pc \in {serverPc} \intersect {"create", "take", "put", "recycle"}}
    \union {<<"rsp", pc>> : pc \in {serverPc} \intersect {"put"}}
AtClient == {<<"client", c>> : c \in {d \in Connections : clientPc[d] = "put"}}
Written == {<<"written", c>> : c \in {d \in Connections : rspPc[d] = "recycle"}}

InUse == InCommandQueue \union InResponseQueue \union AtServer \union AtClient
            \union Written

StructsConserved == allocated = pooled + Cardinality(InUse)

\* The pool keeps the memory bounded however many commands are served: one node
\* for each message on its way, and the server's second one.
StructsBounded ==
    allocated <= Cardinality(Connections) * (1 + MaxAsks + MaxOutstanding) + 1

\* The greeting is the first thing written on a connection: no answer precedes
\* it, whatever the threads' speed (hello.c:860-863).
GreetingFirst == \A c \in Connections : answers[c] # <<>> => greeted[c]

\* Of a user who waits for each answer, one command at most is on its way: it is
\* in one place only, between the key that completed it and the terminal that
\* shows the answer (hello.c:84-103, 873-962).
Queueing(c) == todo[c] > 0
Queued(c) == \E i \in DOMAIN commandQueue : commandQueue[i].con = c
Served(c) == serverPc \in {"create", "take", "put"} /\ cmd.con = c
Replied(c) == \E i \in DOMAIN responseQueue[c] : IsResponse(responseQueue[c][i])

OneOnItsWay ==
    \A c \in Connections :
       /\ Queueing(c) => ~Queued(c) /\ ~Served(c) /\ ~Replied(c)
       /\ Queued(c) => ~Served(c) /\ ~Replied(c)
       /\ Served(c) => ~Replied(c)
       /\ \A i, j \in DOMAIN commandQueue :
             commandQueue[i].con = c /\ commandQueue[j].con = c => i = j
       /\ \A i, j \in DOMAIN responseQueue[c] :
             IsResponse(responseQueue[c][i]) /\ IsResponse(responseQueue[c][j])
                => i = j

\* No threads wait for each other's mutexes in a circle.  t waits for u when t
\* is about to take a mutex that u holds.
Threads == ({"client", "rsp"} \X Connections) \union {<<"server", NoConnection>>}

WaitsFor(t, u) ==
    \E c \in Connections :
       \/ /\ t = <<"client", c>> /\ clientPc[c] = "lockLine"
          /\ u = <<"rsp", c>> /\ lineLock[c] = "rsp"
       \/ /\ t = <<"client", c>> /\ clientPc[c] = "put"
          /\ \/ /\ purpose[c] = "command"
                /\ u = <<"server", NoConnection>> /\ cqLock = "server"
             \/ /\ purpose[c] # "command"
                /\ u = <<"rsp", c>> /\ rspLock[c] = "rsp"
       \/ /\ t = <<"server", NoConnection>> /\ serverPc = "put" /\ cmd.con = c
          /\ u = <<"rsp", c>> /\ rspLock[c] = "rsp"
       \/ /\ t = <<"rsp", c>> /\ rspPc[c] = "lockLine"
          /\ u = <<"client", c>> /\ lineLock[c] = "client"

NoLockCycle ==
    \A S \in (SUBSET Threads) \ {{}} :
       \E t \in S : \A u \in S : ~WaitsFor(t, u)

\* "Add a new command to the command queue for processing" (hello.c:97): every
\* completed command is answered, unless the process dies.
EveryCommandAnswered ==
    \A c \in Connections : \A i \in 1..MaxCommands :
       issued[c] >= i ~> (Len(answers[c]) >= i \/ crashed)

\* "The function used to take a Command from the pool" (CommandQueue.c:29): it
\* returns one, it does not kill the process.
PoolGivesCommand == ~crashed

\* The whole program is the service it promises to be.
Service == INSTANCE ResponseService WITH submitted <- issued, up <- ~crashed
ServiceSpec == Service!Spec
ServiceFairSpec == Service!FairSpec
=============================================================================
