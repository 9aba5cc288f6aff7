--------------------------- MODULE ConnectionLife ---------------------------
(***************************************************************************)
(* The life of a connection: main accepts a user, allocates the connection *)
(* and starts the client thread before the mutexes are there, then the     *)
(* response thread; the client thread frees the connection when its user   *)
(* hangs up; the response thread and the commands on the command queue     *)
(* keep their pointers to it, and malloc may give the same address to the  *)
(* next user.                                                              *)
(*                                                                         *)
(* The pool, the editing of the line and the tests and waits of the server *)
(* are CommandFlow's and are left out.  A thread that is about to use freed*)
(* memory takes no step: what it would do is undefined, and the model says *)
(* what happens up to there.                                               *)
(***************************************************************************)
EXTENDS Naturals, Sequences, FiniteSets, FiniteSetsExt

CONSTANTS
    Users, NoUser,          \* who connects, each once
    Addresses, NoAddress,   \* where malloc puts connections
    Sockets,                \* the descriptors accept returns
    MaxKeys,                \* bound: keys a user types
    MaxHangUps,             \* bound: users who hang up
    ThreadsFail,            \* pthread_create may fail
    SpuriousWakes           \* a condition wait may return without a signal

ASSUME LifeAssumption ==
    /\ NoUser \notin Users
    /\ NoAddress \notin Addresses
    /\ Sockets \subseteq Nat
    /\ MaxKeys \in Nat /\ MaxHangUps \in Nat
    /\ ThreadsFail \in BOOLEAN
    /\ SpuriousWakes \in BOOLEAN

VARIABLES
    live,                   \* the addresses that are allocated
    sock,                   \* sock_fd of the connection at an address
    rspMutex, lineMutex,    \* its mutexes: "raw", "free" or "held"
    rspQueue,               \* its response_queue
    peer,                   \* the user at the other end of a descriptor
    addr,                   \* addr[u]: the pointer u's two threads have
    mainPc, setting,        \* main: its place, the user it sets up
    clientPc, rspPc,        \* clientLoop and rspClientLoop of each user
    serverPc, cmd,          \* serverLoop and its cmd
    commandQueue,           \* commands: the pointer and who typed it
    inbox, typed,           \* keys that wait for recv, keys typed so far
    issued,                 \* commands that user has completed
    hungUp,                 \* the user has closed the terminal
    screen,                 \* screen[u]: what was written to u
    causes                  \* history, read by no step: "early", a mutex was
                            \* used before main had initialised it for good;
                            \* "busy", a user hung up before everything was
                            \* answered; "hasty" and "astir", a connection was
                            \* freed while main set it up, or while a response
                            \* thread on it was not asleep; "inside", a connection
                            \* was freed with a thread in its queue or its line;
                            \* "spurious", a thread woke by itself on a connection
                            \* that was freed

memVars    == <<live, sock, rspMutex, lineMutex, rspQueue, peer>>
mainVars   == <<addr, mainPc, setting>>
serverVars == <<serverPc, cmd, commandQueue>>
userVars   == <<inbox, typed, issued, hungUp, screen>>
vars == <<memVars, mainVars, clientPc, rspPc, serverVars, userVars, causes>>

Messages == [kind : {"greeting", "answer"}, to : Users]
Commands == [con : Addresses, from : Users]
NoCommand == [con |-> NoAddress, from |-> NoUser]

Answered(u) == Cardinality({k \in DOMAIN screen[u] : screen[u][k].kind = "answer"})
Greeted(u) == \E k \in DOMAIN screen[u] : screen[u][k].kind = "greeting"

Init ==
    /\ live = {}
    /\ sock = [a \in Addresses |-> 0]
    /\ rspMutex = [a \in Addresses |-> "raw"]
    /\ lineMutex = [a \in Addresses |-> "raw"]
    /\ rspQueue = [a \in Addresses |-> <<>>]
    /\ peer = [d \in Sockets |-> NoUser]
    /\ addr = [u \in Users |-> NoAddress]
    /\ mainPc = "accept" /\ setting = NoUser
    /\ clientPc = [u \in Users |-> "none"]
    /\ rspPc = [u \in Users |-> "none"]
    /\ serverPc = "lock" /\ cmd = NoCommand
    /\ commandQueue = <<>>
    /\ inbox = [u \in Users |-> 0]
    /\ typed = [u \in Users |-> 0]
    /\ issued = [u \in Users |-> 0]
    /\ hungUp = [u \in Users |-> FALSE]
    /\ screen = [u \in Users |-> <<>>]
    /\ causes = {}

-----------------------------------------------------------------------------
(* Mutexes, conditions and sockets.                                        *)

\* pthread_mutex_lock: what becomes of the mutex, and of the thread.  One that
\* was never initialised may be granted, be refused with an error the code does
\* not look at, or never be granted.
Grants(mutex) ==
    CASE mutex = "free" -> {[mutex |-> "held", pc |-> "in"]}
      [] mutex = "held" -> {}
      [] mutex = "raw"  -> {[mutex |-> "held", pc |-> "in"],
                            [mutex |-> "raw",  pc |-> "in"],
                            [mutex |-> "raw",  pc |-> "stuck"]}

Released(mutex) == IF mutex = "raw" THEN "raw" ELSE "free"

\* Where a thread goes that is granted a mutex.
Goes(grant, place) == IF grant.pc = "stuck" THEN "stuck" ELSE place

Waiting(a) == {u \in Users : addr[u] = a /\ rspPc[u] = "waiting"}
OwnerWaits(a) == \E u \in Waiting(a) : clientPc[u] # "gone"

\* Mutant of Signal: putCommand is given no condition.
SignalForgotten(a) == {rspPc}

\* pthread_cond_signal: wakes any one thread that waits at the address.  Those
\* that waited there before the condition was initialised again may be missed.
Signal(a) ==
    {[rspPc EXCEPT ![u] = "woken"] : u \in Waiting(a)} \union
    (IF OwnerWaits(a) THEN {} ELSE {rspPc})

\* The threads that have the queue at a, or the line, by their place in the code.
InQueue(a) ==
    {<<"client", u>> : u \in {v \in Users : addr[v] = a /\ clientPc[v] = "greeting"}}
    \union {<<"rsp", u>> : u \in {v \in Users : addr[v] = a /\ rspPc[v] \in {"lockLine", "drain"}}}
    \union {<<"server", pc>> : pc \in IF cmd.con = a THEN {serverPc} \intersect {"putting"} ELSE {}}

InLine(a) ==
    {<<"client", u>> : u \in {v \in Users : addr[v] = a /\ clientPc[v] \in {"put", "redraw"}}}
    \union {<<"rsp", u>> : u \in {v \in Users : addr[v] = a /\ rspPc[v] = "drain"}}

\* A thread takes a mutex at a, which main has not initialised for good.
Early(a, notReady) ==
    causes' = causes \union
              (IF mainPc \in notReady /\ addr[setting] = a THEN {"early"} ELSE {})

\* write: lost when the descriptor is closed or the user has hung up.  The latter
\* may also end the process: nobody handles SIGPIPE.
Write(a, messages) ==
    LET user == peer[sock[a]] IN
    screen' = IF user = NoUser THEN screen
              ELSE [screen EXCEPT ![user] = IF hungUp[user] THEN @ ELSE @ \o messages]

-----------------------------------------------------------------------------
(* main: acceptConnection and createConnection.                            *)

\* accept returns the lowest descriptor, malloc any address that is not in use;
\* the fields up to the response queue are set and the client thread is started.
Accept(u) ==
    /\ mainPc = "accept"
    /\ addr[u] = NoAddress
    /\ \E a \in Addresses \ live :
       LET free == {d \in Sockets : peer[d] = NoUser} IN
          /\ free # {}
          /\ peer' = [peer EXCEPT ![Min(free)] = u]
          /\ sock' = [sock EXCEPT ![a] = Min(free)]
          /\ live' = live \union {a}
          /\ addr' = [addr EXCEPT ![u] = a]
          /\ rspQueue' = [rspQueue EXCEPT ![a] = <<>>]
          /\ rspMutex' = [rspMutex EXCEPT ![a] = "raw"]
          /\ lineMutex' = [lineMutex EXCEPT ![a] = "raw"]
    /\ \E place \in {"header"} \union (IF ThreadsFail THEN {"failed"} ELSE {}) :
          clientPc' = [clientPc EXCEPT ![u] = place]
    /\ mainPc' = "initialise" /\ setting' = u
    /\ UNCHANGED <<rspPc, serverVars, userVars, causes>>

\* status and the static initialisers.
Initialise ==
    /\ mainPc = "initialise"
    /\ addr[setting] \in live
    /\ rspMutex' = [rspMutex EXCEPT ![addr[setting]] = "free"]
    /\ lineMutex' = [lineMutex EXCEPT ![addr[setting]] = "free"]
    /\ mainPc' = "recursive"
    /\ UNCHANGED <<live, sock, rspQueue, peer, addr, setting, clientPc, rspPc,
                   serverVars, userVars, causes>>

\* The line's mutex is initialised once more, to be recursive.
MakeRecursive ==
    /\ mainPc = "recursive"
    /\ addr[setting] \in live
    /\ lineMutex' = [lineMutex EXCEPT ![addr[setting]] = "free"]
    /\ mainPc' = "startRsp"
    /\ UNCHANGED <<live, sock, rspMutex, rspQueue, peer, addr, setting, clientPc,
                   rspPc, serverVars, userVars, causes>>

StartRsp ==
    /\ mainPc = "startRsp"
    /\ addr[setting] \in live
    /\ \E place \in {"lock"} \union (IF ThreadsFail THEN {"failed"} ELSE {}) :
          rspPc' = [rspPc EXCEPT ![setting] = place]
    /\ mainPc' = "rspStatus"
    /\ UNCHANGED <<memVars, addr, setting, clientPc, serverVars, userVars, causes>>

\* Mutant of RspStatus: the line's mutex is initialised here, after the threads.
InitialiseLate ==
    /\ mainPc = "rspStatus"
    /\ addr[setting] \in live
    /\ lineMutex' = [lineMutex EXCEPT ![addr[setting]] = "free"]
    /\ mainPc' = "accept" /\ setting' = NoUser
    /\ UNCHANGED <<live, sock, rspMutex, rspQueue, peer, addr, clientPc, rspPc,
                   serverVars, userVars, causes>>

\* rsp_status, and back to select.
RspStatus ==
    /\ mainPc = "rspStatus"
    /\ addr[setting] \in live
    /\ mainPc' = "accept" /\ setting' = NoUser
    /\ UNCHANGED <<memVars, addr, clientPc, rspPc, serverVars, userVars, causes>>

-----------------------------------------------------------------------------
(* clientLoop.                                                             *)

\* sendTelnetHeader writes at once; its bytes are no message of the model.
ClientHeader(u) ==
    /\ clientPc[u] = "header"
    /\ Write(addr[u], <<>>)
    /\ clientPc' = [clientPc EXCEPT ![u] = "greet"]
    /\ UNCHANGED <<memVars, mainVars, rspPc, serverVars, inbox, typed, issued,
                   hungUp, causes>>

\* sendGreeting: putCommand locks ...
ClientLockQueue(u) ==
    /\ clientPc[u] = "greet"
    /\ \E grant \in Grants(rspMutex[addr[u]]) :
          /\ rspMutex' = [rspMutex EXCEPT ![addr[u]] = grant.mutex]
          /\ clientPc' = [clientPc EXCEPT ![u] = Goes(grant, "greeting")]
    /\ Early(addr[u], {"initialise"})
    /\ UNCHANGED <<live, sock, lineMutex, rspQueue, peer, mainVars, rspPc,
                   serverVars, userVars>>

\* ... appends, signals and unlocks.
PutResponse(a, message) ==
    /\ rspQueue' = [rspQueue EXCEPT ![a] = Append(@, message)]
    /\ rspPc' \in Signal(a)
    /\ rspMutex' = [rspMutex EXCEPT ![a] = Released(@)]

\* Mutant of ClientGreet: the message names no user.
ClientGreetNobody(u) ==
    /\ clientPc[u] = "greeting"
    /\ PutResponse(addr[u], [kind |-> "greeting", to |-> NoUser])
    /\ clientPc' = [clientPc EXCEPT ![u] = "recv"]
    /\ UNCHANGED <<live, sock, lineMutex, peer, mainVars, serverVars, userVars,
                   causes>>

ClientGreet(u) ==
    /\ clientPc[u] = "greeting"
    /\ PutResponse(addr[u], [kind |-> "greeting", to |-> u])
    /\ clientPc' = [clientPc EXCEPT ![u] = "recv"]
    /\ UNCHANGED <<live, sock, lineMutex, peer, mainVars, serverVars, userVars,
                   causes>>

\* process_read: a key that completes a command; its handler takes the line.  Other
\* keys do the same but for putting the command.
ClientKey(u) ==
    /\ clientPc[u] = "recv"
    /\ inbox[u] > 0
    /\ inbox' = [inbox EXCEPT ![u] = @ - 1]
    /\ \E grant \in Grants(lineMutex[addr[u]]) :
          /\ lineMutex' = [lineMutex EXCEPT ![addr[u]] = grant.mutex]
          /\ clientPc' = [clientPc EXCEPT ![u] = Goes(grant, "put")]
    /\ Early(addr[u], {"initialise", "recursive"})
    /\ UNCHANGED <<live, sock, rspMutex, rspQueue, peer, mainVars, rspPc,
                   serverVars, typed, issued, hungUp, screen>>

\* add_command_to_command_queue: blocked while the server drains the queue.
ClientPutCommand(u) ==
    /\ clientPc[u] = "put"
    /\ serverPc = "lock"
    /\ commandQueue' = Append(commandQueue, [con |-> addr[u], from |-> u])
    /\ issued' = [issued EXCEPT ![u] = @ + 1]
    /\ clientPc' = [clientPc EXCEPT ![u] = "redraw"]
    /\ UNCHANGED <<memVars, mainVars, rspPc, serverPc, cmd, inbox, typed, hungUp,
                   screen, causes>>

\* The line is written and unlocked.
ClientRedraw(u) ==
    /\ clientPc[u] = "redraw"
    /\ Write(addr[u], <<>>)
    /\ lineMutex' = [lineMutex EXCEPT ![addr[u]] = Released(@)]
    /\ clientPc' = [clientPc EXCEPT ![u] = "recv"]
    /\ UNCHANGED <<live, sock, rspMutex, rspQueue, peer, mainVars, rspPc,
                   serverVars, inbox, typed, issued, hungUp, causes>>

\* Mutant of ClientClose: a read that timed out is taken for an error.
ClientCloseOnTimeout(u) ==
    /\ clientPc[u] = "recv"
    /\ peer' = [peer EXCEPT ![sock[addr[u]]] = NoUser]
    /\ clientPc' = [clientPc EXCEPT ![u] = "close"]
    /\ UNCHANGED <<live, sock, rspMutex, lineMutex, rspQueue, mainVars, rspPc,
                   serverVars, userVars, causes>>

\* recv returns 0 after the last key, or an error before it; freeConnection
\* closes the socket ...
ClientClose(u) ==
    /\ clientPc[u] = "recv"
    /\ hungUp[u]
    /\ peer' = [peer EXCEPT ![sock[addr[u]]] = NoUser]
    /\ clientPc' = [clientPc EXCEPT ![u] = "close"]
    /\ UNCHANGED <<live, sock, rspMutex, lineMutex, rspQueue, mainVars, rspPc,
                   serverVars, userVars, causes>>

\* ... and frees the connection, whoever else has a pointer to it.
Hasty(u) == IF setting = u THEN {"hasty"} ELSE {}
Astir(a) == IF \E v \in Users : addr[v] = a /\ rspPc[v] \notin
                  {"none", "failed", "waiting", "stuck"}
            THEN {"astir"} ELSE {}
Inside(a) == IF InQueue(a) \union InLine(a) # {} THEN {"inside"} ELSE {}

ClientFree(u) ==
    /\ clientPc[u] = "close"
    /\ live' = live \ {addr[u]}
    /\ clientPc' = [clientPc EXCEPT ![u] = "gone"]
    /\ causes' = causes \union Hasty(u) \union Astir(addr[u]) \union Inside(addr[u])
    /\ UNCHANGED <<sock, rspMutex, lineMutex, rspQueue, peer, mainVars, rspPc,
                   serverVars, userVars>>

-----------------------------------------------------------------------------
(* serverLoop.                                                             *)

\* Mutant of ServerGet: getCommand leaves the node first in the queue.
ServerPeek ==
    /\ serverPc \in {"lock", "drain"}
    /\ commandQueue # <<>>
    /\ cmd' = Head(commandQueue)
    /\ serverPc' = "put"
    /\ UNCHANGED <<memVars, mainVars, clientPc, rspPc, commandQueue, userVars,
                   causes>>

\* The command queue is locked when there is a command and stays locked until it
\* is empty.
ServerGet ==
    /\ serverPc \in {"lock", "drain"}
    /\ commandQueue # <<>>
    /\ cmd' = Head(commandQueue)
    /\ commandQueue' = Tail(commandQueue)
    /\ serverPc' = "put"
    /\ UNCHANGED <<memVars, mainVars, clientPc, rspPc, userVars, causes>>

\* putCommand on cmd->con->response_queue, whoever has that address now.
ServerLockQueue ==
    /\ serverPc = "put"
    /\ cmd.con \in live
    /\ \E grant \in Grants(rspMutex[cmd.con]) :
          /\ rspMutex' = [rspMutex EXCEPT ![cmd.con] = grant.mutex]
          /\ serverPc' = Goes(grant, "putting")
    /\ Early(cmd.con, {"initialise"})
    /\ UNCHANGED <<live, sock, lineMutex, rspQueue, peer, mainVars, clientPc, rspPc,
                   cmd, commandQueue, userVars>>

ServerPutResponse ==
    /\ serverPc = "putting"
    /\ cmd.con \in live
    /\ PutResponse(cmd.con, [kind |-> "answer", to |-> cmd.from])
    /\ serverPc' = "drain" /\ cmd' = NoCommand
    /\ UNCHANGED <<live, sock, lineMutex, peer, mainVars, clientPc, commandQueue,
                   userVars, causes>>

ServerUnlock ==
    /\ serverPc = "drain"
    /\ commandQueue = <<>>
    /\ serverPc' = "lock"
    /\ UNCHANGED <<memVars, mainVars, clientPc, rspPc, cmd, commandQueue, userVars,
                   causes>>

-----------------------------------------------------------------------------
(* rspClientLoop: it has no end, and goes on after its connection was freed. *)

\* Lock the queue; an empty one is waited for, which unlocks it again.
RspLock(u) ==
    /\ rspPc[u] = "lock"
    /\ addr[u] \in live
    /\ \E grant \in Grants(rspMutex[addr[u]]) :
       LET wait == rspQueue[addr[u]] = <<>> /\ grant.pc = "in" IN
          /\ rspMutex' = [rspMutex EXCEPT ![addr[u]] =
                IF wait THEN Released(grant.mutex) ELSE grant.mutex]
          /\ rspPc' = [rspPc EXCEPT ![u] =
                IF wait THEN "waiting" ELSE Goes(grant, "lockLine")]
    /\ Early(addr[u], {"initialise"})
    /\ UNCHANGED <<live, sock, lineMutex, rspQueue, peer, mainVars, clientPc,
                   serverVars, userVars>>

\* A wait that returns with no signal, after the connection was freed; CommandFlow
\* has those before.
RspSpuriousWake(u) ==
    /\ SpuriousWakes
    /\ rspPc[u] = "waiting" /\ clientPc[u] = "gone"
    /\ rspPc' = [rspPc EXCEPT ![u] = "woken"]
    /\ causes' = causes \union {"spurious"}
    /\ UNCHANGED <<memVars, mainVars, clientPc, serverVars, userVars>>

RspRelock(u) ==
    /\ rspPc[u] = "woken"
    /\ addr[u] \in live
    /\ \E grant \in Grants(rspMutex[addr[u]]) :
          /\ rspMutex' = [rspMutex EXCEPT ![addr[u]] = grant.mutex]
          /\ rspPc' = [rspPc EXCEPT ![u] = Goes(grant, "lockLine")]
    /\ Early(addr[u], {"initialise"})
    /\ UNCHANGED <<live, sock, lineMutex, rspQueue, peer, mainVars, clientPc,
                   serverVars, userVars>>

RspLockLine(u) ==
    /\ rspPc[u] = "lockLine"
    /\ addr[u] \in live
    /\ \E grant \in Grants(lineMutex[addr[u]]) :
          /\ lineMutex' = [lineMutex EXCEPT ![addr[u]] = grant.mutex]
          /\ rspPc' = [rspPc EXCEPT ![u] = Goes(grant, "drain")]
    /\ Early(addr[u], {"initialise", "recursive"})
    /\ UNCHANGED <<live, sock, rspMutex, rspQueue, peer, mainVars, clientPc,
                   serverVars, userVars>>

\* Take the next element and write it on the connection's socket.
RspWrite(u) ==
    /\ rspPc[u] = "drain"
    /\ addr[u] \in live
    /\ rspQueue[addr[u]] # <<>>
    /\ rspQueue' = [rspQueue EXCEPT ![addr[u]] = Tail(@)]
    /\ Write(addr[u], <<Head(rspQueue[addr[u]])>>)
    /\ UNCHANGED <<live, sock, rspMutex, lineMutex, peer, mainVars, clientPc, rspPc,
                   serverVars, inbox, typed, issued, hungUp, causes>>

RspUnlock(u) ==
    /\ rspPc[u] = "drain"
    /\ addr[u] \in live
    /\ rspQueue[addr[u]] = <<>>
    /\ lineMutex' = [lineMutex EXCEPT ![addr[u]] = Released(@)]
    /\ rspMutex' = [rspMutex EXCEPT ![addr[u]] = Released(@)]
    /\ rspPc' = [rspPc EXCEPT ![u] = "lock"]
    /\ UNCHANGED <<live, sock, rspQueue, peer, mainVars, clientPc, serverVars,
                   userVars, causes>>

-----------------------------------------------------------------------------
(* The users.                                                              *)

Type(u) ==
    /\ addr[u] # NoAddress /\ ~hungUp[u]
    /\ typed[u] < MaxKeys
    /\ typed' = [typed EXCEPT ![u] = @ + 1]
    /\ inbox' = [inbox EXCEPT ![u] = @ + 1]
    /\ UNCHANGED <<memVars, mainVars, clientPc, rspPc, serverVars, issued, hungUp,
                   screen, causes>>

\* The user closes the terminal or the network fails, with or without something
\* left to be done for the user.
Busy(u) ==
    \/ clientPc[u] # "recv" \/ inbox[u] > 0
    \/ ~Greeted(u) \/ Answered(u) # issued[u]

HangUp(u) ==
    /\ addr[u] # NoAddress /\ ~hungUp[u]
    /\ Cardinality({v \in Users : hungUp[v]}) < MaxHangUps
    /\ hungUp' = [hungUp EXCEPT ![u] = TRUE]
    /\ causes' = causes \union (IF Busy(u) THEN {"busy"} ELSE {})
    /\ UNCHANGED <<memVars, mainVars, clientPc, rspPc, serverVars, inbox, typed,
                   issued, screen>>

-----------------------------------------------------------------------------
Main == Initialise \/ MakeRecursive \/ StartRsp \/ RspStatus

Client(u) == \/ ClientHeader(u) \/ ClientLockQueue(u) \/ ClientGreet(u)
             \/ ClientKey(u) \/ ClientPutCommand(u)
             \/ ClientRedraw(u) \/ ClientClose(u) \/ ClientFree(u)

Server == \/ ServerGet \/ ServerLockQueue \/ ServerPutResponse
          \/ ServerUnlock

Rsp(u) == \/ RspLock(u) \/ RspRelock(u) \/ RspLockLine(u) \/ RspWrite(u)
          \/ RspUnlock(u)

Environment == \E u \in Users : \/ Accept(u) \/ Type(u) \/ HangUp(u)
                                \/ RspSpuriousWake(u)

Next == \/ Main \/ Server \/ Environment
        \/ \E u \in Users : Client(u) \/ Rsp(u)

Spec == Init /\ [][Next]_vars

-----------------------------------------------------------------------------
(* Correctness.                                                            *)

\* Every variable has its type.
TypeOK ==
    /\ live \subseteq Addresses
    /\ sock \in [Addresses -> Sockets \union {0}]
    /\ rspMutex \in [Addresses -> {"raw", "free", "held"}]
    /\ lineMutex \in [Addresses -> {"raw", "free", "held"}]
    /\ rspQueue \in [Addresses -> Seq(Messages)]
    /\ peer \in [Sockets -> Users \union {NoUser}]
    /\ addr \in [Users -> Addresses \union {NoAddress}]
    /\ mainPc \in {"accept", "initialise", "recursive", "startRsp", "rspStatus"}
    /\ setting \in Users \union {NoUser}
    /\ clientPc \in [Users -> {"none", "failed", "header", "greet", "greeting",
                               "recv", "put", "redraw", "close", "gone",
                               "stuck"}]
    /\ rspPc \in [Users -> {"none", "failed", "lock", "waiting", "woken",
                            "lockLine", "drain", "stuck"}]
    /\ serverPc \in {"lock", "drain", "put", "putting", "stuck"}
    /\ cmd \in Commands \union {NoCommand}
    /\ commandQueue \in Seq(Commands)
    /\ inbox \in [Users -> Nat] /\ typed \in [Users -> Nat]
    /\ issued \in [Users -> Nat]
    /\ hungUp \in [Users -> BOOLEAN]
    /\ screen \in [Users -> Seq(Messages)]
    /\ causes \subseteq {"early", "busy", "hasty", "astir", "inside", "spurious"}

\* A step is undefined for one reason only, each time.  On freed memory, for main:
\* a user left while being set up; for the server: a user left before everything
\* was answered; for a response thread: a user left while it was not asleep, or it
\* woke by itself.  A write can meet a user who has hung up only if that user left
\* before everything was answered.  Who comes to lock a mutex that nobody has
\* initialised does so while main is between starting the client thread of that
\* very connection and its initialisers (Connection.c:60-93; hello.c:824-836, 870,
\* 873-905).
MainUsesFreed == mainPc # "accept" /\ addr[setting] \notin live
ServerUsesFreed == serverPc \in {"put", "putting"} /\ cmd.con \notin live
RspUsesFreed(u) == /\ rspPc[u] \in {"lock", "woken", "lockLine", "drain"}
                   /\ addr[u] \notin live
Writes(u) == \/ clientPc[u] \in {"header", "redraw"}
             \/ rspPc[u] = "drain" /\ addr[u] \in live /\ rspQueue[addr[u]] # <<>>
MeetsSigpipe(u) == LET user == peer[sock[addr[u]]] IN
                   Writes(u) /\ user # NoUser /\ hungUp[user]

LocksQueue(a) ==
    \/ serverPc = "put" /\ cmd.con = a
    \/ \E u \in Users : addr[u] = a /\ (clientPc[u] = "greet" \/ rspPc[u] \in {"lock", "woken"})
LocksLine(a) ==
    \E u \in Users : addr[u] = a /\ ((clientPc[u] = "recv" /\ inbox[u] > 0) \/ rspPc[u] = "lockLine")
LocksRaw(a) == \/ rspMutex[a] = "raw" /\ LocksQueue(a)
               \/ lineMutex[a] = "raw" /\ LocksLine(a)

UndefinedOnlyBy ==
    /\ MainUsesFreed => "hasty" \in causes
    /\ ServerUsesFreed => "busy" \in causes
    /\ \A u \in Users :
          /\ RspUsesFreed(u) => causes \intersect {"astir", "spurious"} # {}
          /\ MeetsSigpipe(u) => "busy" \in causes
    /\ \A a \in live : LocksRaw(a) => mainPc = "initialise" /\ addr[setting] = a

\* What is written to a user is this user's: greeted first, one answer at most
\* to each command, nothing of the user who had the same memory or descriptor
\* before, unless that one left before everything was answered.
OwnScreen ==
    "busy" \notin causes =>
       \A u \in Users :
          /\ \A k \in DOMAIN screen[u] :
                screen[u][k].to = u /\ (screen[u][k].kind = "greeting" <=> k = 1)
          /\ Answered(u) <= issued[u]

\* A mutex is held if and only if one thread is inside, and two are never in one
\* queue or in one line at once, though response threads of earlier users and
\* commands of theirs reach the connection that has their address now: unless a
\* mutex was used before main had initialised it for good, or a connection was
\* freed with a thread inside (Connection.c:60-74; hello.c:877-904).
OneInside ==
    causes \intersect {"early", "inside"} = {} =>
       \A a \in live :
          /\ rspMutex[a] = "held" <=> InQueue(a) # {}
          /\ lineMutex[a] = "held" <=> InLine(a) # {}
          /\ Cardinality(InQueue(a)) <= 1 /\ Cardinality(InLine(a)) <= 1

\* The circle of waits that a user who types on before an answer is there can
\* close: the client thread has the line and waits for the command queue, the server
\* has that and waits for the response queue, and the response thread has that and
\* waits for the line.  It stops the server for everybody.
Circle == \E u, v \in Users :
    /\ clientPc[u] = "put" /\ rspPc[v] = "lockLine" /\ addr[v] = addr[u]
    /\ serverPc = "put" /\ cmd.con = addr[u]

Settled == ~ENABLED (Main \/ Server \/ \E u \in Users : Client(u) \/ Rsp(u))

Served(u) == inbox[u] = 0 /\ Answered(u) = issued[u] /\ Greeted(u)
Excused(u) == \/ causes # {} \/ hungUp[u]
              \/ clientPc[u] = "failed" \/ rspPc[u] = "failed"

\* Who stays is greeted and answered, if the two threads could be started and
\* nothing went wrong before: the threads do not come to rest with a message of this
\* user still queued because they wait for each other, but in that circle, or for a
\* signal that the thread of an earlier user took (Connection.c:83-93; hello.c:873-905).
StayersServed ==
    \A u \in Users : addr[u] # NoAddress =>
       Served(u) \/ Excused(u) \/ Circle \/ ~Settled
=============================================================================
