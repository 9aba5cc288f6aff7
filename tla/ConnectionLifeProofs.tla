------------------------ MODULE ConnectionLifeProofs ------------------------
(***************************************************************************)
(* Proofs about ConnectionLife for any users, addresses and descriptors:   *)
(* types, who has a connection, and who comes to use a freed one; what a   *)
(* user sees, what is done on memory that was freed, and whom the mutexes  *)
(* let in.  As long as nobody left before everything was answered, every   *)
(* command and every message on its way has its user at the other end.  As *)
(* long as no connection was freed with a thread inside, free memory has   *)
(* nobody in it, so that who gets it next has its mutexes alone.           *)
(***************************************************************************)
EXTENDS ConnectionLife, FiniteSetTheorems, SequenceTheorems,
        WellFoundedInduction, TLAPS

-----------------------------------------------------------------------------
(* Mutexes, signals and descriptors.                                       *)

Mutexes == {"raw", "free", "held"}

LEMMA GrantTypes ==
    \A mutex \in Mutexes : \A grant \in Grants(mutex) :
       /\ grant.mutex \in {"raw", "held"}
       /\ grant.pc \in {"in", "stuck"}
       /\ mutex # "held"
       /\ mutex = "free" => grant.mutex = "held" /\ grant.pc = "in"
       /\ \A place : /\ grant.pc = "in" => Goes(grant, place) = place
                     /\ grant.pc = "stuck" => Goes(grant, place) = "stuck"
BY DEF Grants, Goes, Mutexes

\* Only threads that wait at the address are woken.
LEMMA SignalWakes ==
    ASSUME NEW a, rspPc' \in Signal(a), rspPc = [u \in Users |-> rspPc[u]]
    PROVE  /\ rspPc' = [u \in Users |-> rspPc'[u]]
           /\ \A u \in Users : \/ rspPc'[u] = rspPc[u]
                               \/ /\ rspPc[u] = "waiting" /\ addr[u] = a
                                  /\ rspPc'[u] = "woken"
BY DEF Signal, Waiting

\* A set of natural numbers has a least element.
LEMMA LeastSocket ==
    ASSUME NEW S, S \subseteq Nat, S # {}
    PROVE  Min(S) \in S
<1>1. PICK x \in S : \A y \in S : <<y, x>> \notin OpToRel(<, Nat)
    BY NatLessThanWellFounded, WFMin
<1>2. \A y \in S : ~(y < x)
    BY <1>1 DEF OpToRel
<1>3. \A y \in S : x <= y
    BY <1>2
<1> QED
    BY <1>3 DEF Min

-----------------------------------------------------------------------------
(* Types.                                                                  *)

\* A thread that runs has a connection, and a connection has a socket.
PlaceInv ==
    /\ mainPc = "accept" <=> setting = NoUser
    /\ mainPc # "accept" => addr[setting] # NoAddress
    /\ mainPc \in {"initialise", "recursive", "startRsp"} => rspPc[setting] = "none"
    /\ serverPc \in {"lock", "drain"} <=> cmd = NoCommand
    /\ \A u \in Users : addr[u] = NoAddress <=> clientPc[u] = "none"
    /\ \A u \in Users : clientPc[u] = "none" => rspPc[u] = "none"
    /\ \A u \in Users : addr[u] # NoAddress => sock[addr[u]] \in Sockets

TypeInv == TypeOK /\ PlaceInv

LEMMA TypeInit == Init => TypeInv
<1> SUFFICES ASSUME Init PROVE TypeInv
    OBVIOUS
<1>1. /\ commandQueue \in Seq(Commands)
      /\ rspQueue \in [Addresses -> Seq(Messages)]
      /\ screen \in [Users -> Seq(Messages)]
    BY DEF Init
<1>2. TypeOK
    BY <1>1 DEF Init, TypeOK
<1>3. PlaceInv
    BY DEF Init, PlaceInv
<1> QED
    BY <1>2, <1>3 DEF TypeInv

LEMMA TypeMain == TypeInv /\ Main => TypeInv'
<1> SUFFICES ASSUME TypeInv, Main PROVE TypeInv'
    OBVIOUS
<1> USE DEF TypeInv, TypeOK, PlaceInv, memVars, serverVars, userVars
<1>1. CASE Initialise
    BY <1>1, LifeAssumption DEF Initialise
<1>2. CASE MakeRecursive
    BY <1>2, LifeAssumption DEF MakeRecursive
<1>3. CASE StartRsp
    BY <1>3, LifeAssumption DEF StartRsp
<1>4. CASE RspStatus
    BY <1>4, LifeAssumption DEF RspStatus
<1> QED
    BY <1>1, <1>2, <1>3, <1>4 DEF Main

LEMMA WriteTypes ==
    ASSUME TypeOK, NEW a \in Addresses, sock[a] \in Sockets,
           NEW messages \in Seq(Messages), Write(a, messages)
    PROVE  screen' \in [Users -> Seq(Messages)]
<1> DEFINE user == peer[sock[a]]
<1>1. user \in Users \union {NoUser}
    BY DEF TypeOK
<1>2. \A v \in Users : screen[v] \o messages \in Seq(Messages)
    BY DEF TypeOK
<1> QED
    BY <1>1, <1>2 DEF Write, TypeOK

LEMMA EarlyTypes ==
    ASSUME NEW a, NEW places, TypeOK, Early(a, places)
    PROVE  causes' \subseteq {"early", "busy", "hasty", "astir", "inside", "spurious"}
BY DEF Early, TypeOK

\* What putCommand does to a response queue and to the threads that wait on it.
LEMMA PutTypes ==
    ASSUME TypeOK, NEW a \in Addresses, NEW m \in Messages, PutResponse(a, m)
    PROVE  /\ rspQueue' \in [Addresses -> Seq(Messages)]
           /\ rspMutex' \in [Addresses -> {"raw", "free", "held"}]
           /\ rspPc' \in [Users -> {"none", "failed", "lock", "waiting", "woken",
                                    "lockLine", "drain", "stuck"}]
           /\ \A v \in Users : \/ rspPc'[v] = rspPc[v]
                               \/ /\ rspPc[v] = "waiting" /\ addr[v] = a
                                  /\ rspPc'[v] = "woken"
<1>1. rspPc = [v \in Users |-> rspPc[v]]
    BY DEF TypeOK
<1>2. rspPc' \in Signal(a)
    BY DEF PutResponse
<1>3. /\ rspPc' = [v \in Users |-> rspPc'[v]]
      /\ \A v \in Users : \/ rspPc'[v] = rspPc[v]
                          \/ /\ rspPc[v] = "waiting" /\ addr[v] = a
                             /\ rspPc'[v] = "woken"
    BY <1>1, <1>2, SignalWakes
<1>4. Append(rspQueue[a], m) \in Seq(Messages)
    BY DEF TypeOK
<1> QED
    BY <1>3, <1>4 DEF PutResponse, Released, TypeOK

LEMMA TypeClient == \A u \in Users : TypeInv /\ Client(u) => TypeInv'
<1> SUFFICES ASSUME NEW u \in Users, TypeInv, Client(u) PROVE TypeInv'
    OBVIOUS
<1> USE DEF TypeInv, TypeOK, PlaceInv, memVars, mainVars, serverVars, userVars
<1>0. clientPc[u] # "none" => addr[u] \in Addresses /\ sock[addr[u]] \in Sockets
    OBVIOUS
<1>1. CASE ClientHeader(u)
    <2>1. screen' \in [Users -> Seq(Messages)]
        <3>1. <<>> \in Seq(Messages)
            OBVIOUS
        <3> QED
            BY <1>0, <1>1, <3>1, WriteTypes DEF ClientHeader
    <2> QED
        BY ZenonT(60), <1>0, <1>1, <2>1 DEF ClientHeader
<1>2. CASE ClientLockQueue(u)
    <2>1. PICK grant :
             /\ grant \in Grants(rspMutex[addr[u]])
             /\ rspMutex' = [rspMutex EXCEPT ![addr[u]] = grant.mutex]
             /\ clientPc' = [clientPc EXCEPT ![u] = Goes(grant, "greeting")]
        BY <1>2 DEF ClientLockQueue
    <2>2. /\ grant.mutex \in {"raw", "held"}
          /\ Goes(grant, "greeting") \in {"greeting", "stuck"}
        <3>1. rspMutex[addr[u]] \in Mutexes
            BY <1>0, <1>2 DEF ClientLockQueue, Mutexes
        <3> HIDE DEF TypeInv, TypeOK, PlaceInv
        <3> QED
            BY <2>1, <3>1, GrantTypes
    <2>3. causes' \subseteq {"early", "busy", "hasty", "astir", "inside", "spurious"}
        BY <1>2, EarlyTypes DEF ClientLockQueue
    <2> QED
        BY <1>0, <1>2, <2>1, <2>2, <2>3 DEF ClientLockQueue
<1>3. CASE ClientGreet(u)
    <2> DEFINE message == [kind |-> "greeting", to |-> u]
    <2>1. message \in Messages
        BY DEF Messages
    <2>2. PutResponse(addr[u], message) /\ addr[u] \in Addresses
        BY <1>0, <1>3 DEF ClientGreet
    <2> HIDE DEF message
    <2>3. /\ rspQueue' \in [Addresses -> Seq(Messages)]
          /\ rspMutex' \in [Addresses -> {"raw", "free", "held"}]
          /\ rspPc' \in [Users -> {"none", "failed", "lock", "waiting", "woken",
                                   "lockLine", "drain", "stuck"}]
          /\ \A v \in Users : rspPc[v] = "none" => rspPc'[v] = "none"
        BY <2>1, <2>2, PutTypes
    <2>4. setting # NoUser => setting \in Users
        OBVIOUS
    <2>5. /\ clientPc[u] = "greeting"
          /\ clientPc' = [clientPc EXCEPT ![u] = "recv"]
          /\ UNCHANGED <<live, sock, lineMutex, peer, mainVars, serverVars,
                         userVars, causes>>
        BY <1>3 DEF ClientGreet
    <2>6. TypeOK'
        BY <1>0, <2>3, <2>5
    <2>7. PlaceInv'
        BY <1>0, <2>3, <2>4, <2>5
    <2> QED
        BY <2>6, <2>7
<1>4. CASE ClientKey(u)
    <2>1. PICK grant :
             /\ grant \in Grants(lineMutex[addr[u]])
             /\ lineMutex' = [lineMutex EXCEPT ![addr[u]] = grant.mutex]
             /\ clientPc' = [clientPc EXCEPT ![u] = Goes(grant, "put")]
        BY <1>4 DEF ClientKey
    <2>2. /\ grant.mutex \in {"raw", "held"}
          /\ Goes(grant, "put") \in {"put", "stuck"}
        <3>1. lineMutex[addr[u]] \in Mutexes
            BY <1>0, <1>4 DEF ClientKey, Mutexes
        <3> HIDE DEF TypeInv, TypeOK, PlaceInv
        <3> QED
            BY <2>1, <3>1, GrantTypes
    <2>3. causes' \subseteq {"early", "busy", "hasty", "astir", "inside", "spurious"}
        BY <1>4, EarlyTypes DEF ClientKey
    <2>4. inbox' \in [Users -> Nat]
        BY <1>4 DEF ClientKey
    <2> QED
        BY SMTT(30), <1>0, <1>4, <2>1, <2>2, <2>3, <2>4 DEF ClientKey
<1>5. CASE ClientPutCommand(u)
    <2>1. /\ commandQueue' \in Seq(Commands) /\ issued' \in [Users -> Nat]
        <3>1. [con |-> addr[u], from |-> u] \in Commands
            BY <1>0, <1>5 DEF ClientPutCommand, Commands
        <3> QED
            BY <1>0, <1>5, <3>1 DEF ClientPutCommand
    <2>2. /\ clientPc[u] = "put" /\ clientPc' = [clientPc EXCEPT ![u] = "redraw"]
          /\ UNCHANGED <<memVars, mainVars, rspPc, serverPc, cmd, inbox, typed, hungUp,
                         screen, causes>>
        BY <1>5 DEF ClientPutCommand
    <2> QED
        BY SMTT(30), <1>0, <2>1, <2>2
<1>6. CASE ClientRedraw(u)
    <2>1. screen' \in [Users -> Seq(Messages)]
        <3>1. <<>> \in Seq(Messages)
            OBVIOUS
        <3> QED
            BY <1>0, <1>6, <3>1, WriteTypes DEF ClientRedraw
    <2>2. lineMutex' \in [Addresses -> {"raw", "free", "held"}]
        BY <1>6 DEF ClientRedraw, Released
    <2>3. /\ clientPc[u] = "redraw" /\ clientPc' = [clientPc EXCEPT ![u] = "recv"]
          /\ UNCHANGED <<live, sock, rspMutex, rspQueue, peer, mainVars, rspPc,
                         serverVars, inbox, typed, issued, hungUp, causes>>
        BY <1>6 DEF ClientRedraw
    <2> QED
        BY SMTT(30), <1>0, <2>1, <2>2, <2>3
<1>7. CASE ClientClose(u)
    BY <1>0, <1>7 DEF ClientClose
<1>8. CASE ClientFree(u)
    <2>1. /\ live' = live \ {addr[u]} /\ clientPc[u] = "close"
          /\ clientPc' = [clientPc EXCEPT ![u] = "gone"]
          /\ UNCHANGED <<sock, rspMutex, lineMutex, rspQueue, peer, mainVars, rspPc,
                         serverVars, userVars>>
        BY <1>8 DEF ClientFree
    <2>2. causes' \subseteq {"early", "busy", "hasty", "astir", "inside", "spurious"}
        <3>1. causes' \subseteq causes \union {"hasty", "astir", "inside"}
            BY <1>8 DEF ClientFree, Hasty, Astir, Inside
        <3> QED
            BY <1>0, <3>1
    <2> QED
        BY SMTT(30), <1>0, <2>1, <2>2
<1> QED
    BY <1>1, <1>2, <1>3, <1>4, <1>5, <1>6, <1>7, <1>8 DEF Client

LEMMA TypeServer == TypeInv /\ Server => TypeInv'
<1> SUFFICES ASSUME TypeInv, Server PROVE TypeInv'
    OBVIOUS
<1> USE DEF TypeInv, TypeOK, PlaceInv, memVars, mainVars, serverVars, userVars
<1>1. CASE ServerGet
    <2>1. Head(commandQueue) \in Commands /\ Tail(commandQueue) \in Seq(Commands)
        BY <1>1 DEF ServerGet
    <2>2. NoCommand \notin Commands
        BY LifeAssumption DEF Commands, NoCommand
    <2> QED
        BY <1>1, <2>1, <2>2 DEF ServerGet
<1>2. CASE ServerLockQueue
    <2>1. PICK grant :
             /\ grant \in Grants(rspMutex[cmd.con])
             /\ rspMutex' = [rspMutex EXCEPT ![cmd.con] = grant.mutex]
             /\ serverPc' = Goes(grant, "putting")
        BY <1>2 DEF ServerLockQueue
    <2>2. /\ grant.mutex \in {"raw", "held"}
          /\ Goes(grant, "putting") \in {"putting", "stuck"}
        <3>1. rspMutex[cmd.con] \in Mutexes
            BY <1>2 DEF ServerLockQueue, Mutexes, Commands, NoCommand
        <3> HIDE DEF TypeInv, TypeOK, PlaceInv
        <3> QED
            BY <2>1, <3>1, GrantTypes
    <2>3. causes' \subseteq {"early", "busy", "hasty", "astir", "inside", "spurious"}
        BY <1>2, EarlyTypes DEF ServerLockQueue
    <2> QED
        BY <1>2, <2>1, <2>2, <2>3 DEF ServerLockQueue
<1>3. CASE ServerPutResponse
    <2> DEFINE message == [kind |-> "answer", to |-> cmd.from]
    <2>1. cmd \in Commands
        BY <1>3 DEF ServerPutResponse
    <2>2. message \in Messages /\ cmd.con \in Addresses
        BY <2>1 DEF Messages, Commands
    <2>3. PutResponse(cmd.con, message)
        BY <1>3 DEF ServerPutResponse
    <2> HIDE DEF message
    <2>4. /\ rspQueue' \in [Addresses -> Seq(Messages)]
          /\ rspMutex' \in [Addresses -> {"raw", "free", "held"}]
          /\ rspPc' \in [Users -> {"none", "failed", "lock", "waiting", "woken",
                                   "lockLine", "drain", "stuck"}]
          /\ \A v \in Users : rspPc[v] = "none" => rspPc'[v] = "none"
        BY <2>2, <2>3, PutTypes
    <2>5. setting # NoUser => setting \in Users
        OBVIOUS
    <2>6. /\ serverPc' = "drain" /\ cmd' = NoCommand
          /\ UNCHANGED <<live, sock, lineMutex, peer, mainVars, clientPc,
                         commandQueue, userVars, causes>>
        BY <1>3 DEF ServerPutResponse
    <2> QED
        BY <2>4, <2>5, <2>6
<1>4. CASE ServerUnlock
    BY <1>4 DEF ServerUnlock
<1> QED
    BY <1>1, <1>2, <1>3, <1>4 DEF Server

LEMMA TypeRsp == \A u \in Users : TypeInv /\ Rsp(u) => TypeInv'
<1> SUFFICES ASSUME NEW u \in Users, TypeInv, Rsp(u) PROVE TypeInv'
    OBVIOUS
<1> USE DEF TypeInv, TypeOK, PlaceInv, memVars, mainVars, serverVars, userVars
<1>0. /\ rspPc[u] # "none" => addr[u] \in Addresses /\ sock[addr[u]] \in Sockets
    OBVIOUS
<1>1. CASE RspLock(u)
    <2>1. PICK grant : grant \in Grants(rspMutex[addr[u]]) /\
             \E wait \in BOOLEAN :
                /\ rspMutex' = [rspMutex EXCEPT ![addr[u]] =
                      IF wait THEN Released(grant.mutex) ELSE grant.mutex]
                /\ rspPc' = [rspPc EXCEPT ![u] =
                      IF wait THEN "waiting" ELSE Goes(grant, "lockLine")]
        BY <1>1 DEF RspLock
    <2>2. /\ grant.mutex \in {"raw", "held"}
          /\ Goes(grant, "lockLine") \in {"lockLine", "stuck"}
        <3>1. rspMutex[addr[u]] \in Mutexes
            BY <1>0, <1>1 DEF RspLock, Mutexes
        <3> HIDE DEF TypeInv, TypeOK, PlaceInv
        <3> QED
            BY <2>1, <3>1, GrantTypes
    <2>3. causes' \subseteq {"early", "busy", "hasty", "astir", "inside", "spurious"}
        BY <1>1, EarlyTypes DEF RspLock
    <2>4. /\ rspMutex' \in [Addresses -> {"raw", "free", "held"}]
          /\ \E place \in {"waiting", "lockLine", "stuck"} :
                rspPc' = [rspPc EXCEPT ![u] = place]
        <3>1. PICK wait \in BOOLEAN :
                /\ rspMutex' = [rspMutex EXCEPT ![addr[u]] =
                      IF wait THEN Released(grant.mutex) ELSE grant.mutex]
                /\ rspPc' = [rspPc EXCEPT ![u] =
                      IF wait THEN "waiting" ELSE Goes(grant, "lockLine")]
            BY <2>1
        <3>2. Released(grant.mutex) \in {"raw", "free"}
            BY DEF Released
        <3>3. rspMutex' \in [Addresses -> {"raw", "free", "held"}]
            <4> DEFINE mutex == IF wait THEN Released(grant.mutex) ELSE grant.mutex
            <4>1. mutex \in {"raw", "free", "held"}
                BY <2>2, <3>2
            <4>2. rspMutex' = [rspMutex EXCEPT ![addr[u]] = mutex]
                BY <3>1
            <4> HIDE DEF mutex
            <4> QED
                BY <4>1, <4>2
        <3>4. \E place \in {"waiting", "lockLine", "stuck"} :
                rspPc' = [rspPc EXCEPT ![u] = place]
            <4> HIDE DEF TypeInv, TypeOK, PlaceInv
            <4> DEFINE place == IF wait THEN "waiting" ELSE Goes(grant, "lockLine")
            <4>1. place \in {"waiting", "lockLine", "stuck"}
                BY <2>2
            <4>2. rspPc' = [rspPc EXCEPT ![u] = place]
                BY <3>1
            <4> HIDE DEF place
            <4> QED
                BY <4>1, <4>2
        <3> QED
            BY <3>3, <3>4
    <2> QED
        BY SMTT(30), <1>0, <1>1, <2>3, <2>4 DEF RspLock
<1>2. CASE RspRelock(u)
    <2>1. PICK grant :
             /\ grant \in Grants(rspMutex[addr[u]])
             /\ rspMutex' = [rspMutex EXCEPT ![addr[u]] = grant.mutex]
             /\ rspPc' = [rspPc EXCEPT ![u] = Goes(grant, "lockLine")]
        BY <1>2 DEF RspRelock
    <2>2. /\ grant.mutex \in {"raw", "held"}
          /\ Goes(grant, "lockLine") \in {"lockLine", "stuck"}
        <3>1. rspMutex[addr[u]] \in Mutexes
            BY <1>0, <1>2 DEF RspRelock, Mutexes
        <3> HIDE DEF TypeInv, TypeOK, PlaceInv
        <3> QED
            BY <2>1, <3>1, GrantTypes
    <2>3. causes' \subseteq {"early", "busy", "hasty", "astir", "inside", "spurious"}
        BY <1>2, EarlyTypes DEF RspRelock
    <2> QED
        BY SMTT(30), <1>0, <1>2, <2>1, <2>2, <2>3 DEF RspRelock
<1>3. CASE RspLockLine(u)
    <2>1. PICK grant :
             /\ grant \in Grants(lineMutex[addr[u]])
             /\ lineMutex' = [lineMutex EXCEPT ![addr[u]] = grant.mutex]
             /\ rspPc' = [rspPc EXCEPT ![u] = Goes(grant, "drain")]
        BY <1>3 DEF RspLockLine
    <2>2. /\ grant.mutex \in {"raw", "held"}
          /\ Goes(grant, "drain") \in {"drain", "stuck"}
        <3>1. lineMutex[addr[u]] \in Mutexes
            BY <1>0, <1>3 DEF RspLockLine, Mutexes
        <3> HIDE DEF TypeInv, TypeOK, PlaceInv
        <3> QED
            BY <2>1, <3>1, GrantTypes
    <2>3. causes' \subseteq {"early", "busy", "hasty", "astir", "inside", "spurious"}
        BY <1>3, EarlyTypes DEF RspLockLine
    <2> QED
        BY <1>0, <1>3, <2>1, <2>2, <2>3 DEF RspLockLine
<1>4. CASE RspWrite(u)
    <2> DEFINE q == rspQueue[addr[u]]
    <2>1. /\ addr[u] \in Addresses /\ sock[addr[u]] \in Sockets
          /\ q \in Seq(Messages) /\ q # <<>>
          /\ rspQueue' = [rspQueue EXCEPT ![addr[u]] = Tail(q)]
          /\ Write(addr[u], <<Head(q)>>)
        BY <1>0, <1>4 DEF RspWrite
    <2>2. Tail(q) \in Seq(Messages) /\ <<Head(q)>> \in Seq(Messages)
        BY <2>1
    <2>3. screen' \in [Users -> Seq(Messages)]
        BY <2>1, <2>2, WriteTypes
    <2>4. rspQueue' \in [Addresses -> Seq(Messages)]
        BY <2>1, <2>2
    <2> QED
        BY <1>4, <2>3, <2>4 DEF RspWrite
<1>5. CASE RspUnlock(u)
    BY SMTT(30), <1>0, <1>5 DEF RspUnlock, Released
<1> QED
    BY <1>1, <1>2, <1>3, <1>4, <1>5 DEF Rsp

LEMMA TypeEnvironment == TypeInv /\ Environment => TypeInv'
<1> SUFFICES ASSUME TypeInv, Environment PROVE TypeInv'
    OBVIOUS
<1> USE DEF TypeInv, TypeOK, PlaceInv, memVars, mainVars, serverVars, userVars
<1>1. ASSUME NEW u \in Users, Accept(u) PROVE TypeInv'
    <2> DEFINE free == {d \in Sockets : peer[d] = NoUser}
    <2>1. PICK a \in Addresses \ live :
             /\ free # {}
             /\ peer' = [peer EXCEPT ![Min(free)] = u]
             /\ sock' = [sock EXCEPT ![a] = Min(free)]
             /\ live' = live \union {a}
             /\ addr' = [addr EXCEPT ![u] = a]
             /\ rspQueue' = [rspQueue EXCEPT ![a] = <<>>]
             /\ rspMutex' = [rspMutex EXCEPT ![a] = "raw"]
             /\ lineMutex' = [lineMutex EXCEPT ![a] = "raw"]
        BY <1>1 DEF Accept
    <2>2. free \subseteq Sockets /\ free \subseteq Nat
        BY LifeAssumption
    <2> HIDE DEF free
    <2>3. Min(free) \in Sockets
        BY <2>1, <2>2, LeastSocket
    <2>4. PICK place \in {"header", "failed"} :
             clientPc' = [clientPc EXCEPT ![u] = place]
        BY <1>1 DEF Accept
    <2>5. /\ addr[u] = NoAddress /\ mainPc' = "initialise" /\ setting' = u
          /\ UNCHANGED <<rspPc, serverVars, userVars, causes>>
        BY <1>1 DEF Accept
    <2>6. a # NoAddress /\ u # NoUser
        BY LifeAssumption
    <2>7. TypeOK'
        BY <2>1, <2>3, <2>4, <2>5
    <2>8. PlaceInv'
        BY <2>1, <2>3, <2>4, <2>5, <2>6
    <2> QED
        BY <2>7, <2>8
<1>2. ASSUME NEW u \in Users, Type(u) PROVE TypeInv'
    BY SMTT(30), <1>2 DEF Type
<1>3. ASSUME NEW u \in Users, HangUp(u) PROVE TypeInv'
    BY <1>3 DEF HangUp
<1>4. ASSUME NEW u \in Users, RspSpuriousWake(u) PROVE TypeInv'
    BY <1>4 DEF RspSpuriousWake
<1> QED
    BY <1>1, <1>2, <1>3, <1>4 DEF Environment

LEMMA TypeNext == TypeInv /\ [Next]_vars => TypeInv'
<1>1. CASE UNCHANGED vars
    BY <1>1 DEF vars, memVars, mainVars, serverVars, userVars, TypeInv, TypeOK,
                PlaceInv
<1> QED
    BY <1>1, TypeMain, TypeServer, TypeEnvironment, TypeClient, TypeRsp DEF Next

\* Every variable has its type, whatever is freed and used again.
THEOREM LifeTypeCorrect == Spec => []TypeOK
<1> QED
    BY TypeInit, TypeNext, PTL DEF Spec, TypeInv
-----------------------------------------------------------------------------
(* Who has a connection.                                                   *)

\* From accept to freeConnection, and until its socket is closed.
Owner(u) == clientPc[u] \notin {"none", "gone"}
Open(u) == clientPc[u] \notin {"none", "close", "gone"}

\* A connection has one owner, and the descriptor of an open one leads to it.
OwnerInv ==
    /\ \A u \in Users : Owner(u) => addr[u] \in live
    /\ \A u, v \in Users : Owner(u) /\ Owner(v) /\ addr[u] = addr[v] => u = v
    /\ \A u \in Users : Open(u) => peer[sock[addr[u]]] = u
    /\ \A d \in Sockets : peer[d] # NoUser =>
          Open(peer[d]) /\ sock[addr[peer[d]]] = d

\* The steps that neither make nor close nor free a connection.
QuietClient(u) == \/ ClientHeader(u) \/ ClientLockQueue(u) \/ ClientGreet(u)
                  \/ ClientKey(u) \/ ClientPutCommand(u) \/ ClientRedraw(u)
QuietUser(u) == Type(u) \/ HangUp(u) \/ RspSpuriousWake(u)
Quiet == \/ Main \/ Server
         \/ \E u \in Users : QuietClient(u) \/ Rsp(u) \/ QuietUser(u)

LEMMA NextSteps ==
    Next => Quiet \/ \E u \in Users : Accept(u) \/ ClientClose(u) \/ ClientFree(u)
BY DEF Next, Environment, Client, Quiet, QuietClient, QuietUser

LEMMA QuietClientMoves ==
    ASSUME TypeInv, NEW u \in Users, QuietClient(u)
    PROVE  /\ UNCHANGED <<live, sock, peer, addr, mainPc, setting>>
           /\ clientPc[u] \in {"header", "greet", "greeting", "recv", "put", "redraw"}
           /\ clientPc'[u] \in {"greet", "greeting", "recv", "put", "redraw", "stuck"}
           /\ \A v \in Users : v # u => clientPc'[v] = clientPc[v]
<1> DEFINE from == {"header", "greet", "greeting", "recv", "put", "redraw"}
           to == {"greet", "greeting", "recv", "put", "redraw", "stuck"}
<1>0. clientPc = [v \in Users |-> clientPc[v]]
    BY DEF TypeInv, TypeOK
<1>1. /\ UNCHANGED <<live, sock, peer, addr, mainPc, setting>>
      /\ clientPc[u] \in from
      /\ \E place \in to : clientPc' = [clientPc EXCEPT ![u] = place]
    BY DEF QuietClient, ClientHeader, ClientLockQueue, ClientGreet, ClientKey,
           ClientPutCommand, ClientRedraw, Goes, memVars, mainVars
<1> QED
    BY <1>0, <1>1

LEMMA OwnersKept ==
    ASSUME TypeInv, Quiet
    PROVE  /\ UNCHANGED <<live, sock, peer, addr>>
           /\ \A v \in Users : (Owner(v)' <=> Owner(v)) /\ (Open(v)' <=> Open(v))
<1>1. CASE Main
    BY <1>1 DEF Main, Initialise, MakeRecursive, StartRsp, RspStatus, Owner, Open,
                memVars
<1>2. CASE Server
    BY <1>2 DEF Server, ServerGet, ServerLockQueue, ServerPutResponse,
                ServerUnlock, Owner, Open, memVars, mainVars
<1>3. ASSUME NEW u \in Users, QuietClient(u)
      PROVE  /\ UNCHANGED <<live, sock, peer, addr>>
             /\ \A v \in Users : (Owner(v)' <=> Owner(v)) /\ (Open(v)' <=> Open(v))
    BY <1>3, QuietClientMoves DEF Owner, Open
<1>4. ASSUME NEW u \in Users, Rsp(u)
      PROVE  UNCHANGED <<live, sock, peer, addr, clientPc>>
    BY <1>4 DEF Rsp, RspLock, RspRelock, RspLockLine, RspWrite, RspUnlock, mainVars
<1>5. ASSUME NEW u \in Users, QuietUser(u)
      PROVE  UNCHANGED <<live, sock, peer, addr, clientPc>>
    BY <1>5 DEF QuietUser, Type, HangUp, RspSpuriousWake, memVars, mainVars
<1> QED
    BY <1>1, <1>2, <1>3, <1>4, <1>5 DEF Quiet, Owner, Open

\* What Accept does, with the address and the descriptor it chose.
Accepts(u, a, d, place) ==
    /\ mainPc = "accept" /\ mainPc' = "initialise" /\ setting' = u
    /\ addr[u] = NoAddress /\ addr' = [addr EXCEPT ![u] = a]
    /\ a \in Addresses /\ a \notin live /\ live' = live \union {a}
    /\ d \in Sockets /\ peer[d] = NoUser
    /\ peer' = [peer EXCEPT ![d] = u] /\ sock' = [sock EXCEPT ![a] = d]
    /\ rspQueue' = [rspQueue EXCEPT ![a] = <<>>]
    /\ rspMutex' = [rspMutex EXCEPT ![a] = "raw"]
    /\ lineMutex' = [lineMutex EXCEPT ![a] = "raw"]
    /\ place \in {"header", "failed"} /\ clientPc[u] = "none"
    /\ clientPc' = [clientPc EXCEPT ![u] = place]
    /\ UNCHANGED <<rspPc, serverPc, cmd, commandQueue, inbox, typed, issued, hungUp,
                   screen, causes>>

LEMMA AcceptChooses ==
    ASSUME TypeInv, NEW u \in Users, Accept(u)
    PROVE  \E a, d, place : Accepts(u, a, d, place)
<1> DEFINE free == {d \in Sockets : peer[d] = NoUser}
<1>1. PICK a \in Addresses \ live :
         /\ free # {}
         /\ peer' = [peer EXCEPT ![Min(free)] = u]
         /\ sock' = [sock EXCEPT ![a] = Min(free)]
         /\ live' = live \union {a}
         /\ addr' = [addr EXCEPT ![u] = a]
         /\ rspQueue' = [rspQueue EXCEPT ![a] = <<>>]
         /\ rspMutex' = [rspMutex EXCEPT ![a] = "raw"]
         /\ lineMutex' = [lineMutex EXCEPT ![a] = "raw"]
    BY DEF Accept
<1>2. PICK place \in {"header", "failed"} :
         clientPc' = [clientPc EXCEPT ![u] = place]
    BY DEF Accept
<1>3. free \subseteq Nat
    BY LifeAssumption
<1>4. Min(free) \in free
    <2> HIDE DEF free
    <2> QED
        BY <1>1, <1>3, LeastSocket
<1>5. Min(free) \in Sockets /\ peer[Min(free)] = NoUser
    BY <1>4
<1> HIDE DEF free
<1>6. Accepts(u, a, Min(free), place)
    BY <1>1, <1>2, <1>5 DEF Accepts, Accept, TypeInv, PlaceInv, serverVars, userVars
<1> QED
    BY <1>6

LEMMA OwnerNext == TypeInv /\ OwnerInv /\ [Next]_vars => OwnerInv'
<1> SUFFICES ASSUME TypeInv, OwnerInv, [Next]_vars PROVE OwnerInv'
    OBVIOUS
<1>1. CASE UNCHANGED vars
    BY <1>1 DEF vars, memVars, mainVars, OwnerInv, Owner, Open
<1>2. CASE Quiet
    <2>1. /\ UNCHANGED <<live, sock, peer, addr>>
          /\ \A v \in Users : (Owner(v)' <=> Owner(v)) /\ (Open(v)' <=> Open(v))
        BY <1>2, OwnersKept
    <2>2. \A d \in Sockets : peer[d] # NoUser => peer[d] \in Users
        BY DEF TypeInv, TypeOK
    <2> QED
        BY <2>1, <2>2 DEF OwnerInv
<1>3. ASSUME NEW u \in Users, Accept(u) PROVE OwnerInv'
    <2>1. PICK a, d, place : Accepts(u, a, d, place)
        BY <1>3, AcceptChooses
    <2>2. /\ addr'[u] = a /\ sock'[a] = d /\ peer'[d] = u
          /\ \A v \in Users : v # u =>
                addr'[v] = addr[v] /\ clientPc'[v] = clientPc[v]
          /\ \A b \in Addresses : b # a => sock'[b] = sock[b]
          /\ \A e \in Sockets : e # d => peer'[e] = peer[e]
          /\ clientPc'[u] \in {"header", "failed"}
        BY <2>1 DEF Accepts, TypeInv, TypeOK
    <2>3. \A v \in Users : Owner(v) => addr[v] \in live /\ addr[v] # a
        BY <2>1 DEF Accepts, OwnerInv
    <2>4. \A v \in Users : v # u => (Owner(v)' <=> Owner(v)) /\ (Open(v)' <=> Open(v))
        BY <2>2 DEF Owner, Open
    <2>5. \A v \in Users : Open(v) => Owner(v) /\ addr[v] \in Addresses
        BY <2>3 DEF Owner, Open, TypeInv, TypeOK
    <2>6. ~Open(u) /\ ~Owner(u) /\ peer[d] = NoUser /\ d \in Sockets /\ u # NoUser
        BY <2>1, LifeAssumption DEF Accepts, Open, Owner
    <2>7. \A v \in Users : Open(v) => sock[addr[v]] # d /\ sock[addr[v]] \in Sockets
        BY <2>5, <2>6, LifeAssumption DEF OwnerInv, TypeInv, PlaceInv, Open
    <2>8. \A e \in Sockets : peer[e] # NoUser => peer[e] \in Users /\ peer[e] # u
        BY <2>6 DEF OwnerInv, TypeInv, TypeOK
    <2>9. \A v \in Users : Owner(v)' => addr'[v] \in live'
        BY <2>1, <2>2, <2>3, <2>4 DEF Accepts
    <2>10. \A v, w \in Users : Owner(v)' /\ Owner(w)' /\ addr'[v] = addr'[w] => v = w
        BY <2>2, <2>3, <2>4 DEF OwnerInv
    <2>11. \A v \in Users : Open(v)' => peer'[sock'[addr'[v]]] = v
        BY <2>2, <2>3, <2>4, <2>5, <2>7 DEF OwnerInv
    <2>12. \A e \in Sockets : peer'[e] # NoUser =>
              Open(peer[e])' /\ sock'[addr'[peer'[e]]] = e
        BY <2>2, <2>3, <2>4, <2>5, <2>8 DEF OwnerInv, Open
    <2> QED
        BY <2>9, <2>10, <2>11, <2>12 DEF OwnerInv
<1>4. ASSUME NEW u \in Users, ClientClose(u) PROVE OwnerInv'
    <2> DEFINE d == sock[addr[u]]
    <2>1. /\ clientPc[u] = "recv" /\ clientPc'[u] = "close"
          /\ \A v \in Users : v # u => clientPc'[v] = clientPc[v]
          /\ peer' = [peer EXCEPT ![d] = NoUser]
          /\ UNCHANGED <<live, sock, addr>>
        BY <1>4 DEF ClientClose, TypeInv, TypeOK, mainVars
    <2>2. Open(u) /\ d \in Sockets /\ peer[d] = u
        BY <2>1 DEF Open, OwnerInv, TypeInv, PlaceInv
    <2>3. /\ peer'[d] = NoUser
          /\ \A e \in Sockets : e # d => peer'[e] = peer[e]
        BY <2>1, <2>2 DEF TypeInv, TypeOK
    <2>4. /\ Owner(u) /\ Owner(u)' /\ ~Open(u)'
          /\ \A v \in Users : v # u => (Owner(v)' <=> Owner(v)) /\ (Open(v)' <=> Open(v))
        BY <2>1 DEF Owner, Open
    <2>5. \A v \in Users : Open(v) => sock[addr[v]] \in Sockets
        BY DEF TypeInv, PlaceInv, Open
    <2>6. \A e \in Sockets : peer[e] # NoUser => peer[e] \in Users
        BY DEF TypeInv, TypeOK
    <2> HIDE DEF d
    <2>7. \A v \in Users : Open(v)' => peer'[sock'[addr'[v]]] = v
        BY <2>1, <2>2, <2>3, <2>4, <2>5 DEF OwnerInv
    <2>8. \A e \in Sockets : peer'[e] # NoUser =>
             Open(peer[e])' /\ sock'[addr'[peer'[e]]] = e
        BY <2>1, <2>2, <2>3, <2>4, <2>6 DEF OwnerInv, d, Open
    <2> QED
        BY <2>1, <2>4, <2>7, <2>8 DEF OwnerInv
<1>5. ASSUME NEW u \in Users, ClientFree(u) PROVE OwnerInv'
    <2>1. /\ clientPc[u] = "close" /\ clientPc'[u] = "gone"
          /\ \A v \in Users : v # u => clientPc'[v] = clientPc[v]
          /\ live' = live \ {addr[u]}
          /\ UNCHANGED <<peer, sock, addr>>
        BY <1>5 DEF ClientFree, TypeInv, TypeOK, mainVars
    <2>2. /\ Owner(u) /\ ~Owner(u)' /\ ~Open(u) /\ ~Open(u)'
          /\ \A v \in Users : v # u => (Owner(v)' <=> Owner(v)) /\ (Open(v)' <=> Open(v))
        BY <2>1 DEF Owner, Open
    <2>3. \A e \in Sockets : peer[e] # NoUser => peer[e] \in Users
        BY DEF TypeInv, TypeOK
    <2> QED
        BY <2>1, <2>2, <2>3 DEF OwnerInv
<1> QED
    BY <1>1, <1>2, <1>3, <1>4, <1>5, NextSteps

LEMMA OwnerInit == Init => OwnerInv
BY DEF Init, OwnerInv, Owner, Open
-----------------------------------------------------------------------------
(* Main and the response threads on freed memory.                          *)

\* Main's connection has its owner until that user leaves while being set up.
HastyInv == "hasty" \notin causes => (mainPc # "accept" => Owner(setting))

\* A response thread that is not asleep has its connection until a user leaves
\* with one that is not, or a thread wakes by itself.
Active(u) == rspPc[u] \in {"lock", "woken", "lockLine", "drain"}
AstirInv ==
    causes \intersect {"astir", "spurious"} = {} =>
       \A u \in Users : Active(u) => addr[u] \in live

LEMMA CausesGrow == [Next]_vars => causes \subseteq causes'
<1>1. CASE UNCHANGED vars
    BY <1>1 DEF vars
<1>2. CASE Main
    BY <1>2 DEF Main, Initialise, MakeRecursive, StartRsp, RspStatus
<1>3. CASE Server
    BY <1>3 DEF Server, ServerGet, ServerLockQueue, ServerPutResponse,
                ServerUnlock, Early
<1>4. ASSUME NEW u \in Users, Client(u) PROVE causes \subseteq causes'
    BY <1>4 DEF Client, ClientHeader, ClientLockQueue, ClientGreet, ClientKey,
                ClientPutCommand, ClientRedraw, ClientClose, ClientFree, Early
<1>5. ASSUME NEW u \in Users, Rsp(u) PROVE causes \subseteq causes'
    BY <1>5 DEF Rsp, RspLock, RspRelock, RspLockLine, RspWrite, RspUnlock, Early
<1>6. CASE Environment
    BY <1>6 DEF Environment, Accept, Type, HangUp, RspSpuriousWake
<1> QED
    BY <1>1, <1>2, <1>3, <1>4, <1>5, <1>6 DEF Next

LEMMA HastyNext == TypeInv /\ HastyInv /\ [Next]_vars => HastyInv'
<1> SUFFICES ASSUME TypeInv, HastyInv, [Next]_vars, "hasty" \notin causes',
                    mainPc' # "accept"
             PROVE  Owner(setting)'
    BY DEF HastyInv
<1>0. "hasty" \notin causes /\ (mainPc # "accept" => setting \in Users /\ Owner(setting))
    BY CausesGrow DEF HastyInv, TypeInv, TypeOK, PlaceInv
<1>1. CASE UNCHANGED vars
    BY <1>0, <1>1 DEF vars, mainVars, Owner
<1>2. CASE Quiet
    <2>1. mainPc # "accept" /\ setting' = setting
        <3>1. CASE Main
            BY <3>1 DEF Main, Initialise, MakeRecursive, StartRsp, RspStatus
        <3>2. CASE Server
            BY <3>2 DEF Server, ServerGet, ServerLockQueue, ServerPutResponse,
                        ServerUnlock, mainVars
        <3>3. ASSUME NEW u \in Users, QuietClient(u) PROVE UNCHANGED <<mainPc, setting>>
            BY <3>3, QuietClientMoves
        <3>4. ASSUME NEW u \in Users, Rsp(u) PROVE UNCHANGED <<mainPc, setting>>
            BY <3>4 DEF Rsp, RspLock, RspRelock, RspLockLine, RspWrite, RspUnlock,
                        mainVars
        <3>5. ASSUME NEW u \in Users, QuietUser(u) PROVE UNCHANGED <<mainPc, setting>>
            BY <3>5 DEF QuietUser, Type, HangUp, RspSpuriousWake, mainVars
        <3> QED
            BY <1>2, <3>1, <3>2, <3>3, <3>4, <3>5 DEF Quiet
    <2>2. \A v \in Users : Owner(v)' <=> Owner(v)
        BY <1>2, OwnersKept
    <2> QED
        BY <1>0, <2>1, <2>2 DEF Owner
<1>3. ASSUME NEW u \in Users, Accept(u) PROVE Owner(setting)'
    <2>1. PICK a, d, place : Accepts(u, a, d, place)
        BY <1>3, AcceptChooses
    <2> QED
        BY <2>1 DEF Accepts, Owner, TypeInv, TypeOK
<1>4. ASSUME NEW u \in Users, ClientClose(u) PROVE Owner(setting)'
    BY <1>0, <1>4 DEF ClientClose, Owner, TypeInv, TypeOK, mainVars
<1>5. ASSUME NEW u \in Users, ClientFree(u) PROVE Owner(setting)'
    BY <1>0, <1>5 DEF ClientFree, Hasty, Owner, TypeInv, TypeOK, mainVars
<1> QED
    BY <1>1, <1>2, <1>3, <1>4, <1>5, NextSteps

\* A signal wakes threads on a connection that is still there.
LEMMA AstirPut ==
    ASSUME TypeInv, AstirInv, NEW a \in live, NEW m, rspPc' \in Signal(a),
           UNCHANGED <<live, addr, causes>>
    PROVE  AstirInv'
<1>1. rspPc = [v \in Users |-> rspPc[v]]
    BY DEF TypeInv, TypeOK
<1>2. \A v \in Users : rspPc'[v] = rspPc[v] \/ addr[v] = a
    BY <1>1, SignalWakes
<1> QED
    BY <1>2 DEF AstirInv, Active

LEMMA AstirNext == TypeInv /\ OwnerInv /\ AstirInv /\ [Next]_vars => AstirInv'
<1> SUFFICES ASSUME TypeInv, OwnerInv, AstirInv, [Next]_vars PROVE AstirInv'
    OBVIOUS
<1>0. causes \subseteq causes'
    BY CausesGrow
<1>1. ASSUME UNCHANGED <<live, addr, rspPc>> PROVE AstirInv'
    BY <1>0, <1>1 DEF AstirInv, Active
<1>2. CASE UNCHANGED vars
    BY <1>1, <1>2 DEF vars, memVars, mainVars
<1>3. CASE Main
    <2>1. CASE StartRsp
        <3>1. setting \in Users
            BY <2>1 DEF StartRsp, TypeInv, TypeOK, PlaceInv
        <3>2. \A v \in Users : v # setting => rspPc'[v] = rspPc[v]
            BY <2>1 DEF StartRsp, TypeInv, TypeOK
        <3>3. addr[setting] \in live /\ UNCHANGED <<live, addr, causes>>
            BY <2>1 DEF StartRsp, memVars
        <3> QED
            BY <3>1, <3>2, <3>3 DEF AstirInv, Active
    <2>2. CASE Initialise \/ MakeRecursive \/ RspStatus
        BY <1>1, <2>2 DEF Initialise, MakeRecursive, RspStatus, memVars
    <2> QED
        BY <1>3, <2>1, <2>2 DEF Main
<1>4. CASE Server
    <2>1. CASE ServerPutResponse
        BY <2>1, AstirPut DEF ServerPutResponse, PutResponse, mainVars
    <2>2. CASE ServerGet \/ ServerLockQueue \/ ServerUnlock
        BY <1>1, <2>2 DEF ServerGet, ServerLockQueue, ServerUnlock, memVars, mainVars
    <2> QED
        BY <1>4, <2>1, <2>2 DEF Server
<1>5. ASSUME NEW u \in Users, QuietClient(u) PROVE AstirInv'
    <2>1. CASE ClientGreet(u)
        <3>1. addr[u] \in live
            BY <2>1 DEF ClientGreet, OwnerInv, Owner
        <3> QED
            BY <2>1, <3>1, AstirPut DEF ClientGreet, PutResponse, mainVars
    <2>2. CASE ~ClientGreet(u)
        BY <1>1, <1>5, <2>2 DEF QuietClient, ClientHeader, ClientLockQueue, ClientKey,
           ClientPutCommand, ClientRedraw, memVars, mainVars
    <2> QED
        BY <2>1, <2>2
<1>6. ASSUME NEW u \in Users, Rsp(u) PROVE AstirInv'
    <2>1. /\ addr[u] \in live /\ UNCHANGED <<live, addr>>
          /\ \A v \in Users : v # u => rspPc'[v] = rspPc[v]
        BY <1>6 DEF Rsp, RspLock, RspRelock, RspLockLine, RspWrite, RspUnlock,
                    mainVars, TypeInv, TypeOK
    <2> QED
        BY <1>0, <2>1 DEF AstirInv, Active
<1>7. ASSUME NEW u \in Users, QuietUser(u) PROVE AstirInv'
    <2>1. CASE RspSpuriousWake(u)
        BY <2>1 DEF RspSpuriousWake, AstirInv
    <2>2. CASE Type(u) \/ HangUp(u)
        BY <1>1, <2>2 DEF Type, HangUp, memVars, mainVars
    <2> QED
        BY <1>7, <2>1, <2>2 DEF QuietUser
<1>8. ASSUME NEW u \in Users, Accept(u) PROVE AstirInv'
    <2>1. PICK a, d, place : Accepts(u, a, d, place)
        BY <1>8, AcceptChooses
    <2>2. /\ rspPc' = rspPc /\ rspPc[u] = "none" /\ live \subseteq live'
          /\ \A v \in Users : v # u => addr'[v] = addr[v]
        BY <2>1 DEF Accepts, TypeInv, TypeOK, PlaceInv
    <2> QED
        BY <1>0, <2>2 DEF AstirInv, Active
<1>9. ASSUME NEW u \in Users, ClientClose(u) PROVE AstirInv'
    BY <1>1, <1>9 DEF ClientClose, mainVars
<1>10. ASSUME NEW u \in Users, ClientFree(u) PROVE AstirInv'
    <2>1. /\ UNCHANGED <<addr, rspPc>> /\ live' = live \ {addr[u]}
          /\ Astir(addr[u]) \subseteq causes'
        BY <1>10 DEF ClientFree, mainVars
    <2>2. ASSUME NEW v \in Users, Active(v), addr[v] = addr[u]
          PROVE  "astir" \in causes'
        BY <2>1, <2>2 DEF Active, Astir
    <2> QED
        BY <1>0, <2>1, <2>2 DEF AstirInv, Active
<1> QED
    BY <1>2, <1>3, <1>4, <1>5, <1>6, <1>7, <1>8, <1>9, <1>10, NextSteps DEF Quiet

-----------------------------------------------------------------------------
(* The places of a queue that hold a member of M.                          *)

Hits(q, M) == {k \in DOMAIN q : q[k] \in M}
Count(q, M) == Cardinality(Hits(q, M))

LEMMA HitsFinite ==
    ASSUME NEW T, NEW q \in Seq(T), NEW M
    PROVE  IsFiniteSet(Hits(q, M)) /\ Count(q, M) \in Nat
<1>1. DOMAIN q = 1..Len(q) /\ Len(q) \in Int
    OBVIOUS
<1>2. IsFiniteSet(1..Len(q))
    BY <1>1, FS_Interval
<1>3. Hits(q, M) \subseteq 1..Len(q)
    BY <1>1 DEF Hits
<1> QED
    BY <1>2, <1>3, FS_Subset, FS_CardinalityType DEF Count

LEMMA CountEmpty == \A M : Count(<<>>, M) = 0
<1>1. \A M : Hits(<<>>, M) = {}
    BY DEF Hits
<1> QED
    BY <1>1, FS_EmptySet DEF Count

LEMMA CountAppend ==
    ASSUME NEW T, NEW q \in Seq(T), NEW e \in T, NEW M
    PROVE  Count(Append(q, e), M) = Count(q, M) + (IF e \in M THEN 1 ELSE 0)
<1> DEFINE n == Len(q) + 1
<1>1. /\ n \notin DOMAIN q
      /\ DOMAIN Append(q, e) = DOMAIN q \union {n}
      /\ Append(q, e)[n] = e
      /\ \A k \in DOMAIN q : Append(q, e)[k] = q[k]
    OBVIOUS
<1> HIDE DEF n
<1>2. n \notin Hits(q, M)
    BY <1>1 DEF Hits
<1>3. Hits(Append(q, e), M) = IF e \in M THEN Hits(q, M) \union {n} ELSE Hits(q, M)
    BY <1>1 DEF Hits
<1>4. IsFiniteSet(Hits(q, M)) /\ Count(q, M) \in Nat
    BY HitsFinite
<1>5. CASE e \in M
    <2>1. Cardinality(Hits(q, M) \union {n}) = Cardinality(Hits(q, M)) + 1
        BY <1>2, <1>4, FS_AddElement
    <2> QED
        BY <1>3, <1>5, <2>1 DEF Count
<1>6. CASE e \notin M
    BY <1>3, <1>4, <1>6 DEF Count
<1> QED
    BY <1>5, <1>6

LEMMA CountTail ==
    ASSUME NEW T, NEW q \in Seq(T), q # <<>>, NEW M
    PROVE  Count(q, M) = Count(Tail(q), M) + (IF Head(q) \in M THEN 1 ELSE 0)
<1> DEFINE S == Hits(Tail(q), M)
           R == Hits(q, M) \ {1}
           f == [k \in S |-> k + 1]
<1>1. /\ DOMAIN q = 1..Len(q) /\ Len(q) \in Nat /\ Len(q) > 0
      /\ DOMAIN Tail(q) = 1..(Len(q) - 1)
      /\ \A k \in 1..(Len(q) - 1) : Tail(q)[k] = q[k + 1]
      /\ Head(q) = q[1]
    OBVIOUS
<1>2. Tail(q) \in Seq(T)
    OBVIOUS
<1>3. \A k : k \in S <=> k \in 1..(Len(q) - 1) /\ q[k + 1] \in M
    BY <1>1 DEF Hits
<1>4. \A k : k \in R <=> k \in 2..Len(q) /\ q[k] \in M
    BY <1>1 DEF Hits
<1> HIDE DEF S, R
<1>5. \A k \in S : k + 1 \in R
    BY <1>1, <1>3, <1>4
<1>6. \A k \in R : k - 1 \in S /\ f[k - 1] = k
    BY <1>1, <1>3, <1>4
<1>7. \A j, k \in S : j + 1 = k + 1 => j = k
    BY <1>3
<1>8. f \in Bijection(S, R)
    <2>1. f \in [S -> R]
        BY <1>5
    <2>2. \A j, k \in S : f[j] = f[k] => j = k
        BY <1>7
    <2> HIDE DEF f
    <2>3. \A k \in R : \E j \in S : f[j] = k
        BY <1>6
    <2> QED
        BY <2>1, <2>2, <2>3 DEF Bijection, Injection, Surjection, IsInjective
<1>9. IsFiniteSet(S) /\ Count(Tail(q), M) \in Nat
    BY <1>2, HitsFinite DEF S
<1>10. IsFiniteSet(R) /\ Cardinality(R) = Count(Tail(q), M)
    BY <1>8, <1>9, FS_Bijection DEF ExistsBijection, Count, S
<1>11. IsFiniteSet(Hits(q, M)) /\ Count(q, M) \in Nat
    BY HitsFinite
<1>12. 1 \in Hits(q, M) <=> Head(q) \in M
    BY <1>1 DEF Hits
<1>13. Cardinality(R) = IF 1 \in Hits(q, M) THEN Count(q, M) - 1 ELSE Count(q, M)
    BY <1>11, FS_RemoveElement DEF R, Count
<1> QED
    BY <1>9, <1>10, <1>11, <1>12, <1>13

LEMMA CountPositive ==
    ASSUME NEW T, NEW q \in Seq(T), NEW M, NEW k \in DOMAIN q, q[k] \in M
    PROVE  Count(q, M) > 0
<1>1. k \in Hits(q, M)
    BY DEF Hits
<1>2. IsFiniteSet(Hits(q, M)) /\ Count(q, M) \in Nat
    BY HitsFinite
<1> QED
    BY <1>1, <1>2, FS_EmptySet DEF Count

LEMMA CountZero ==
    ASSUME NEW T, NEW q \in Seq(T), NEW M, \A k \in DOMAIN q : q[k] \notin M
    PROVE  Count(q, M) = 0
<1>1. Hits(q, M) = {}
    BY DEF Hits
<1> QED
    BY <1>1, FS_EmptySet DEF Count
-----------------------------------------------------------------------------
(* The messages and the commands of a user.                                *)

AllAnswers == {m \in Messages : m.kind = "answer"}
AnswersTo(u) == {m \in Messages : m.kind = "answer" /\ m.to = u}
CommandsOf(u) == {x \in Commands : x.from = u}

Shown(u) == Count(screen[u], AllAnswers)
Due(u) == Count(rspQueue[addr[u]], AnswersTo(u))
Asked(u) == Count(commandQueue, CommandsOf(u))
InHand(u) == IF cmd.from = u THEN 1 ELSE 0

Unstarted(u) == clientPc[u] \in {"none", "failed", "header", "greet", "greeting"}
Started(u) == clientPc[u] \in {"recv", "put", "redraw"}
Leaving(u) == clientPc[u] \in {"close", "gone"}

\* Each command of a user is on its way in one place, or answered.
Books ==
    \A u \in Users : addr[u] # NoAddress =>
       Shown(u) + Due(u) + Asked(u) + InHand(u) = issued[u]

\* Who has hung up has been served, and nobody else is made to leave.
Left ==
    /\ \A u \in Users : hungUp[u] =>
          /\ clientPc[u] = "recv" \/ Leaving(u)
          /\ inbox[u] = 0 /\ screen[u] # <<>> /\ Shown(u) = issued[u]
    /\ \A u \in Users : Leaving(u) => hungUp[u]

\* A command points to the connection of the user who typed it.
OwnCommands ==
    /\ \A i \in DOMAIN commandQueue : commandQueue[i].con = addr[commandQueue[i].from]
    /\ cmd # NoCommand => cmd.con = addr[cmd.from]

\* A message is queued on the connection of its user, and the greeting is the
\* first that is queued or written.
OwnMessages ==
    \A a \in Addresses : \A i \in DOMAIN rspQueue[a] :
       /\ addr[rspQueue[a][i].to] = a
       /\ rspQueue[a][i].kind = "greeting" <=> (i = 1 /\ screen[rspQueue[a][i].to] = <<>>)

OwnLines ==
    \A u \in Users : \A k \in DOMAIN screen[u] :
       screen[u][k].to = u /\ (screen[u][k].kind = "greeting" <=> k = 1)

Greetings ==
    /\ \A u \in Users : Unstarted(u) =>
          /\ screen[u] = <<>> /\ issued[u] = 0
          /\ addr[u] # NoAddress => rspQueue[addr[u]] = <<>>
    /\ \A u \in Users : issued[u] > 0 \/ Started(u) =>
          screen[u] # <<>> \/ rspQueue[addr[u]] # <<>>

Calm == Books /\ Left /\ OwnCommands /\ OwnMessages /\ OwnLines /\ Greetings
CalmInv == "busy" \notin causes => Calm

LEMMA CalmInit == Init => CalmInv
<1> SUFFICES ASSUME Init PROVE Calm
    BY DEF CalmInv
<1>1. Left /\ OwnCommands /\ OwnMessages /\ OwnLines /\ Greetings
    BY DEF Init, Left, Leaving, OwnCommands, OwnMessages, OwnLines, Greetings,
           Started
<1> QED
    BY <1>1 DEF Init, Calm, Books

\* Counts are numbers.
LEMMA CountTypes ==
    ASSUME TypeInv
    PROVE  /\ \A u \in Users : Shown(u) \in Nat /\ Asked(u) \in Nat /\ InHand(u) \in {0, 1}
           /\ \A u \in Users : addr[u] # NoAddress => Due(u) \in Nat
<1>1. ASSUME NEW u \in Users PROVE Shown(u) \in Nat /\ Asked(u) \in Nat
    <2>1. screen[u] \in Seq(Messages) /\ commandQueue \in Seq(Commands)
        BY DEF TypeInv, TypeOK
    <2> QED
        BY <2>1, HitsFinite DEF Shown, Asked
<1>2. ASSUME NEW u \in Users, addr[u] # NoAddress PROVE Due(u) \in Nat
    <2>1. rspQueue[addr[u]] \in Seq(Messages)
        BY <1>2 DEF TypeInv, TypeOK
    <2> QED
        BY <2>1, HitsFinite DEF Due
<1> QED
    BY <1>1, <1>2 DEF InHand

\* Nothing is on its way to a user who has hung up.
LEMMA NothingDue ==
    ASSUME TypeInv, Calm, NEW u \in Users, hungUp[u]
    PROVE  /\ addr[u] # NoAddress
           /\ Due(u) = 0 /\ Asked(u) = 0 /\ InHand(u) = 0
<1>1. addr[u] # NoAddress
    BY DEF Calm, Left, Leaving, TypeInv, PlaceInv
<1>2. Shown(u) + Due(u) + Asked(u) + InHand(u) = issued[u] /\ Shown(u) = issued[u]
    BY <1>1 DEF Calm, Books, Left
<1>3. /\ Shown(u) \in Nat /\ Due(u) \in Nat /\ Asked(u) \in Nat /\ InHand(u) \in {0, 1}
    BY <1>1, CountTypes
<1> DEFINE a == Shown(u)
           b == Due(u)
           c == Asked(u)
           d == InHand(u)
<1>4. a \in Nat /\ b \in Nat /\ c \in Nat /\ d \in Nat /\ a + b + c + d = a
    BY <1>2, <1>3
<1> HIDE DEF a, b, c, d
<1>5. b = 0 /\ c = 0 /\ d = 0
    BY <1>4
<1> QED
    BY <1>1, <1>5 DEF b, c, d

\* The user of a command, of the command at hand or of a message is there.
Present(u, a) == /\ u \in Users /\ addr[u] = a /\ a \in live /\ ~hungUp[u]
                 /\ Open(u) /\ peer[sock[a]] = u

LEMMA StillThere ==
    ASSUME TypeInv, OwnerInv, Calm, NEW u \in Users, addr[u] # NoAddress, ~hungUp[u]
    PROVE  Present(u, addr[u])
<1>1. clientPc[u] # "none" /\ ~Leaving(u)
    BY DEF Calm, Left, TypeInv, PlaceInv
<1>2. Open(u) /\ Owner(u)
    BY <1>1 DEF Open, Owner, Leaving
<1> QED
    BY <1>2 DEF OwnerInv, Present

LEMMA CommandsPresent ==
    ASSUME TypeInv, OwnerInv, Calm
    PROVE  /\ \A i \in DOMAIN commandQueue :
                 Present(commandQueue[i].from, commandQueue[i].con)
           /\ cmd # NoCommand => Present(cmd.from, cmd.con)
<1>1. ASSUME NEW i \in DOMAIN commandQueue
      PROVE  Present(commandQueue[i].from, commandQueue[i].con)
    <2> DEFINE u == commandQueue[i].from
    <2>1. commandQueue \in Seq(Commands) /\ commandQueue[i] \in Commands
        BY DEF TypeInv, TypeOK
    <2>2. /\ u \in Users /\ addr[u] \in Addresses /\ addr[u] = commandQueue[i].con
          /\ commandQueue[i] \in CommandsOf(u)
        BY <2>1 DEF Commands, CommandsOf, Calm, OwnCommands
    <2> HIDE DEF u
    <2>3. Asked(u) > 0
        BY <2>1, <2>2, CountPositive DEF Asked
    <2>4. ~hungUp[u]
        BY <2>2, <2>3, NothingDue
    <2>5. addr[u] # NoAddress
        BY <2>2, LifeAssumption
    <2>6. Present(u, addr[u])
        BY <2>2, <2>4, <2>5, StillThere
    <2> QED
        BY <2>2, <2>6 DEF u
<1>2. ASSUME cmd # NoCommand PROVE Present(cmd.from, cmd.con)
    <2>1. /\ cmd.from \in Users /\ cmd.con \in Addresses /\ addr[cmd.from] = cmd.con
        BY <1>2 DEF TypeInv, TypeOK, Commands, Calm, OwnCommands
    <2>2. InHand(cmd.from) = 1
        BY DEF InHand
    <2>3. ~hungUp[cmd.from]
        BY <2>1, <2>2, NothingDue
    <2>4. addr[cmd.from] # NoAddress
        BY <2>1, LifeAssumption
    <2> QED
        BY <2>1, <2>3, <2>4, StillThere
<1> QED
    BY <1>1, <1>2

LEMMA MessagesPresent ==
    ASSUME TypeInv, OwnerInv, Calm, NEW a \in Addresses
    PROVE  \A i \in DOMAIN rspQueue[a] : Present(rspQueue[a][i].to, a)
<1> SUFFICES ASSUME NEW i \in DOMAIN rspQueue[a]
             PROVE  Present(rspQueue[a][i].to, a)
    OBVIOUS
<1> DEFINE m == rspQueue[a][i]
<1>1. rspQueue[a] \in Seq(Messages) /\ m \in Messages
    BY DEF TypeInv, TypeOK
<1>2. /\ m.to \in Users /\ m.kind \in {"greeting", "answer"} /\ addr[m.to] = a
      /\ m.kind = "greeting" => screen[m.to] = <<>>
    BY <1>1 DEF Messages, Calm, OwnMessages
<1>3. addr[m.to] # NoAddress
    BY <1>2, LifeAssumption
<1>4. ~hungUp[m.to]
    <2>1. CASE m.kind = "greeting"
        BY <1>2, <2>1 DEF Calm, Left
    <2>2. CASE m.kind = "answer"
        <3>1. m \in AnswersTo(m.to)
            BY <1>1, <2>2 DEF AnswersTo
        <3>2. Due(m.to) > 0
            BY <1>1, <1>2, <3>1, CountPositive DEF Due
        <3> QED
            BY <1>2, <3>2, NothingDue
    <2> QED
        BY <1>2, <2>1, <2>2
<1> QED
    BY <1>2, <1>3, <1>4, StillThere

\* All that is queued on a connection is one user's.
LEMMA OneUser ==
    ASSUME TypeInv, OwnerInv, Calm, NEW u, NEW v, NEW a, Present(u, a), Present(v, a)
    PROVE  u = v
BY DEF Present, OwnerInv, Open, Owner
-----------------------------------------------------------------------------
(* The steps that move no message and no command.                          *)

LEMMA CalmQuiet ==
    ASSUME TypeInv, Calm,
           UNCHANGED <<screen, rspQueue, addr, commandQueue, cmd, issued, hungUp>>,
           \A u \in Users :
              /\ hungUp[u] => /\ clientPc'[u] = "recv" \/ Leaving(u)'
                              /\ inbox'[u] = 0
              /\ Leaving(u)' => hungUp[u]
              /\ Unstarted(u)' => Unstarted(u)
              /\ Started(u)' => Started(u)
    PROVE  Calm'
<1>1. \A u \in Users : /\ Shown(u)' = Shown(u) /\ Due(u)' = Due(u)
                       /\ Asked(u)' = Asked(u) /\ InHand(u)' = InHand(u)
    BY DEF Shown, Due, Asked, InHand
<1>2. Books'
    BY <1>1 DEF Calm, Books
<1>3. Left'
    BY <1>1 DEF Calm, Left
<1>4. OwnCommands' /\ OwnMessages' /\ OwnLines'
    BY DEF Calm, OwnCommands, OwnMessages, OwnLines
<1>5. Greetings'
    BY DEF Calm, Greetings
<1> QED
    BY <1>2, <1>3, <1>4, <1>5 DEF Calm

\* A write of control bytes only shows no message.
LEMMA WriteNothing ==
    ASSUME TypeInv, NEW a \in Addresses, sock[a] \in Sockets, Write(a, <<>>)
    PROVE  UNCHANGED screen
<1>1. /\ \A v \in Users : screen[v] \o <<>> = screen[v]
      /\ screen = [v \in Users |-> screen[v]]
      /\ peer[sock[a]] \in Users \union {NoUser}
    BY DEF TypeInv, TypeOK
<1> QED
    BY <1>1 DEF Write

\* The same when the client threads keep their places too.
LEMMA CalmStill ==
    ASSUME TypeInv, Calm,
           UNCHANGED <<screen, rspQueue, addr, commandQueue, cmd, issued, hungUp,
                       clientPc, inbox>>
    PROVE  Calm'
<1>1. \A u \in Users : /\ Leaving(u)' <=> Leaving(u)
                       /\ Unstarted(u)' <=> Unstarted(u)
                       /\ Started(u)' <=> Started(u)
    BY DEF Leaving, Unstarted, Started
<1> QED
    BY <1>1, CalmQuiet DEF Calm, Left

\* One client thread goes on, or its user types.
LEMMA CalmClient ==
    ASSUME TypeInv, Calm, NEW u \in Users,
           UNCHANGED <<screen, rspQueue, addr, commandQueue, cmd, issued, hungUp>>,
           \A v \in Users : v # u => clientPc'[v] = clientPc[v] /\ inbox'[v] = inbox[v],
           \/ hungUp[u] /\ clientPc'[u] \in {"close", "gone"} /\ inbox'[u] = inbox[u]
           \/ /\ ~hungUp[u] /\ ~Leaving(u)'
              /\ Unstarted(u)' => Unstarted(u)
              /\ Started(u)' => Started(u)
    PROVE  Calm'
<1>1. ASSUME NEW v \in Users
      PROVE  /\ hungUp[v] => /\ clientPc'[v] = "recv" \/ Leaving(v)'
                             /\ inbox'[v] = 0
             /\ Leaving(v)' => hungUp[v]
             /\ Unstarted(v)' => Unstarted(v)
             /\ Started(v)' => Started(v)
    <2>1. CASE v # u
        <3>1. /\ clientPc'[v] = clientPc[v] /\ inbox'[v] = inbox[v]
              /\ Leaving(v)' <=> Leaving(v)
              /\ Unstarted(v)' <=> Unstarted(v)
              /\ Started(v)' <=> Started(v)
            BY <2>1 DEF Leaving, Unstarted, Started
        <3> QED
            BY <3>1 DEF Calm, Left
    <2>2. CASE v = u
        BY <2>2 DEF Calm, Left, Leaving, Unstarted, Started
    <2> QED
        BY <2>1, <2>2
<1> QED
    BY <1>1, CalmQuiet

LEMMA CalmMain == TypeInv /\ Calm /\ Main => Calm'
BY CalmStill DEF Main, Initialise, MakeRecursive, StartRsp, RspStatus, memVars,
                 serverVars, userVars

LEMMA CalmClientQuiet ==
    ASSUME TypeInv, Calm, NEW u \in Users,
           \/ ClientHeader(u) \/ ClientLockQueue(u) \/ ClientKey(u)
           \/ ClientRedraw(u) \/ ClientClose(u) \/ ClientFree(u)
    PROVE  Calm'
<1>0. /\ clientPc[u] # "none" => addr[u] \in Addresses /\ sock[addr[u]] \in Sockets
      /\ clientPc = [v \in Users |-> clientPc[v]]
      /\ inbox = [v \in Users |-> inbox[v]]
      /\ inbox[u] \in Nat
    BY DEF TypeInv, TypeOK, PlaceInv
<1>1. clientPc[u] \notin {"recv", "close", "gone"} => ~hungUp[u]
    BY DEF Calm, Left, Leaving
<1>2. CASE ClientHeader(u)
    <2>1. UNCHANGED screen
        BY <1>0, <1>2, WriteNothing DEF ClientHeader
    <2> QED
        BY <1>0, <1>1, <1>2, <2>1, CalmClient DEF ClientHeader, memVars, mainVars,
           serverVars, Leaving, Unstarted, Started
<1>3. CASE ClientLockQueue(u)
    BY <1>0, <1>1, <1>3, CalmClient DEF ClientLockQueue, Goes, mainVars, serverVars,
       userVars, Leaving, Unstarted, Started
<1>4. CASE ClientKey(u)
    <2>1. ~hungUp[u]
        BY <1>0, <1>4 DEF ClientKey, Calm, Left
    <2> QED
        BY <1>0, <1>4, <2>1, CalmClient DEF ClientKey, Goes, mainVars, serverVars,
           Leaving, Unstarted, Started
<1>5. CASE ClientRedraw(u)
    <2>1. UNCHANGED screen
        BY <1>0, <1>5, WriteNothing DEF ClientRedraw
    <2> QED
        BY <1>0, <1>1, <1>5, <2>1, CalmClient DEF ClientRedraw, mainVars, serverVars,
           Leaving, Unstarted, Started
<1>6. CASE ClientClose(u)
    BY <1>0, <1>6, CalmClient DEF ClientClose, mainVars, serverVars, userVars
<1>7. CASE ClientFree(u)
    <2>1. hungUp[u]
        BY <1>7 DEF ClientFree, Calm, Left, Leaving
    <2> QED
        BY <1>0, <1>7, <2>1, CalmClient DEF ClientFree, mainVars, serverVars, userVars
<1> QED
    BY <1>2, <1>3, <1>4, <1>5, <1>6, <1>7

LEMMA CalmOthersQuiet ==
    ASSUME TypeInv, Calm, NEW u \in Users,
           \/ ServerLockQueue \/ ServerUnlock
           \/ RspLock(u) \/ RspRelock(u) \/ RspLockLine(u) \/ RspUnlock(u)
           \/ Type(u) \/ RspSpuriousWake(u)
    PROVE  Calm'
<1>1. CASE ServerLockQueue \/ ServerUnlock
    BY <1>1, CalmStill DEF ServerLockQueue, ServerUnlock, memVars, mainVars, userVars
<1>2. CASE RspLock(u) \/ RspRelock(u) \/ RspLockLine(u) \/ RspUnlock(u)
    BY <1>2, CalmStill DEF RspLock, RspRelock, RspLockLine, RspUnlock, mainVars,
       serverVars, userVars
<1>3. CASE RspSpuriousWake(u)
    BY <1>3, CalmStill DEF RspSpuriousWake, memVars, mainVars, serverVars, userVars
<1>4. CASE Type(u)
    <2>1. ~hungUp[u] /\ addr[u] # NoAddress
        BY <1>4 DEF Type
    <2>2. ~Leaving(u)
        BY <2>1 DEF Calm, Left
    <2>3. \A v \in Users : v # u => inbox'[v] = inbox[v]
        BY <1>4 DEF Type, TypeInv, TypeOK
    <2> QED
        BY <1>4, <2>1, <2>2, <2>3, CalmClient DEF Type, memVars, mainVars, serverVars,
           Leaving, Unstarted, Started
<1> QED
    BY <1>1, <1>2, <1>3, <1>4
-----------------------------------------------------------------------------
(* The steps that move a message or a command.                             *)

\* The books stay balanced when what enters one place leaves another.
LEMMA BooksStep ==
    ASSUME TypeInv, TypeInv', NEW u \in Users, addr[u] # NoAddress,
           Shown(u) + Due(u) + Asked(u) + InHand(u) = issued[u],
           NEW s \in Int, NEW d \in Int, NEW a \in Int, NEW h \in Int,
           Shown(u)' = Shown(u) + s, Due(u)' = Due(u) + d,
           Asked(u)' = Asked(u) + a, InHand(u)' = InHand(u) + h,
           issued'[u] = issued[u] + (s + d + a + h)
    PROVE  Shown(u)' + Due(u)' + Asked(u)' + InHand(u)' = issued'[u]
<1> DEFINE s0 == Shown(u)
           d0 == Due(u)
           a0 == Asked(u)
           h0 == InHand(u)
           i0 == issued[u]
<1>1. s0 \in Int /\ d0 \in Int /\ a0 \in Int /\ h0 \in Int
    BY CountTypes
<1>2. s0 + d0 + a0 + h0 = i0
    OBVIOUS
<1>3. i0 \in Int
    BY DEF TypeInv, TypeOK
<1> HIDE DEF s0, d0, a0, h0, i0
<1>4. (s0 + s) + (d0 + d) + (a0 + a) + (h0 + h) = i0 + (s + d + a + h)
    BY <1>1, <1>2, <1>3
<1> QED
    BY <1>4 DEF s0, d0, a0, h0, i0

\* A connection with an unstarted client is that client's alone.
LEMMA UnstartedAlone ==
    ASSUME TypeInv, OwnerInv, NEW u \in Users, NEW v \in Users, Open(u), Unstarted(v),
           addr[v] = addr[u]
    PROVE  v = u
BY DEF OwnerInv, Owner, Open, Unstarted, TypeInv, PlaceInv

LEMMA PutDue ==
    ASSUME TypeInv, NEW a \in Addresses, NEW m \in Messages, PutResponse(a, m),
           UNCHANGED addr
    PROVE  /\ rspQueue'[a] = Append(rspQueue[a], m)
           /\ \A b \in Addresses : b # a => rspQueue'[b] = rspQueue[b]
           /\ \A v \in Users : addr[v] # NoAddress =>
                 Due(v)' = Due(v) + (IF addr[v] = a /\ m \in AnswersTo(v) THEN 1 ELSE 0)
<1>1. /\ rspQueue'[a] = Append(rspQueue[a], m)
      /\ \A b \in Addresses : b # a => rspQueue'[b] = rspQueue[b]
      /\ rspQueue[a] \in Seq(Messages)
    BY DEF PutResponse, TypeInv, TypeOK
<1>2. ASSUME NEW v \in Users, addr[v] # NoAddress
      PROVE  Due(v)' = Due(v) + (IF addr[v] = a /\ m \in AnswersTo(v) THEN 1 ELSE 0)
    <2>1. addr[v] \in Addresses /\ Due(v) \in Nat
        BY <1>2, CountTypes DEF TypeInv, TypeOK
    <2>2. CASE addr[v] = a
        <3>1. Due(v) = Count(rspQueue[a], AnswersTo(v))
            BY <2>2 DEF Due
        <3>2. Due(v)' = Count(Append(rspQueue[a], m), AnswersTo(v))
            BY <1>1, <2>2 DEF Due
        <3> QED
            BY <1>1, <2>2, <3>1, <3>2, CountAppend
    <2>3. CASE addr[v] # a
        BY <1>1, <2>1, <2>3 DEF Due
    <2> QED
        BY <2>2, <2>3
<1> QED
    BY <1>1, <1>2

LEMMA CalmGreet ==
    ASSUME TypeInv, TypeInv', OwnerInv, Calm, NEW u \in Users, ClientGreet(u)
    PROVE  Calm'
<1> DEFINE a == addr[u]
           m == [kind |-> "greeting", to |-> u]
<1>1. /\ clientPc[u] = "greeting" /\ clientPc'[u] = "recv"
      /\ \A v \in Users : v # u => clientPc'[v] = clientPc[v]
      /\ PutResponse(a, m)
      /\ UNCHANGED <<screen, addr, commandQueue, cmd, issued, hungUp, inbox>>
    BY DEF ClientGreet, TypeInv, TypeOK, mainVars, serverVars, userVars
<1>2. a \in Addresses /\ a # NoAddress /\ m \in Messages
    BY <1>1, LifeAssumption DEF TypeInv, TypeOK, PlaceInv, Messages
<1>3. m.kind = "greeting" /\ m.to = u /\ \A v \in Users : m \notin AnswersTo(v)
    BY DEF AnswersTo
<1>4. /\ Unstarted(u) /\ Open(u) /\ ~hungUp[u]
      /\ screen[u] = <<>> /\ issued[u] = 0 /\ rspQueue[a] = <<>>
    BY <1>1, <1>2 DEF Unstarted, Open, Calm, Greetings, Left, Leaving
<1> HIDE DEF m
<1>5. /\ rspQueue'[a] = <<m>>
      /\ \A b \in Addresses : b # a => rspQueue'[b] = rspQueue[b]
      /\ \A v \in Users : addr[v] # NoAddress => Due(v)' = Due(v) + 0
    BY <1>1, <1>2, <1>3, <1>4, PutDue
<1>6. \A v \in Users : /\ Shown(v)' = Shown(v) /\ Asked(v)' = Asked(v)
                       /\ InHand(v)' = InHand(v)
    BY <1>1 DEF Shown, Asked, InHand
<1>7. \A v \in Users : addr[v] # NoAddress => Due(v)' = Due(v)
    BY <1>5, CountTypes
<1>8. Books'
    BY <1>1, <1>6, <1>7 DEF Calm, Books
<1>9. Left'
    BY <1>1, <1>4, <1>6 DEF Calm, Left, Leaving
<1>10. OwnCommands' /\ OwnLines'
    BY <1>1 DEF Calm, OwnCommands, OwnLines
<1>11. OwnMessages'
    BY <1>1, <1>2, <1>3, <1>4, <1>5 DEF Calm, OwnMessages
<1>12. Greetings'
    <2>1. ASSUME NEW v \in Users, Unstarted(v)'
          PROVE  /\ screen'[v] = <<>> /\ issued'[v] = 0
                 /\ addr'[v] # NoAddress => rspQueue'[addr'[v]] = <<>>
        <3>1. v # u /\ Unstarted(v)
            BY <1>1, <2>1 DEF Unstarted
        <3>2. addr[v] # a
            BY <1>4, <3>1, UnstartedAlone
        <3>3. addr[v] # NoAddress => addr[v] \in Addresses
            BY DEF TypeInv, TypeOK
        <3> QED
            BY <1>1, <1>5, <3>1, <3>2, <3>3 DEF Calm, Greetings
    <2>2. ASSUME NEW v \in Users, issued'[v] > 0 \/ Started(v)'
          PROVE  screen'[v] # <<>> \/ rspQueue'[addr'[v]] # <<>>
        <3>1. CASE v = u
            BY <1>1, <1>5, <3>1
        <3>2. CASE v # u
            <4>1. issued[v] > 0 \/ Started(v)
                BY <1>1, <2>2, <3>2 DEF Started
            <4>2. addr[v] # NoAddress
                BY SMTT(30), <4>1 DEF Started, Calm, Greetings, Unstarted, TypeInv, TypeOK,
                            PlaceInv
            <4>3. addr[v] \in Addresses
                BY <4>2 DEF TypeInv, TypeOK
            <4> QED
                BY <1>1, <1>5, <4>1, <4>3 DEF Calm, Greetings
        <3> QED
            BY <3>1, <3>2
    <2> QED
        BY <2>1, <2>2 DEF Greetings
<1> QED
    BY <1>8, <1>9, <1>10, <1>11, <1>12 DEF Calm

LEMMA CalmPutCommand ==
    ASSUME TypeInv, TypeInv', OwnerInv, Calm, NEW u \in Users, ClientPutCommand(u)
    PROVE  Calm'
<1> DEFINE x == [con |-> addr[u], from |-> u]
<1>1. /\ clientPc[u] = "put" /\ clientPc'[u] = "redraw"
      /\ \A v \in Users : v # u => clientPc'[v] = clientPc[v] /\ issued'[v] = issued[v]
      /\ commandQueue' = Append(commandQueue, x)
      /\ issued'[u] = issued[u] + 1
      /\ UNCHANGED <<screen, rspQueue, addr, cmd, hungUp, inbox>>
    BY DEF ClientPutCommand, TypeInv, TypeOK, memVars, mainVars
<1>2. addr[u] \in Addresses /\ addr[u] # NoAddress
    BY <1>1 DEF TypeInv, TypeOK, PlaceInv
<1>3. /\ x \in Commands /\ x.con = addr[u] /\ x.from = u
      /\ \A v \in Users : x \in CommandsOf(v) <=> v = u
    BY <1>2 DEF Commands, CommandsOf
<1>4. commandQueue \in Seq(Commands)
    BY DEF TypeInv, TypeOK
<1>5. ~hungUp[u] /\ Started(u)
    BY <1>1 DEF Calm, Left, Leaving, Started
<1> HIDE DEF x
<1>6. \A v \in Users : /\ Shown(v)' = Shown(v) /\ Due(v)' = Due(v)
                       /\ InHand(v)' = InHand(v)
    BY <1>1 DEF Shown, Due, InHand
<1>7. \A v \in Users : Asked(v)' = Asked(v) + (IF v = u THEN 1 ELSE 0)
    BY <1>1, <1>3, <1>4, CountAppend DEF Asked
<1>8. Books'
    <2> SUFFICES ASSUME NEW v \in Users, addr[v] # NoAddress
                 PROVE  Shown(v)' + Due(v)' + Asked(v)' + InHand(v)' = issued'[v]
        BY <1>1 DEF Books
    <2>1. /\ Shown(v) \in Nat /\ Due(v) \in Nat /\ InHand(v) \in Int /\ Asked(v) \in Nat
          /\ issued[v] \in Nat
        <3>1. issued[v] \in Nat
            BY DEF TypeInv, TypeOK
        <3>2. {0, 1} \subseteq Int
            OBVIOUS
        <3> QED
            BY <3>1, <3>2, CountTypes
    <2>2. Shown(v)' = Shown(v) + 0 /\ Due(v)' = Due(v) + 0 /\ InHand(v)' = InHand(v) + 0
        BY <1>6, <2>1
    <2>3. Shown(v) + Due(v) + Asked(v) + InHand(v) = issued[v]
        BY DEF Calm, Books
    <2>4. CASE v = u
        <3>1. issued'[v] = issued[v] + (0 + 0 + 1 + 0)
            BY <1>1, <2>4
        <3>2. Asked(v)' = Asked(v) + 1
            BY <1>7, <2>4
        <3> QED
            BY <2>2, <2>3, <3>1, <3>2, BooksStep
    <2>5. CASE v # u
        <3>1. issued'[v] = issued[v] + (0 + 0 + 0 + 0)
            BY <1>1, <2>1, <2>5
        <3>2. Asked(v)' = Asked(v) + 0
            BY <1>7, <2>5
        <3> QED
            BY <2>2, <2>3, <3>1, <3>2, BooksStep
    <2> QED
        BY <2>4, <2>5
<1>9. Left'
    BY <1>1, <1>5, <1>6 DEF Calm, Left, Leaving
<1>10. OwnCommands'
    <2> SUFFICES ASSUME NEW i \in DOMAIN commandQueue'
                 PROVE  commandQueue'[i].con = addr[commandQueue'[i].from]
        BY <1>1 DEF OwnCommands, Calm
    <2>1. \/ i \in DOMAIN commandQueue /\ commandQueue'[i] = commandQueue[i]
          \/ commandQueue'[i] = x
        BY <1>1, <1>3, <1>4
    <2> QED
        BY <1>3, <2>1 DEF Calm, OwnCommands
<1>11. OwnMessages' /\ OwnLines'
    BY <1>1 DEF Calm, OwnMessages, OwnLines
<1>12. Greetings'
    <2>1. \A v \in Users : Unstarted(v)' => Unstarted(v) /\ v # u
        BY <1>1 DEF Unstarted
    <2>2. \A v \in Users : issued'[v] > 0 \/ Started(v)' => issued[v] > 0 \/ Started(v)
        BY <1>1, <1>5 DEF Started
    <2> QED
        BY <1>1, <2>1, <2>2 DEF Calm, Greetings
<1> QED
    BY <1>8, <1>9, <1>10, <1>11, <1>12 DEF Calm

\* What Tail leaves of a queue.
LEMMA TailPlaces ==
    ASSUME NEW T, NEW q \in Seq(T), q # <<>>
    PROVE  /\ Tail(q) \in Seq(T) /\ Head(q) = q[1] /\ 1 \in DOMAIN q /\ Head(q) \in T
           /\ \A i \in DOMAIN Tail(q) : /\ i \in Nat /\ i > 0 /\ i + 1 \in DOMAIN q
                                        /\ Tail(q)[i] = q[i + 1]
OBVIOUS

LEMMA CalmServerGet ==
    ASSUME TypeInv, TypeInv', OwnerInv, Calm, ServerGet
    PROVE  Calm'
<1> DEFINE q == commandQueue
           x == Head(q)
<1>1. /\ q # <<>> /\ cmd = NoCommand /\ cmd' = x /\ commandQueue' = Tail(q)
      /\ UNCHANGED <<screen, rspQueue, addr, clientPc, issued, hungUp, inbox>>
    BY DEF ServerGet, TypeInv, PlaceInv, memVars, mainVars, userVars
<1>2. q \in Seq(Commands)
    BY DEF TypeInv, TypeOK
<1>3. /\ Tail(q) \in Seq(Commands) /\ x = q[1] /\ 1 \in DOMAIN q /\ x \in Commands
      /\ \A i \in DOMAIN Tail(q) : i + 1 \in DOMAIN q /\ Tail(q)[i] = q[i + 1]
    BY <1>1, <1>2, TailPlaces
<1>4. /\ x.from \in Users /\ x.con = addr[x.from]
      /\ \A v \in Users : x \in CommandsOf(v) <=> v = x.from
    BY <1>3 DEF Commands, CommandsOf, Calm, OwnCommands
<1>5. \A v \in Users : InHand(v) = 0
    BY <1>1, LifeAssumption DEF InHand, NoCommand
<1>6. \A v \in Users : InHand(v)' = IF v = x.from THEN 1 ELSE 0
    BY <1>1 DEF InHand
<1>7. \A v \in Users :
         Count(q, CommandsOf(v))
            = Count(Tail(q), CommandsOf(v)) + (IF v = x.from THEN 1 ELSE 0)
    BY <1>1, <1>2, <1>4, CountTail
<1>8. \A v \in Users : Asked(v) = Asked(v)' + (IF v = x.from THEN 1 ELSE 0)
    BY <1>1, <1>7 DEF Asked
<1> HIDE DEF q, x
<1>9. \A v \in Users : Shown(v)' = Shown(v) /\ Due(v)' = Due(v)
    BY <1>1 DEF Shown, Due
<1>10. Books'
    <2> SUFFICES ASSUME NEW v \in Users, addr[v] # NoAddress
                 PROVE  Shown(v)' + Due(v)' + Asked(v)' + InHand(v)' = issued'[v]
        BY <1>1 DEF Books
    <2> DEFINE s == Shown(v)
               d == Due(v)
               a == Asked(v)
               b == Asked(v)'
               k == IF v = x.from THEN 1 ELSE 0
    <2>1. s \in Nat /\ d \in Nat /\ a \in Nat /\ b \in Nat /\ k \in Nat
        <3>1. b \in Nat
            BY <1>1, <1>2, <1>3, HitsFinite DEF Asked, q
        <3>2. k \in Nat
            OBVIOUS
        <3> QED
            BY <3>1, <3>2, CountTypes
    <2>2. s + d + a + 0 = issued[v] /\ a = b + k
        BY <1>5, <1>8 DEF Calm, Books
    <2>3. Shown(v)' = s /\ Due(v)' = d /\ InHand(v)' = k /\ issued'[v] = issued[v]
        BY <1>1, <1>6, <1>9
    <2> HIDE DEF s, d, a, b, k
    <2>4. s + d + b + k = issued[v]
        BY <2>1, <2>2
    <2> QED
        BY <2>3, <2>4 DEF b
<1>11. Left'
    BY <1>1, <1>9 DEF Calm, Left, Leaving
<1>12. OwnCommands'
    BY <1>1, <1>3, <1>4 DEF Calm, OwnCommands, q
<1>13. OwnMessages' /\ OwnLines' /\ Greetings'
    BY <1>1 DEF Calm, OwnMessages, OwnLines, Greetings, Unstarted, Started
<1> QED
    BY <1>10, <1>11, <1>12, <1>13 DEF Calm

\* The command at hand has been issued.
LEMMA InHandIssued ==
    ASSUME TypeInv, Calm, NEW u \in Users, addr[u] # NoAddress, InHand(u) = 1
    PROVE  issued[u] > 0
<1> DEFINE s == Shown(u)
           d == Due(u)
           a == Asked(u)
           n == issued[u]
<1>1. s \in Nat /\ d \in Nat /\ a \in Nat
    BY CountTypes
<1>2. s + d + a + 1 = n
    BY DEF Calm, Books
<1> HIDE DEF s, d, a, n
<1>3. n > 0
    BY <1>1, <1>2
<1> QED
    BY <1>3 DEF n

LEMMA CalmServerPut ==
    ASSUME TypeInv, TypeInv', OwnerInv, Calm, ServerPutResponse
    PROVE  Calm'
<1> DEFINE a == cmd.con
           w == cmd.from
           m == [kind |-> "answer", to |-> w]
           one(v) == IF v = w THEN 1 ELSE 0
<1>1. /\ serverPc = "putting" /\ cmd # NoCommand /\ cmd' = NoCommand
      /\ PutResponse(a, m)
      /\ UNCHANGED <<screen, addr, clientPc, commandQueue, issued, hungUp, inbox>>
    BY DEF ServerPutResponse, TypeInv, PlaceInv, mainVars, userVars
<1>2. /\ w \in Users /\ a \in Addresses /\ a = addr[w] /\ a # NoAddress
      /\ ~hungUp[w] /\ Open(w)
    <2>1. Present(w, a)
        BY <1>1, CommandsPresent
    <2>2. cmd \in Commands
        BY <1>1 DEF TypeInv, TypeOK
    <2>3. a \in Addresses
        BY <2>2 DEF Commands
    <2>4. a # NoAddress
        BY <2>3, LifeAssumption
    <2> QED
        BY <2>1, <2>3, <2>4 DEF Present
<1>3. /\ m \in Messages /\ m.kind = "answer" /\ m.to = w
      /\ \A v \in Users : m \in AnswersTo(v) <=> v = w
    BY <1>2 DEF Messages, AnswersTo
<1>4. \A v \in Users : InHand(v) = one(v) /\ InHand(v)' = 0
    BY <1>1, LifeAssumption DEF InHand, NoCommand
<1> HIDE DEF a, w, m
<1>5. issued[w] > 0
    BY <1>2, <1>4, InHandIssued
<1>6. /\ rspQueue'[a] = Append(rspQueue[a], m)
      /\ \A b \in Addresses : b # a => rspQueue'[b] = rspQueue[b]
      /\ \A v \in Users : addr[v] # NoAddress => Due(v)' = Due(v) + one(v)
    <2>1. PutResponse(a, m) /\ UNCHANGED addr
        BY <1>1 DEF a
    <2>2. \A v \in Users : (addr[v] = a /\ m \in AnswersTo(v)) <=> v = w
        BY <1>2, <1>3
    <2> QED
        BY <1>2, <1>3, <2>1, <2>2, PutDue
<1>7. \A v \in Users : Shown(v)' = Shown(v) /\ Asked(v)' = Asked(v)
    BY <1>1 DEF Shown, Asked
<1>8. Books'
    <2> SUFFICES ASSUME NEW v \in Users, addr[v] # NoAddress
                 PROVE  Shown(v)' + Due(v)' + Asked(v)' + InHand(v)' = issued'[v]
        BY <1>1 DEF Books
    <2> DEFINE s == Shown(v)
               d == Due(v)
               c == Asked(v)
               k == one(v)
    <2>1. s \in Nat /\ d \in Nat /\ c \in Nat /\ k \in Nat
        BY CountTypes
    <2>2. s + d + c + k = issued[v]
        BY <1>4 DEF Calm, Books
    <2>3. Shown(v)' = s /\ Due(v)' = d + k /\ Asked(v)' = c /\ InHand(v)' = 0
        BY <1>4, <1>6, <1>7
    <2> HIDE DEF s, d, c, k
    <2>4. s + (d + k) + c + 0 = issued[v]
        BY <2>1, <2>2
    <2> QED
        BY <1>1, <2>3, <2>4
<1>9. Left'
    BY <1>1, <1>7 DEF Calm, Left, Leaving
<1>10. OwnCommands' /\ OwnLines'
    BY <1>1 DEF Calm, OwnCommands, OwnLines
<1>11. rspQueue[a] \in Seq(Messages)
    BY <1>2 DEF TypeInv, TypeOK
<1>12. OwnMessages'
    <2> SUFFICES ASSUME NEW b \in Addresses, NEW i \in DOMAIN rspQueue'[b]
                 PROVE  /\ addr[rspQueue'[b][i].to] = b
                        /\ rspQueue'[b][i].kind = "greeting"
                              <=> (i = 1 /\ screen[rspQueue'[b][i].to] = <<>>)
        BY <1>1 DEF OwnMessages
    <2>1. CASE b # a \/ i \in DOMAIN rspQueue[a]
        <3>1. i \in DOMAIN rspQueue[b] /\ rspQueue'[b][i] = rspQueue[b][i]
            BY <1>6, <1>11, <2>1
        <3> QED
            BY <3>1 DEF Calm, OwnMessages
    <2>2. CASE b = a /\ i \notin DOMAIN rspQueue[a]
        <3>1. rspQueue'[b][i] = m /\ (i = 1 => rspQueue[a] = <<>>)
            BY <1>3, <1>6, <1>11, <2>2
        <3>2. i = 1 => screen[w] # <<>>
            BY <1>2, <1>5, <3>1 DEF Calm, Greetings
        <3> QED
            BY <1>2, <1>3, <2>2, <3>1, <3>2
    <2> QED
        BY <2>1, <2>2
<1>13. Greetings'
    <2>1. ASSUME NEW v \in Users, Unstarted(v)'
          PROVE  /\ screen'[v] = <<>> /\ issued'[v] = 0
                 /\ addr'[v] # NoAddress => rspQueue'[addr'[v]] = <<>>
        <3>1. Unstarted(v)
            BY <1>1, <2>1 DEF Unstarted
        <3>2. screen[v] = <<>> /\ issued[v] = 0
            BY <3>1 DEF Calm, Greetings
        <3>3. addr[v] # a
            BY <1>2, <1>5, <3>1, <3>2, UnstartedAlone
        <3>4. addr[v] # NoAddress => addr[v] \in Addresses
            BY DEF TypeInv, TypeOK
        <3> QED
            BY <1>1, <1>6, <3>1, <3>2, <3>3, <3>4 DEF Calm, Greetings
    <2>2. ASSUME NEW v \in Users, issued'[v] > 0 \/ Started(v)'
          PROVE  screen'[v] # <<>> \/ rspQueue'[addr'[v]] # <<>>
        <3>1. issued[v] > 0 \/ Started(v)
            BY <1>1, <2>2 DEF Started
        <3>2. addr[v] \in Addresses
            BY <3>1 DEF Started, Calm, Greetings, Unstarted, TypeInv, TypeOK, PlaceInv
        <3>3. screen[v] # <<>> \/ rspQueue[addr[v]] # <<>>
            BY <3>1 DEF Calm, Greetings
        <3>4. rspQueue'[a] # <<>>
            BY <1>3, <1>6, <1>11
        <3> QED
            BY <1>1, <1>6, <3>2, <3>3, <3>4
    <2> QED
        BY <2>1, <2>2 DEF Greetings
<1> QED
    BY <1>8, <1>9, <1>10, <1>12, <1>13 DEF Calm

LEMMA CalmRspWrite ==
    ASSUME TypeInv, TypeInv', OwnerInv, Calm, NEW u \in Users, RspWrite(u)
    PROVE  Calm'
<1> DEFINE a == addr[u]
           m == Head(rspQueue[a])
           w == m.to
           one(v) == IF v = w /\ m.kind = "answer" THEN 1 ELSE 0
<1>1. /\ a \in live /\ rspQueue[a] # <<>>
      /\ rspQueue' = [rspQueue EXCEPT ![a] = Tail(@)]
      /\ Write(a, <<m>>)
      /\ UNCHANGED <<addr, clientPc, cmd, commandQueue, issued, hungUp, inbox>>
    BY DEF RspWrite, mainVars, serverVars
<1>2. a \in Addresses /\ a # NoAddress /\ rspQueue[a] \in Seq(Messages)
    BY <1>1, LifeAssumption DEF TypeInv, TypeOK
<1>3. /\ Tail(rspQueue[a]) \in Seq(Messages) /\ m = rspQueue[a][1]
      /\ 1 \in DOMAIN rspQueue[a] /\ m \in Messages
      /\ \A i \in DOMAIN Tail(rspQueue[a]) :
            /\ i \in Nat /\ i > 0 /\ i + 1 \in DOMAIN rspQueue[a]
            /\ Tail(rspQueue[a])[i] = rspQueue[a][i + 1]
    BY <1>1, <1>2, TailPlaces
<1>4. Present(w, a) /\ w \in Users /\ addr[w] = a /\ ~hungUp[w] /\ peer[sock[a]] = w
    BY <1>2, <1>3, MessagesPresent DEF Present
<1>5. /\ m.kind = "greeting" <=> screen[w] = <<>>
      /\ m.kind \in {"greeting", "answer"}
    BY <1>2, <1>3 DEF Calm, OwnMessages, Messages
<1>6. /\ rspQueue'[a] = Tail(rspQueue[a])
      /\ \A b \in Addresses : b # a => rspQueue'[b] = rspQueue[b]
    BY <1>1, <1>2 DEF TypeInv, TypeOK
<1>7. screen[w] \in Seq(Messages) /\ w # NoUser
    <2> HIDE DEF w
    <2>1. screen \in [Users -> Seq(Messages)]
        BY DEF TypeInv, TypeOK
    <2>2. w \in Users /\ NoUser \notin Users
        BY <1>4, LifeAssumption
    <2> QED
        BY <2>1, <2>2
<1>8. /\ screen'[w] = Append(screen[w], m)
      /\ \A v \in Users : v # w => screen'[v] = screen[v]
    <2> HIDE DEF m
    <2>1. screen[w] \o <<m>> = Append(screen[w], m)
        BY <1>3, <1>7, AppendIsConcat
    <2> QED
        BY SMTT(30), <1>1, <1>4, <1>7, <2>1 DEF Write, TypeInv, TypeOK
<1>9. /\ \A v \in Users : m \in AnswersTo(v) <=> v = w /\ m.kind = "answer"
      /\ m \in AllAnswers <=> m.kind = "answer"
    BY <1>3 DEF AnswersTo, AllAnswers
<1> HIDE DEF m, a, w
<1>10. \A v \in Users : Shown(v)' = Shown(v) + one(v)
    <2> SUFFICES ASSUME NEW v \in Users PROVE Shown(v)' = Shown(v) + one(v)
        OBVIOUS
    <2>1. CASE v = w
        <3>1. Count(Append(screen[w], m), AllAnswers)
                 = Count(screen[w], AllAnswers) + one(w)
            BY <1>3, <1>7, <1>9, CountAppend
        <3> QED
            BY <1>8, <2>1, <3>1 DEF Shown
    <2>2. CASE v # w
        <3>1. Shown(v) \in Nat
            BY CountTypes
        <3> QED
            BY <1>8, <2>2, <3>1 DEF Shown
    <2> QED
        BY <2>1, <2>2
<1>11. \A v \in Users : addr[v] # NoAddress => Due(v)' \in Nat /\ Due(v) = Due(v)' + one(v)
    <2> SUFFICES ASSUME NEW v \in Users, addr[v] # NoAddress
                 PROVE  Due(v)' \in Nat /\ Due(v) = Due(v)' + one(v)
        OBVIOUS
    <2>0. addr[v] \in Addresses /\ Due(v) \in Nat
        BY CountTypes DEF TypeInv, TypeOK
    <2>1. CASE addr[v] = a
        <3>1. Count(rspQueue[a], AnswersTo(v))
                 = Count(Tail(rspQueue[a]), AnswersTo(v)) + one(v)
            <4> DEFINE q == rspQueue[a]
            <4>1. q \in Seq(Messages) /\ q # <<>> /\ m = Head(q)
                BY <1>1, <1>2 DEF m
            <4> HIDE DEF q
            <4>2. Count(q, AnswersTo(v))
                     = Count(Tail(q), AnswersTo(v)) + one(v)
                BY <4>1, <1>9, CountTail
            <4> QED
                BY <4>2 DEF q
        <3>2. Count(Tail(rspQueue[a]), AnswersTo(v)) \in Nat
            BY <1>3, HitsFinite
        <3> QED
            BY <1>1, <1>6, <2>1, <3>1, <3>2 DEF Due
    <2>2. CASE addr[v] # a
        <3>1. one(v) = 0
            BY <1>4, <2>2
        <3>2. Due(v)' = Due(v)
            BY <1>1, <1>6, <2>0, <2>2 DEF Due
        <3> QED
            BY <2>0, <3>1, <3>2
    <2> QED
        BY <2>1, <2>2
<1>12. \A v \in Users : Asked(v)' = Asked(v) /\ InHand(v)' = InHand(v)
    BY <1>1 DEF Asked, InHand
<1>13. Books'
    <2> SUFFICES ASSUME NEW v \in Users, addr[v] # NoAddress
                 PROVE  Shown(v)' + Due(v)' + Asked(v)' + InHand(v)' = issued'[v]
        BY <1>1 DEF Books
    <2> DEFINE s == Shown(v)
               d == Due(v)'
               c == Asked(v)
               h == InHand(v)
               k == one(v)
    <2>1. s \in Nat /\ d \in Nat /\ c \in Nat /\ k \in Nat /\ h \in {0, 1}
        BY <1>11, CountTypes
    <2>2. s + (d + k) + c + h = issued[v]
        BY <1>11 DEF Calm, Books
    <2>3. Shown(v)' = s + k /\ Asked(v)' = c /\ InHand(v)' = h
        BY <1>10, <1>12
    <2> HIDE DEF s, d, c, k, h
    <2>4. (s + k) + d + c + h = issued[v]
        BY <2>1, <2>2
    <2> QED
        BY <1>1, <2>3, <2>4 DEF d
<1>14. Left'
    <2>1. \A v \in Users : hungUp[v] => Shown(v)' = Shown(v) /\ screen'[v] = screen[v]
        <3>1. \A v \in Users : v # w => Shown(v)' = Shown(v)
            BY <1>8 DEF Shown
        <3> QED
            BY <1>4, <1>8, <3>1
    <2> QED
        BY <1>1, <2>1 DEF Calm, Left, Leaving
<1>15. OwnCommands'
    BY <1>1 DEF Calm, OwnCommands
<1>16. OwnMessages'
    <2> SUFFICES ASSUME NEW b \in Addresses, NEW i \in DOMAIN rspQueue'[b]
                 PROVE  /\ addr[rspQueue'[b][i].to] = b
                        /\ rspQueue'[b][i].kind = "greeting"
                              <=> (i = 1 /\ screen'[rspQueue'[b][i].to] = <<>>)
        BY <1>1 DEF OwnMessages
    <2>1. CASE b # a
        <3>1. rspQueue'[b] = rspQueue[b]
            BY <1>6, <2>1
        <3>2. /\ addr[rspQueue[b][i].to] = b
              /\ rspQueue[b][i].kind = "greeting"
                              <=> (i = 1 /\ screen[rspQueue[b][i].to] = <<>>)
            BY <3>1 DEF Calm, OwnMessages
        <3>3. rspQueue[b][i].to \in Users /\ rspQueue[b][i].to # w
            BY <1>4, <2>1, <3>1, <3>2, MessagesPresent DEF Present
        <3> QED
            BY <1>8, <3>1, <3>2, <3>3
    <2>2. CASE b = a
        <3>1. /\ i \in Nat /\ i > 0 /\ i + 1 \in DOMAIN rspQueue[a]
              /\ rspQueue'[b][i] = rspQueue[a][i + 1]
            BY <1>3, <1>6, <2>2
        <3>2. rspQueue[a][i + 1].to = w
            BY <1>2, <1>4, <3>1, MessagesPresent, OneUser
        <3>3. i + 1 # 1
            BY <3>1
        <3>4. rspQueue[a][i + 1].kind # "greeting"
            BY <1>2, <3>1, <3>3 DEF Calm, OwnMessages
        <3>5. screen'[w] # <<>>
            BY SMTT(30), <1>3, <1>7, <1>8
        <3> QED
            BY <1>4, <2>2, <3>1, <3>2, <3>4, <3>5
    <2> QED
        BY <2>1, <2>2
<1>17. OwnLines'
    <2> SUFFICES ASSUME NEW v \in Users, NEW k \in DOMAIN screen'[v]
                 PROVE  /\ screen'[v][k].to = v
                        /\ screen'[v][k].kind = "greeting" <=> k = 1
        BY DEF OwnLines
    <2>1. CASE v # w
        BY <1>8, <2>1 DEF Calm, OwnLines
    <2>2. CASE v = w
        <3>1. \/ k \in DOMAIN screen[w] /\ screen'[w][k] = screen[w][k]
              \/ /\ screen'[w][k] = m
                 /\ k = 1 <=> screen[w] = <<>>
            BY <1>3, <1>7, <1>8, <2>2
        <3> QED
            BY <1>5, <2>2, <3>1 DEF Calm, OwnLines, w
    <2> QED
        BY <2>1, <2>2
<1>18. Greetings'
    <2>1. ASSUME NEW v \in Users, Unstarted(v)'
          PROVE  /\ screen'[v] = <<>> /\ issued'[v] = 0
                 /\ addr'[v] # NoAddress => rspQueue'[addr'[v]] = <<>>
        <3>1. Unstarted(v)
            BY <1>1, <2>1 DEF Unstarted
        <3>2. addr[v] # a /\ v # w
            BY <1>1, <1>2, <1>4, <3>1 DEF Calm, Greetings
        <3>3. addr[v] # NoAddress => addr[v] \in Addresses
            BY DEF TypeInv, TypeOK
        <3> QED
            BY <1>1, <1>6, <1>8, <3>1, <3>2, <3>3 DEF Calm, Greetings
    <2>2. ASSUME NEW v \in Users, issued'[v] > 0 \/ Started(v)'
          PROVE  screen'[v] # <<>> \/ rspQueue'[addr'[v]] # <<>>
        <3>1. issued[v] > 0 \/ Started(v)
            BY <1>1, <2>2 DEF Started
        <3>2. addr[v] \in Addresses /\ addr[v] # NoAddress
            BY SMTT(30), <3>1, LifeAssumption DEF Started, Calm, Greetings, Unstarted, TypeInv,
               TypeOK, PlaceInv
        <3>3. screen[v] # <<>> \/ rspQueue[addr[v]] # <<>>
            BY <3>1 DEF Calm, Greetings
        <3>4. CASE v = w
            BY <1>3, <1>7, <1>8, <3>4
        <3>5. CASE v # w /\ addr[v] # a
            BY <1>1, <1>6, <1>8, <3>2, <3>3, <3>5
        <3>6. CASE v # w /\ addr[v] = a
            <4>1. hungUp[v]
                BY <1>4, <3>2, <3>6, StillThere, OneUser
            <4> QED
                BY <1>8, <3>6, <4>1 DEF Calm, Left
        <3> QED
            BY <3>4, <3>5, <3>6
    <2> QED
        BY <2>1, <2>2 DEF Greetings
<1> QED
    BY <1>13, <1>14, <1>15, <1>16, <1>17, <1>18 DEF Calm

LEMMA ShownAnswered ==
    ASSUME TypeInv, NEW u \in Users
    PROVE  Answered(u) = Shown(u)
<1>1. screen[u] \in Seq(Messages)
    BY DEF TypeInv, TypeOK
<1>2. \A k \in DOMAIN screen[u] : screen[u][k] \in Messages
    BY <1>1
<1>3. {k \in DOMAIN screen[u] : screen[u][k].kind = "answer"}
         = Hits(screen[u], AllAnswers)
    BY <1>2 DEF Hits, AllAnswers
<1> QED
    BY <1>3 DEF Answered, Shown, Count

\* Who hangs up with nothing left to be done has been served.
LEMMA CalmHangUp ==
    ASSUME TypeInv, Calm, NEW u \in Users, HangUp(u), "busy" \notin causes'
    PROVE  Calm'
<1>1. /\ ~Busy(u) /\ hungUp'[u]
      /\ \A v \in Users : v # u => hungUp'[v] = hungUp[v]
      /\ UNCHANGED <<screen, rspQueue, addr, commandQueue, cmd, issued, clientPc,
                     inbox>>
    BY DEF HangUp, TypeInv, TypeOK, memVars, mainVars, serverVars
<1>2. clientPc[u] = "recv" /\ inbox[u] = 0 /\ Greeted(u) /\ Answered(u) = issued[u]
    <2>1. inbox[u] \in Nat
        BY DEF TypeInv, TypeOK
    <2> QED
        BY <1>1, <2>1 DEF Busy
<1>3. screen[u] # <<>>
    BY <1>2 DEF Greeted
<1>4. \A v \in Users : /\ Shown(v)' = Shown(v) /\ Due(v)' = Due(v)
                       /\ Asked(v)' = Asked(v) /\ InHand(v)' = InHand(v)
    BY <1>1 DEF Shown, Due, Asked, InHand
<1>5. Books'
    BY <1>1, <1>4 DEF Calm, Books
<1>6. Left'
    BY <1>1, <1>2, <1>3, <1>4, ShownAnswered DEF Calm, Left, Leaving
<1>7. OwnCommands' /\ OwnMessages' /\ OwnLines' /\ Greetings'
    BY <1>1 DEF Calm, OwnCommands, OwnMessages, OwnLines, Greetings, Unstarted, Started
<1> QED
    BY <1>5, <1>6, <1>7 DEF Calm

\* A new user finds nothing of whoever had the memory before.
LEMMA CalmAccept ==
    ASSUME TypeInv, OwnerInv, Calm, NEW u \in Users, Accept(u)
    PROVE  Calm'
<1>1. PICK a, d, place : Accepts(u, a, d, place)
    BY AcceptChooses
<1>2. /\ a \in Addresses /\ a \notin live /\ addr[u] = NoAddress
      /\ clientPc[u] = "none" /\ clientPc'[u] \in {"header", "failed"} /\ addr'[u] = a
      /\ \A v \in Users : v # u => addr'[v] = addr[v] /\ clientPc'[v] = clientPc[v]
      /\ UNCHANGED <<cmd, commandQueue, inbox, issued, hungUp, screen>>
    BY <1>1 DEF Accepts, TypeInv, TypeOK
<1>3. UNCHANGED rspQueue
    <2>1. rspQueue[a] \in Seq(Messages)
        BY <1>2 DEF TypeInv, TypeOK
    <2>2. rspQueue[a] = <<>>
        <3>1. \A i \in DOMAIN rspQueue[a] : FALSE
            BY <1>2, MessagesPresent DEF Present
        <3> QED
            BY <2>1, <3>1, TailPlaces
    <2> QED
        BY <1>1, <2>2 DEF Accepts, TypeInv, TypeOK
<1>4. a # NoAddress
    BY <1>2, LifeAssumption
<1>5. /\ ~hungUp[u] /\ Unstarted(u) /\ screen[u] = <<>> /\ issued[u] = 0
    BY <1>2 DEF Calm, Left, Leaving, Unstarted, Greetings
<1>6. \A v \in Users : /\ Leaving(v)' <=> Leaving(v)
                       /\ Unstarted(v)' <=> Unstarted(v)
                       /\ Started(v)' <=> Started(v)
    BY <1>2 DEF Leaving, Unstarted, Started
<1>7. /\ \A i \in DOMAIN commandQueue : commandQueue[i].from \in Users \ {u}
      /\ cmd # NoCommand => cmd.from \in Users \ {u}
    <2>1. commandQueue \in Seq(Commands) /\ cmd \in Commands \union {NoCommand}
        BY DEF TypeInv, TypeOK
    <2>2. \A x \in Commands : x.from \in Users /\ x.con # NoAddress
        BY LifeAssumption DEF Commands
    <2>3. \A i \in DOMAIN commandQueue : commandQueue[i] \in Commands
        BY <2>1
    <2> QED
        BY <1>2, <2>1, <2>2, <2>3 DEF Calm, OwnCommands
<1>8. Shown(u) = 0 /\ Asked(u) = 0 /\ InHand(u) = 0 /\ Due(u)' = 0
    <2>1. Shown(u) = 0
        BY <1>5, CountEmpty DEF Shown
    <2>2. Asked(u) = 0
        <3>1. commandQueue \in Seq(Commands)
            BY DEF TypeInv, TypeOK
        <3>2. \A i \in DOMAIN commandQueue : commandQueue[i] \notin CommandsOf(u)
            BY <1>7 DEF CommandsOf
        <3> QED
            BY <3>1, <3>2, CountZero DEF Asked
    <2>3. InHand(u) = 0
        BY <1>7, LifeAssumption DEF InHand, NoCommand
    <2>4. Due(u)' = 0
        BY <1>1, <1>2, CountEmpty DEF Due, Accepts, TypeInv, TypeOK
    <2> QED
        BY <2>1, <2>2, <2>3, <2>4
<1>9. \A v \in Users : Shown(v)' = Shown(v) /\ Asked(v)' = Asked(v) /\ InHand(v)' = InHand(v)
    BY <1>2 DEF Shown, Asked, InHand
<1>10. Books'
    <2> SUFFICES ASSUME NEW v \in Users, addr'[v] # NoAddress
                 PROVE  Shown(v)' + Due(v)' + Asked(v)' + InHand(v)' = issued'[v]
        BY DEF Books
    <2>1. CASE v = u
        <3>1. /\ Shown(u)' = 0 /\ Due(u)' = 0 /\ Asked(u)' = 0 /\ InHand(u)' = 0
              /\ issued'[u] = 0
            BY <1>2, <1>5, <1>8, <1>9
        <3> QED
            BY <2>1, <3>1
    <2>2. CASE v # u
        <3>1. Due(v)' = Due(v) /\ addr[v] # NoAddress
            BY <1>2, <1>3, <2>2 DEF Due
        <3> QED
            BY <1>2, <1>9, <3>1 DEF Calm, Books
    <2> QED
        BY <2>1, <2>2
<1>11. Left'
    BY <1>2, <1>6, <1>9 DEF Calm, Left, Leaving
<1>12. OwnCommands'
    BY <1>2, <1>7 DEF Calm, OwnCommands
<1>13. OwnMessages'
    <2>1. \A b \in Addresses : \A i \in DOMAIN rspQueue[b] : rspQueue[b][i].to \in Users \ {u}
        BY <1>2, MessagesPresent, LifeAssumption DEF Present
    <2> QED
        BY <1>2, <1>3, <2>1 DEF Calm, OwnMessages
<1>14. OwnLines'
    BY <1>2 DEF Calm, OwnLines
<1>15. Greetings'
    <2>1. rspQueue[a] = <<>>
        BY <1>1, <1>2, <1>3 DEF Accepts, TypeInv, TypeOK
    <2>2. \A v \in Users \ {u} : addr'[v] = addr[v]
        BY <1>2
    <2>3. ~Started(u)
        BY <1>2 DEF Started
    <2> QED
        BY <1>2, <1>3, <1>5, <1>6, <2>1, <2>2, <2>3 DEF Calm, Greetings
<1> QED
    BY <1>10, <1>11, <1>12, <1>13, <1>14, <1>15 DEF Calm

-----------------------------------------------------------------------------
(* All steps, and what they show.                                          *)

LEMMA CalmNext == TypeInv /\ TypeInv' /\ OwnerInv /\ CalmInv /\ [Next]_vars => CalmInv'
<1> SUFFICES ASSUME TypeInv, TypeInv', OwnerInv, CalmInv, [Next]_vars,
                    "busy" \notin causes'
             PROVE  Calm'
    BY DEF CalmInv
<1>0. Calm
    BY CausesGrow DEF CalmInv
<1>1. CASE UNCHANGED vars
    BY <1>0, <1>1, CalmStill DEF vars, memVars, mainVars, serverVars, userVars
<1>2. CASE Main
    BY <1>0, <1>2, CalmMain
<1>3. CASE Server
    <2>1. CASE ServerLockQueue \/ ServerUnlock
        BY <1>0, <2>1, CalmStill DEF ServerLockQueue, ServerUnlock, memVars, mainVars,
           userVars
    <2> QED
        BY <1>0, <1>3, <2>1, CalmServerGet, CalmServerPut DEF Server
<1>4. ASSUME NEW u \in Users, Client(u) PROVE Calm'
    BY <1>0, <1>4, CalmClientQuiet, CalmGreet, CalmPutCommand DEF Client
<1>5. ASSUME NEW u \in Users, Rsp(u) PROVE Calm'
    BY <1>0, <1>5, CalmOthersQuiet, CalmRspWrite DEF Rsp
<1>6. ASSUME NEW u \in Users, Type(u) \/ RspSpuriousWake(u) PROVE Calm'
    BY <1>0, <1>6, CalmOthersQuiet
<1>7. CASE Environment
    BY <1>0, <1>6, <1>7, CalmAccept, CalmHangUp DEF Environment
<1> QED
    BY <1>1, <1>2, <1>3, <1>4, <1>5, <1>7 DEF Next

\* What is written to a user is this user's, whatever memory and descriptors are
\* used again, as long as nobody left before everything was answered: greeted
\* first, one answer at most to each command (Connection.c:60-93; hello.c:859-905).
THEOREM ScreensOwned == Spec => []OwnScreen
<1>1. TypeInv /\ CalmInv => OwnScreen
    <2> SUFFICES ASSUME TypeInv, Calm, NEW u \in Users
                 PROVE  /\ \A k \in DOMAIN screen[u] :
                              /\ screen[u][k].to = u
                              /\ screen[u][k].kind = "greeting" <=> k = 1
                        /\ Answered(u) <= issued[u]
        BY DEF CalmInv, OwnScreen
    <2>1. CASE addr[u] = NoAddress
        <3>1. screen[u] = <<>> /\ issued[u] = 0
            BY <2>1 DEF Calm, Greetings, Unstarted, TypeInv, PlaceInv
        <3>2. Shown(u) = 0
            BY <3>1, CountEmpty DEF Shown
        <3> QED
            BY <3>1, <3>2, ShownAnswered
    <2>2. CASE addr[u] # NoAddress
        <3> DEFINE s == Shown(u)
                   d == Due(u)
                   c == Asked(u)
                   h == InHand(u)
        <3>1. s \in Nat /\ d \in Nat /\ c \in Nat /\ h \in {0, 1}
            BY <2>2, CountTypes
        <3>2. s + d + c + h = issued[u] /\ Answered(u) = s
            BY <2>2, ShownAnswered DEF Calm, Books
        <3>3. \A k \in DOMAIN screen[u] :
                 screen[u][k].to = u /\ (screen[u][k].kind = "greeting" <=> k = 1)
            BY DEF Calm, OwnLines
        <3> HIDE DEF s, d, c, h
        <3> QED
            BY <3>1, <3>2, <3>3
    <2> QED
        BY <2>1, <2>2
<1> QED
    BY <1>1, TypeInit, TypeNext, OwnerInit, OwnerNext, CalmInit, CalmNext, PTL DEF Spec

LEMMA FreedInit == Init => HastyInv /\ AstirInv
BY DEF Init, HastyInv, AstirInv, Active

\* A mutex that nobody has initialised belongs to the connection main sets up.
RawInv ==
    \A a \in live : rspMutex[a] = "raw" \/ lineMutex[a] = "raw"
                      => mainPc = "initialise" /\ addr[setting] = a

\* No other step makes a mutex raw.
NoNewRaw ==
    /\ live' \subseteq live /\ UNCHANGED <<addr, mainPc, setting>>
    /\ \A a \in Addresses :
          /\ rspMutex'[a] = "raw" => rspMutex[a] = "raw"
          /\ lineMutex'[a] = "raw" => lineMutex[a] = "raw"

LEMMA GrantRaw ==
    \A mutex \in Mutexes : /\ \A grant \in Grants(mutex) :
                                  grant.mutex = "raw" => mutex = "raw"
                           /\ Released(mutex) = "raw" => mutex = "raw"
BY DEF Grants, Released, Mutexes

LEMMA RawThreads ==
    ASSUME TypeInv, Server \/ \E u \in Users : Client(u) \/ Rsp(u)
    PROVE  NoNewRaw
<1> DEFINE Kin(old, new) == \/ new = old
                            \/ \E a \in Addresses : \E mutex :
                                  /\ new = [old EXCEPT ![a] = mutex]
                                  /\ (mutex = "raw" => old[a] = "raw")
<1>0. /\ rspMutex \in [Addresses -> Mutexes] /\ lineMutex \in [Addresses -> Mutexes]
      /\ live \subseteq Addresses
    BY DEF TypeInv, TypeOK, Mutexes
<1>1. ASSUME NEW old \in [Addresses -> Mutexes], NEW new, Kin(old, new)
      PROVE  \A a \in Addresses : new[a] = "raw" => old[a] = "raw"
    BY <1>1
<1>2. ASSUME NEW old \in [Addresses -> Mutexes], NEW new, NEW a,
             \/ new = [old EXCEPT ![a] = Released(@)]
             \/ \E grant \in Grants(old[a]) :
                   \/ new = [old EXCEPT ![a] = grant.mutex]
                   \/ new = [old EXCEPT ![a] = Released(grant.mutex)]
      PROVE  Kin(old, new)
    <2>1. CASE a \notin Addresses
        <3>1. \A mutex : [old EXCEPT ![a] = mutex] = old
            BY <2>1
        <3> QED
            BY <1>2, <3>1
    <2>2. CASE a \in Addresses
        <3>1. old[a] \in Mutexes
            BY <2>2
        <3>2. ASSUME NEW grant \in Grants(old[a])
              PROVE  /\ grant.mutex = "raw" => old[a] = "raw"
                     /\ Released(grant.mutex) = "raw" => old[a] = "raw"
            BY <3>1, GrantRaw, GrantTypes DEF Mutexes
        <3>3. Released(old[a]) = "raw" => old[a] = "raw"
            BY <3>1, GrantRaw
        <3> HIDE DEF Released, Grants
        <3> QED
            BY <1>2, <2>2, <3>2, <3>3
    <2> QED
        BY <2>1, <2>2
<1> HIDE DEF Kin
<1>3. SUFFICES /\ live' \subseteq live /\ UNCHANGED <<addr, mainPc, setting>>
               /\ Kin(rspMutex, rspMutex') /\ Kin(lineMutex, lineMutex')
    BY <1>0, <1>1 DEF NoNewRaw
<1>4. \A old : Kin(old, old)
    BY DEF Kin
<1>5. CASE Server
    BY <1>0, <1>2, <1>4, <1>5 DEF Server, ServerGet, ServerLockQueue, ServerPutResponse,
       PutResponse, ServerUnlock, memVars, mainVars
<1>6. ASSUME NEW u \in Users, Client(u)
      PROVE  /\ live' \subseteq live /\ UNCHANGED <<addr, mainPc, setting>>
             /\ Kin(rspMutex, rspMutex') /\ Kin(lineMutex, lineMutex')
    BY <1>0, <1>2, <1>4, <1>6 DEF Client, ClientHeader, ClientLockQueue, ClientGreet,
       PutResponse, ClientKey, ClientPutCommand, ClientRedraw, ClientClose, ClientFree,
       memVars, mainVars
<1>7. ASSUME NEW u \in Users, Rsp(u)
      PROVE  /\ live' \subseteq live /\ UNCHANGED <<addr, mainPc, setting>>
             /\ Kin(rspMutex, rspMutex') /\ Kin(lineMutex, lineMutex')
    <2>1. CASE RspLock(u)
        <3>1. PICK grant \in Grants(rspMutex[addr[u]]) :
                 rspMutex' = [rspMutex EXCEPT ![addr[u]] =
                    IF rspQueue[addr[u]] = <<>> /\ grant.pc = "in"
                    THEN Released(grant.mutex) ELSE grant.mutex]
            BY <2>1 DEF RspLock
        <3>2. \/ rspMutex' = [rspMutex EXCEPT ![addr[u]] = grant.mutex]
              \/ rspMutex' = [rspMutex EXCEPT ![addr[u]] = Released(grant.mutex)]
            BY <3>1
        <3>3. Kin(rspMutex, rspMutex')
            BY <1>0, <1>2, <3>2
        <3> QED
            BY <1>4, <2>1, <3>3 DEF RspLock, mainVars
    <2>2. CASE RspRelock(u) \/ RspLockLine(u) \/ RspWrite(u) \/ RspUnlock(u)
        BY <1>0, <1>2, <1>4, <2>2 DEF RspRelock, RspLockLine, RspWrite, RspUnlock,
           mainVars
    <2> QED
        BY <1>7, <2>1, <2>2 DEF Rsp
<1> QED
    BY <1>5, <1>6, <1>7

LEMMA RawInit == Init => RawInv
BY DEF Init, RawInv

LEMMA RawNext == TypeInv /\ RawInv /\ [Next]_vars => RawInv'
<1> SUFFICES ASSUME TypeInv, RawInv, [Next]_vars PROVE RawInv'
    OBVIOUS
<1>0. /\ rspMutex \in [Addresses -> Mutexes] /\ lineMutex \in [Addresses -> Mutexes]
      /\ live \subseteq Addresses
    BY DEF TypeInv, TypeOK, Mutexes
<1>1. ASSUME NoNewRaw PROVE RawInv'
    BY <1>0, <1>1 DEF NoNewRaw, RawInv
<1>2. CASE Server \/ \E u \in Users : Client(u) \/ Rsp(u)
    BY <1>1, <1>2, RawThreads
<1>3. CASE Initialise
    <2>1. /\ mainPc = "initialise" /\ live' = live /\ addr[setting] \in live
          /\ rspMutex'[addr[setting]] = "free" /\ lineMutex'[addr[setting]] = "free"
          /\ \A a \in live : a # addr[setting] =>
                rspMutex'[a] = rspMutex[a] /\ lineMutex'[a] = lineMutex[a]
        BY <1>0, <1>3 DEF Initialise
    <2> QED
        BY <2>1 DEF RawInv
<1>4. CASE MakeRecursive \/ StartRsp \/ RspStatus
    <2>1. /\ mainPc # "initialise" /\ live' = live /\ rspMutex' = rspMutex
          /\ \A a \in live : lineMutex'[a] = "raw" => lineMutex[a] = "raw"
        BY <1>0, <1>4 DEF MakeRecursive, StartRsp, RspStatus, memVars
    <2> QED
        BY <2>1 DEF RawInv
<1>5. ASSUME NEW u \in Users, Accept(u) PROVE RawInv'
    <2>1. PICK a, d, place : Accepts(u, a, d, place)
        BY <1>5, AcceptChooses
    <2>2. /\ live' = live \union {a} /\ mainPc = "accept" /\ mainPc' = "initialise"
          /\ setting' = u /\ addr'[u] = a
          /\ \A b \in live : rspMutex'[b] = rspMutex[b] /\ lineMutex'[b] = lineMutex[b]
        BY <1>0, <2>1 DEF Accepts, TypeInv, TypeOK
    <2> QED
        BY <2>2 DEF RawInv
<1>6. ASSUME NEW u \in Users, Type(u) \/ HangUp(u) \/ RspSpuriousWake(u) PROVE NoNewRaw
    BY <1>6 DEF Type, HangUp, RspSpuriousWake, memVars, mainVars, NoNewRaw
<1>7. CASE UNCHANGED vars
    BY <1>7 DEF vars, memVars, mainVars, RawInv
<1> QED
    BY <1>1, <1>2, <1>3, <1>4, <1>5, <1>6, <1>7 DEF Next, Main, Environment

\* A step is undefined for the reasons UndefinedOnlyBy names and no other, however
\* connections, descriptors and threads interleave: main, the server and the
\* response threads on freed memory, a write to a user who has hung up, a mutex
\* that nobody has initialised (hello.c:824-836, 870, 873-905; Connection.c:60-93).
THEOREM UndefinedHasCause == Spec => []UndefinedOnlyBy
<1>1. /\ TypeInv /\ OwnerInv /\ HastyInv /\ AstirInv /\ CalmInv /\ RawInv
      => UndefinedOnlyBy
    <2> SUFFICES ASSUME TypeInv, OwnerInv, HastyInv, AstirInv, CalmInv, RawInv
                 PROVE  UndefinedOnlyBy
        OBVIOUS
    <2>1. MainUsesFreed => "hasty" \in causes
        BY DEF MainUsesFreed, HastyInv, OwnerInv, TypeInv, TypeOK, PlaceInv
    <2>2. ServerUsesFreed => "busy" \in causes
        <3>1. serverPc \in {"put", "putting"} => cmd # NoCommand
            BY DEF TypeInv, PlaceInv
        <3> QED
            BY <3>1, CommandsPresent DEF ServerUsesFreed, CalmInv, Present
    <2>3. ASSUME NEW u \in Users, RspUsesFreed(u)
          PROVE  causes \intersect {"astir", "spurious"} # {}
        BY <2>3 DEF RspUsesFreed, AstirInv, Active
    <2>4. ASSUME NEW u \in Users, MeetsSigpipe(u), "busy" \notin causes
          PROVE  FALSE
        <3>1. Calm /\ Writes(u) /\ hungUp[peer[sock[addr[u]]]]
            BY <2>4 DEF CalmInv, MeetsSigpipe
        <3>2. CASE clientPc[u] \in {"header", "redraw"}
            <4>1. Open(u) /\ ~hungUp[u]
                BY <3>1, <3>2 DEF Open, Calm, Left, Leaving
            <4> QED
                BY <3>1, <4>1 DEF OwnerInv
        <3>3. CASE addr[u] \in live /\ rspQueue[addr[u]] # <<>>
            <4>1. rspQueue[addr[u]] \in Seq(Messages) /\ addr[u] \in Addresses
                BY <3>3 DEF TypeInv, TypeOK
            <4>2. 1 \in DOMAIN rspQueue[addr[u]]
                BY <3>3, <4>1, TailPlaces
            <4> QED
                BY <3>1, <4>1, <4>2, MessagesPresent DEF Present
        <3> QED
            BY <3>1, <3>2, <3>3 DEF Writes
    <2>5. \A a \in live : LocksRaw(a) => mainPc = "initialise" /\ addr[setting] = a
        BY DEF RawInv, LocksRaw
    <2> QED
        BY <2>1, <2>2, <2>3, <2>4, <2>5 DEF UndefinedOnlyBy
<1> QED
    BY <1>1, TypeInit, TypeNext, OwnerInit, OwnerNext, CalmInit, CalmNext, FreedInit,
       HastyNext, AstirNext, RawInit, RawNext, PTL DEF Spec

-----------------------------------------------------------------------------
(* A mutex and the threads it lets in.                                     *)

Guards(mutex, inside) ==
    /\ mutex = "held" <=> inside # {}
    /\ \A x, y \in inside : x = y

LEMMA GuardsEnter ==
    ASSUME NEW S, NEW x, Guards("free", S)
    PROVE  Guards("held", S \union {x})
BY DEF Guards

LEMMA GuardsLeave ==
    ASSUME NEW S, NEW mutex, NEW x \in S, Guards(mutex, S)
    PROVE  Released(mutex) = "free" /\ Guards("free", S \ {x})
BY DEF Guards, Released

LEMMA AtMostOne ==
    ASSUME NEW S, \A x, y \in S : x = y
    PROVE  Cardinality(S) <= 1
<1>1. CASE S = {}
    BY <1>1, FS_EmptySet
<1>2. CASE S # {}
    <2>1. PICK x \in S : TRUE
        BY <1>2
    <2>2. S = {x}
        BY <2>1
    <2> QED
        BY <2>2, FS_Singleton
<1> QED
    BY <1>1, <1>2

-----------------------------------------------------------------------------
(* The invariant.                                                          *)

Settling(a, places) == mainPc \in places /\ addr[setting] = a

\* A mutex of a connection is held if and only if a thread is inside, there is
\* one at most, and there is none while main still has to initialise it.
Kept(a) ==
    /\ rspMutex[a] = "raw" => Settling(a, {"initialise"})
    /\ lineMutex[a] = "raw" => Settling(a, {"initialise"})
    /\ Guards(rspMutex[a], InQueue(a))
    /\ Guards(lineMutex[a], InLine(a))
    /\ Settling(a, {"initialise"}) => InQueue(a) = {}
    /\ Settling(a, {"initialise", "recursive"}) => InLine(a) = {}

Deserted(a) == InQueue(a) = {} /\ InLine(a) = {}

\* Memory that is free has nobody inside, so that who gets it next has it alone.
MutexInv ==
    causes \intersect {"early", "inside"} = {} =>
       /\ \A a \in live : Kept(a)
       /\ \A a \in Addresses \ live : Deserted(a)

LEMMA KeptSame ==
    ASSUME NEW a, Kept(a), rspMutex'[a] = rspMutex[a], lineMutex'[a] = lineMutex[a],
           InQueue(a)' = InQueue(a), InLine(a)' = InLine(a),
           Settling(a, {"initialise"})' <=> Settling(a, {"initialise"}),
           Settling(a, {"initialise", "recursive"})'
              => Settling(a, {"initialise", "recursive"})
    PROVE  Kept(a)'
BY DEF Kept

-----------------------------------------------------------------------------
(* Who is inside after a thread has moved.                                 *)

\* A step of one client thread; putCommand may wake a response thread.
LEMMA ClientMoves ==
    ASSUME NEW u \in Users, UNCHANGED <<addr, serverPc, cmd>>,
           \A v \in Users : v # u => clientPc'[v] = clientPc[v],
           \A v \in Users : rspPc'[v] # rspPc[v] =>
              rspPc[v] = "waiting" /\ rspPc'[v] = "woken"
    PROVE  \A a :
       /\ InQueue(a)' = IF addr[u] = a /\ clientPc'[u] = "greeting"
                        THEN InQueue(a) \union {<<"client", u>>}
                        ELSE InQueue(a) \ {<<"client", u>>}
       /\ InLine(a)' = IF addr[u] = a /\ clientPc'[u] \in {"put", "redraw"}
                       THEN InLine(a) \union {<<"client", u>>}
                       ELSE InLine(a) \ {<<"client", u>>}
BY DEF InQueue, InLine

\* A step of one response thread.
LEMMA RspMoves ==
    ASSUME NEW u \in Users, UNCHANGED <<addr, serverPc, cmd, clientPc>>,
           \A v \in Users : v # u => rspPc'[v] = rspPc[v]
    PROVE  \A a :
       /\ InQueue(a)' = IF addr[u] = a /\ rspPc'[u] \in {"lockLine", "drain"}
                        THEN InQueue(a) \union {<<"rsp", u>>}
                        ELSE InQueue(a) \ {<<"rsp", u>>}
       /\ InLine(a)' = IF addr[u] = a /\ rspPc'[u] = "drain"
                       THEN InLine(a) \union {<<"rsp", u>>}
                       ELSE InLine(a) \ {<<"rsp", u>>}
BY DEF InQueue, InLine

\* A step of the server thread.
LEMMA ServerMoves ==
    ASSUME UNCHANGED <<addr, clientPc>>,
           \A v \in Users : rspPc'[v] # rspPc[v] =>
              rspPc[v] = "waiting" /\ rspPc'[v] = "woken"
    PROVE  \A a :
       /\ InQueue(a)' = IF cmd'.con = a /\ serverPc' = "putting"
                        THEN InQueue(a) \union {<<"server", "putting">>}
                        ELSE InQueue(a) \ {<<"server", "putting">>}
       /\ InLine(a)' = InLine(a)
<1> DEFINE x == <<"server", "putting">>
<1> SUFFICES ASSUME NEW a
             PROVE  /\ InQueue(a)' = IF cmd'.con = a /\ serverPc' = "putting"
                                     THEN InQueue(a) \union {x} ELSE InQueue(a) \ {x}
                    /\ InLine(a)' = InLine(a)
    OBVIOUS
<1>1. InLine(a)' = InLine(a)
    BY DEF InLine
<1> DEFINE others == {<<"client", u>> : u \in {v \in Users : addr[v] = a /\ clientPc[v] = "greeting"}}
              \union {<<"rsp", u>> : u \in {v \in Users : addr[v] = a /\ rspPc[v] \in {"lockLine", "drain"}}}
<1>2. InQueue(a) = others \union {<<"server", pc>> : pc \in
                      IF cmd.con = a THEN {serverPc} \intersect {"putting"} ELSE {}}
    BY DEF InQueue
<1>3. InQueue(a)' = others' \union {<<"server", pc>> : pc \in
                      IF cmd'.con = a THEN {serverPc'} \intersect {"putting"} ELSE {}}
    BY DEF InQueue
<1>4. others' = others /\ x \notin others
    OBVIOUS
<1> HIDE DEF others
<1>5. InQueue(a) \ {x} = others
    BY <1>2, <1>4
<1>6. InQueue(a) \union {x} = others \union {x}
    BY <1>2
<1>7. InQueue(a)' = IF cmd'.con = a /\ serverPc' = "putting" THEN others \union {x} ELSE others
    BY <1>3, <1>4
<1> QED
    BY <1>1, <1>5, <1>6, <1>7

-----------------------------------------------------------------------------
(* The steps that take or release a mutex.                                 *)

\* A mutex that main has not initialised for good is not touched.
LEMMA InTime ==
    ASSUME NEW a, NEW notReady, Early(a, notReady), "early" \notin causes'
    PROVE  ~Settling(a, notReady)
BY DEF Early, Settling

LEMMA GrantFree ==
    ASSUME NEW mutex \in Mutexes, mutex # "raw", NEW grant \in Grants(mutex)
    PROVE  mutex = "free" /\ grant.mutex = "held" /\ grant.pc = "in"
BY GrantTypes DEF Mutexes

Still == UNCHANGED <<live, addr, mainPc, setting>>

\* A thread comes into the queue, or into the line.
LEMMA KeptEnterQueue ==
    ASSUME NEW a, NEW x, Kept(a), Still, ~Settling(a, {"initialise"}),
           rspMutex[a] = "free", rspMutex'[a] = "held",
           lineMutex'[a] = lineMutex[a], InLine(a)' = InLine(a),
           InQueue(a)' = InQueue(a) \union {x}
    PROVE  Kept(a)'
BY GuardsEnter DEF Kept, Still, Settling

LEMMA KeptLeaveQueue ==
    ASSUME NEW a, NEW x \in InQueue(a), Kept(a), Still,
           rspMutex'[a] = Released(rspMutex[a]),
           lineMutex'[a] = lineMutex[a], InLine(a)' = InLine(a),
           InQueue(a)' = InQueue(a) \ {x}
    PROVE  Kept(a)'
BY GuardsLeave DEF Kept, Still, Settling

LEMMA KeptEnterLine ==
    ASSUME NEW a, NEW x, Kept(a), Still, ~Settling(a, {"initialise", "recursive"}),
           lineMutex[a] = "free", lineMutex'[a] = "held",
           rspMutex'[a] = rspMutex[a], InQueue(a)' = InQueue(a),
           InLine(a)' = InLine(a) \union {x}
    PROVE  Kept(a)'
BY ZenonT(60), GuardsEnter DEF Kept, Still, Settling

LEMMA KeptLeaveLine ==
    ASSUME NEW a, NEW x \in InLine(a), Kept(a), Still,
           lineMutex'[a] = Released(lineMutex[a]),
           rspMutex'[a] = rspMutex[a], InQueue(a)' = InQueue(a),
           InLine(a)' = InLine(a) \ {x}
    PROVE  Kept(a)'
BY GuardsLeave DEF Kept, Still, Settling

LEMMA KeptStill ==
    ASSUME NEW a, Kept(a), Still,
           rspMutex'[a] = rspMutex[a], lineMutex'[a] = lineMutex[a],
           InQueue(a)' = InQueue(a), InLine(a)' = InLine(a)
    PROVE  Kept(a)'
BY DEF Kept, Still, Settling

\* Nobody is in the queue, or in the line, who is not there by the program.
LEMMA InsideClient ==
    ASSUME NEW u \in Users
    PROVE  \A a : /\ <<"client", u>> \in InQueue(a) <=> addr[u] = a /\ clientPc[u] = "greeting"
                  /\ <<"client", u>> \in InLine(a) <=>
                        addr[u] = a /\ clientPc[u] \in {"put", "redraw"}
BY DEF InQueue, InLine

LEMMA InsideRsp ==
    ASSUME NEW u \in Users
    PROVE  \A a : /\ <<"rsp", u>> \in InQueue(a) <=>
                        addr[u] = a /\ rspPc[u] \in {"lockLine", "drain"}
                  /\ <<"rsp", u>> \in InLine(a) <=> addr[u] = a /\ rspPc[u] = "drain"
BY DEF InQueue, InLine

LEMMA InsideServer ==
    \A a : <<"server", "putting">> \in InQueue(a) <=> cmd.con = a /\ serverPc = "putting"
BY DEF InQueue

LEMMA MutexTypes ==
    ASSUME TypeInv
    PROVE  /\ live \subseteq Addresses
           /\ rspMutex \in [Addresses -> Mutexes] /\ lineMutex \in [Addresses -> Mutexes]
BY DEF TypeInv, TypeOK, Mutexes

LEMMA KeptClient ==
    ASSUME TypeInv, OwnerInv, NEW u \in Users, QuietClient(u), "early" \notin causes',
           \A a \in live : Kept(a)
    PROVE  \A a \in live' : Kept(a)'
<1> DEFINE a == addr[u]
           x == <<"client", u>>
<1>0. /\ Still /\ clientPc = [v \in Users |-> clientPc[v]]
      /\ rspPc = [v \in Users |-> rspPc[v]]
    BY QuietClientMoves DEF Still, TypeInv, TypeOK
<1>1. a \in live /\ a \in Addresses /\ rspMutex[a] \in Mutexes /\ lineMutex[a] \in Mutexes
      /\ rspMutex = [b \in Addresses |-> rspMutex[b]]
      /\ lineMutex = [b \in Addresses |-> lineMutex[b]]
    <2>1. clientPc[u] \in {"header", "greet", "greeting", "recv", "put", "redraw"}
        BY QuietClientMoves
    <2>2. a \in live
        BY <2>1 DEF OwnerInv, Owner
    <2> QED
        BY <2>2, MutexTypes DEF TypeInv, TypeOK
<1>2. SUFFICES ASSUME NEW b \in live, Kept(b), Kept(a) PROVE Kept(b)'
    BY <1>0, <1>1 DEF Still
<1> HIDE DEF a, x
<1>3. CASE ClientHeader(u)
    <2>1. /\ clientPc'[u] = "greet" /\ clientPc[u] = "header"
          /\ \A v \in Users : v # u => clientPc'[v] = clientPc[v]
          /\ UNCHANGED <<addr, serverPc, cmd, rspPc, rspMutex, lineMutex>>
        BY <1>0, <1>3 DEF ClientHeader, memVars, mainVars, serverVars
    <2>2. InQueue(b)' = InQueue(b) \ {x} /\ InLine(b)' = InLine(b) \ {x}
        BY <2>1, ClientMoves DEF x
    <2>3. x \notin InQueue(b) /\ x \notin InLine(b)
        BY <2>1, InsideClient DEF x
    <2>4. InQueue(b)' = InQueue(b) /\ InLine(b)' = InLine(b)
        BY <2>2, <2>3
    <2> QED
        BY <1>0, <1>2, <2>1, <2>4, KeptStill
<1>4. CASE ClientLockQueue(u)
    <2>1. PICK grant \in Grants(rspMutex[a]) :
             /\ rspMutex' = [rspMutex EXCEPT ![a] = grant.mutex]
             /\ clientPc' = [clientPc EXCEPT ![u] = Goes(grant, "greeting")]
        BY <1>4 DEF ClientLockQueue, a
    <2>2. ~Settling(a, {"initialise"})
        BY <1>4, InTime DEF ClientLockQueue, a
    <2>3. rspMutex[a] # "raw"
        BY <1>2, <2>2 DEF Kept
    <2>4. rspMutex[a] = "free" /\ grant.mutex = "held" /\ grant.pc = "in"
        BY <1>1, <2>3, GrantFree
    <2>5. /\ clientPc'[u] = "greeting" /\ clientPc[u] = "greet"
          /\ \A v \in Users : v # u => clientPc'[v] = clientPc[v]
          /\ UNCHANGED <<addr, serverPc, cmd, rspPc, lineMutex>>
        BY <1>0, <1>4, <2>1, <2>4 DEF ClientLockQueue, Goes, mainVars, serverVars
    <2>6. /\ InQueue(b)' = IF a = b THEN InQueue(b) \union {x} ELSE InQueue(b) \ {x}
          /\ InLine(b)' = InLine(b) \ {x}
        BY <2>5, ClientMoves DEF a, x
    <2>7. x \notin InQueue(b) /\ x \notin InLine(b)
        BY <2>5, InsideClient DEF a, x
    <2>8. InLine(b)' = InLine(b) /\ (a # b => InQueue(b)' = InQueue(b))
        BY <2>6, <2>7
    <2>9. CASE b = a
        BY <1>0, <1>1, <1>2, <2>1, <2>2, <2>4, <2>5, <2>6, <2>8, <2>9, KeptEnterQueue
    <2>10. CASE b # a
        <3>1. rspMutex'[b] = rspMutex[b]
            BY <1>1, <2>1, <2>10, <1>2 DEF TypeInv, TypeOK
        <3> QED
            BY <1>0, <1>2, <2>5, <2>8, <2>10, <3>1, KeptStill
    <2> QED
        BY <2>9, <2>10
<1>5. CASE ClientGreet(u)
    <2>1. /\ clientPc'[u] = "recv" /\ clientPc[u] = "greeting"
          /\ \A v \in Users : v # u => clientPc'[v] = clientPc[v]
          /\ UNCHANGED <<addr, serverPc, cmd, lineMutex>>
          /\ rspMutex' = [rspMutex EXCEPT ![a] = Released(rspMutex[a])]
          /\ rspPc' \in Signal(a)
        BY <1>0, <1>1, <1>5 DEF ClientGreet, PutResponse, mainVars, serverVars, a
    <2>2. \A v \in Users : rspPc'[v] # rspPc[v] =>
              rspPc[v] = "waiting" /\ rspPc'[v] = "woken"
        BY <1>0, <2>1, SignalWakes
    <2>3. InQueue(b)' = InQueue(b) \ {x} /\ InLine(b)' = InLine(b) \ {x}
        BY <2>1, <2>2, ClientMoves DEF x
    <2>4. x \notin InLine(b) /\ (x \in InQueue(b) <=> b = a)
        BY <2>1, InsideClient DEF a, x
    <2>5. InLine(b)' = InLine(b) /\ (a # b => InQueue(b)' = InQueue(b))
        BY <2>3, <2>4
    <2>6. CASE b = a
        BY <1>0, <1>1, <1>2, <2>1, <2>3, <2>4, <2>5, <2>6, KeptLeaveQueue
    <2>7. CASE b # a
        <3>1. rspMutex'[b] = rspMutex[b]
            BY <1>1, <2>1, <2>7, <1>2 DEF TypeInv, TypeOK
        <3> QED
            BY <1>0, <1>2, <2>1, <2>5, <2>7, <3>1, KeptStill
    <2> QED
        BY <2>6, <2>7
<1>6. CASE ClientKey(u)
    <2>1. PICK grant \in Grants(lineMutex[a]) :
             /\ lineMutex' = [lineMutex EXCEPT ![a] = grant.mutex]
             /\ clientPc' = [clientPc EXCEPT ![u] = Goes(grant, "put")]
        BY <1>6 DEF ClientKey, a
    <2>2. ~Settling(a, {"initialise", "recursive"})
        BY <1>6, InTime DEF ClientKey, a
    <2>3. lineMutex[a] # "raw"
        BY <1>2, <2>2 DEF Kept, Settling
    <2>4. lineMutex[a] = "free" /\ grant.mutex = "held" /\ grant.pc = "in"
        BY <1>1, <2>3, GrantFree
    <2>5. /\ clientPc'[u] = "put" /\ clientPc[u] = "recv"
          /\ \A v \in Users : v # u => clientPc'[v] = clientPc[v]
          /\ UNCHANGED <<addr, serverPc, cmd, rspPc, rspMutex>>
        BY <1>0, <1>6, <2>1, <2>4 DEF ClientKey, Goes, mainVars, serverVars
    <2>6. /\ InQueue(b)' = InQueue(b) \ {x}
          /\ InLine(b)' = IF a = b THEN InLine(b) \union {x} ELSE InLine(b) \ {x}
        BY <2>5, ClientMoves DEF a, x
    <2>7. x \notin InQueue(b) /\ x \notin InLine(b)
        BY <2>5, InsideClient DEF a, x
    <2>8. InQueue(b)' = InQueue(b) /\ (a # b => InLine(b)' = InLine(b))
        BY <2>6, <2>7
    <2>9. CASE b = a
        BY <1>0, <1>1, <1>2, <2>1, <2>2, <2>4, <2>5, <2>6, <2>8, <2>9, KeptEnterLine
    <2>10. CASE b # a
        <3>1. lineMutex'[b] = lineMutex[b]
            BY <1>1, <2>1, <2>10, <1>2 DEF TypeInv, TypeOK
        <3> QED
            BY <1>0, <1>2, <2>5, <2>8, <2>10, <3>1, KeptStill
    <2> QED
        BY <2>9, <2>10
<1>7. CASE ClientPutCommand(u)
    <2>1. /\ clientPc'[u] = "redraw" /\ clientPc[u] = "put"
          /\ \A v \in Users : v # u => clientPc'[v] = clientPc[v]
          /\ UNCHANGED <<addr, serverPc, cmd, rspPc, rspMutex, lineMutex>>
        BY <1>0, <1>7 DEF ClientPutCommand, memVars, mainVars
    <2>2. /\ InQueue(b)' = InQueue(b) \ {x}
          /\ InLine(b)' = IF a = b THEN InLine(b) \union {x} ELSE InLine(b) \ {x}
        BY <2>1, ClientMoves DEF a, x
    <2>3. x \notin InQueue(b) /\ (x \in InLine(b) <=> b = a)
        BY <2>1, InsideClient DEF a, x
    <2>4. InQueue(b)' = InQueue(b) /\ InLine(b)' = InLine(b)
        BY <2>2, <2>3
    <2> QED
        BY <1>0, <1>2, <2>1, <2>4, KeptStill
<1>8. CASE ClientRedraw(u)
    <2>1. /\ clientPc'[u] = "recv" /\ clientPc[u] = "redraw"
          /\ \A v \in Users : v # u => clientPc'[v] = clientPc[v]
          /\ UNCHANGED <<addr, serverPc, cmd, rspPc, rspMutex>>
          /\ lineMutex' = [lineMutex EXCEPT ![a] = Released(lineMutex[a])]
        BY <1>0, <1>1, <1>8 DEF ClientRedraw, mainVars, serverVars, a
    <2>2. InQueue(b)' = InQueue(b) \ {x} /\ InLine(b)' = InLine(b) \ {x}
        BY <2>1, ClientMoves DEF x
    <2>3. x \notin InQueue(b) /\ (x \in InLine(b) <=> b = a)
        BY <2>1, InsideClient DEF a, x
    <2>4. InQueue(b)' = InQueue(b) /\ (a # b => InLine(b)' = InLine(b))
        BY <2>2, <2>3
    <2>5. CASE b = a
        BY <1>0, <1>1, <1>2, <2>1, <2>2, <2>3, <2>4, <2>5, KeptLeaveLine
    <2>6. CASE b # a
        <3>1. lineMutex'[b] = lineMutex[b]
            BY <1>1, <2>1, <2>6, <1>2 DEF TypeInv, TypeOK
        <3> QED
            BY <1>0, <1>2, <2>1, <2>4, <2>6, <3>1, KeptStill
    <2> QED
        BY <2>5, <2>6
<1> QED
    BY <1>3, <1>4, <1>5, <1>6, <1>7, <1>8 DEF QuietClient

LEMMA KeptServer ==
    ASSUME TypeInv, Server, "early" \notin causes',
           \A a \in live : Kept(a)
    PROVE  \A a \in live' : Kept(a)'
<1> DEFINE a == cmd.con
           x == <<"server", "putting">>
<1>0. /\ Still /\ UNCHANGED <<addr, clientPc, lineMutex>>
      /\ rspPc = [v \in Users |-> rspPc[v]]
    BY DEF Still, Server, ServerGet, ServerLockQueue, ServerPutResponse, ServerUnlock,
           memVars, mainVars, TypeInv, TypeOK
<1>1. SUFFICES ASSUME NEW b \in live, Kept(b) PROVE Kept(b)'
    BY <1>0 DEF Still
<1> HIDE DEF a, x
<1>2. CASE ServerGet \/ ServerUnlock
    <2>1. /\ serverPc \in {"lock", "drain"} /\ serverPc' \in {"put", "lock"}
          /\ UNCHANGED <<rspPc, rspMutex>>
        BY <1>2 DEF ServerGet, ServerUnlock, memVars
    <2>2. InQueue(b)' = InQueue(b) \ {x} /\ InLine(b)' = InLine(b)
        BY <1>0, <2>1, ServerMoves DEF x
    <2>3. x \notin InQueue(b)
        BY <2>1, InsideServer DEF x
    <2>4. InQueue(b)' = InQueue(b)
        BY <2>2, <2>3
    <2> QED
        BY <1>0, <1>1, <2>1, <2>2, <2>4, KeptStill
<1>3. CASE ServerLockQueue
    <2>1. /\ a \in live /\ a \in Addresses /\ serverPc = "put" /\ cmd' = cmd
          /\ rspMutex[a] \in Mutexes /\ UNCHANGED rspPc
        BY <1>3, MutexTypes DEF ServerLockQueue, a
    <2>2. PICK grant \in Grants(rspMutex[a]) :
             /\ rspMutex' = [rspMutex EXCEPT ![a] = grant.mutex]
             /\ serverPc' = Goes(grant, "putting")
        BY <1>3 DEF ServerLockQueue, a
    <2>3. ~Settling(a, {"initialise"})
        BY <1>3, InTime DEF ServerLockQueue, a
    <2>4. rspMutex[a] # "raw" /\ Kept(a)
        BY <2>1, <2>3 DEF Kept
    <2>5. rspMutex[a] = "free" /\ grant.mutex = "held" /\ grant.pc = "in"
        BY <2>1, <2>4, GrantFree
    <2>6. serverPc' = "putting"
        BY <2>2, <2>5 DEF Goes
    <2>7. /\ InQueue(b)' = IF a = b THEN InQueue(b) \union {x} ELSE InQueue(b) \ {x}
          /\ InLine(b)' = InLine(b)
        BY <1>0, <2>1, <2>6, ServerMoves DEF a, x
    <2>8. x \notin InQueue(b)
        BY <2>1, InsideServer DEF x
    <2>9. CASE b = a
        <3>1. rspMutex'[a] = "held"
            BY <2>1, <2>2, <2>5, MutexTypes
        <3> QED
            BY <1>0, <2>3, <2>4, <2>5, <2>7, <2>9, <3>1, KeptEnterQueue
    <2>10. CASE b # a
        <3>1. rspMutex'[b] = rspMutex[b] /\ InQueue(b)' = InQueue(b)
            BY <1>1, <2>2, <2>7, <2>8, <2>10, MutexTypes
        <3> QED
            BY <1>0, <1>1, <2>7, <3>1, KeptStill
    <2> QED
        BY <2>9, <2>10
<1>4. CASE ServerPutResponse
    <2>1. /\ a \in live /\ a \in Addresses /\ serverPc = "putting" /\ serverPc' = "drain"
          /\ rspMutex' = [rspMutex EXCEPT ![a] = Released(rspMutex[a])]
          /\ rspPc' \in Signal(a)
        BY <1>4, MutexTypes DEF ServerPutResponse, PutResponse, a
    <2>2. \A v \in Users : rspPc'[v] # rspPc[v] =>
              rspPc[v] = "waiting" /\ rspPc'[v] = "woken"
        BY <1>0, <2>1, SignalWakes
    <2>3. InQueue(b)' = InQueue(b) \ {x} /\ InLine(b)' = InLine(b)
        BY <1>0, <2>1, <2>2, ServerMoves DEF x
    <2>4. x \in InQueue(b) <=> b = a
        BY <2>1, InsideServer DEF a, x
    <2>5. CASE b = a
        <3>1. rspMutex'[a] = Released(rspMutex[a]) /\ Kept(a) /\ x \in InQueue(a)
            BY <1>1, <2>1, <2>4, <2>5, MutexTypes
        <3> QED
            BY <1>0, <2>3, <2>5, <3>1, KeptLeaveQueue
    <2>6. CASE b # a
        <3>1. rspMutex'[b] = rspMutex[b] /\ InQueue(b)' = InQueue(b)
            BY <1>1, <2>1, <2>3, <2>4, <2>6, MutexTypes
        <3> QED
            BY <1>0, <1>1, <2>3, <3>1, KeptStill
    <2> QED
        BY <2>5, <2>6
<1> QED
    BY <1>2, <1>3, <1>4 DEF Server

LEMMA KeptRsp ==
    ASSUME TypeInv, NEW u \in Users, Rsp(u), "early" \notin causes',
           \A a \in live : Kept(a)
    PROVE  \A a \in live' : Kept(a)'
<1> DEFINE a == addr[u]
           x == <<"rsp", u>>
<1>0. /\ Still /\ UNCHANGED <<addr, serverPc, cmd, clientPc>>
      /\ rspPc = [v \in Users |-> rspPc[v]]
      /\ \A v \in Users : v # u => rspPc'[v] = rspPc[v]
      /\ addr[u] \in live
    BY DEF Still, Rsp, RspLock, RspRelock, RspLockLine, RspWrite, RspUnlock, mainVars,
           serverVars, TypeInv, TypeOK
<1>1. a \in live /\ a \in Addresses /\ rspMutex[a] \in Mutexes /\ lineMutex[a] \in Mutexes
    BY <1>0, MutexTypes
<1>2. SUFFICES ASSUME NEW b \in live, Kept(b), Kept(a) PROVE Kept(b)'
    BY <1>0, <1>1 DEF Still
<1>3. /\ InQueue(b)' = IF a = b /\ rspPc'[u] \in {"lockLine", "drain"}
                       THEN InQueue(b) \union {x} ELSE InQueue(b) \ {x}
      /\ InLine(b)' = IF a = b /\ rspPc'[u] = "drain"
                      THEN InLine(b) \union {x} ELSE InLine(b) \ {x}
    BY <1>0, RspMoves
<1>4. /\ x \in InQueue(b) <=> a = b /\ rspPc[u] \in {"lockLine", "drain"}
      /\ x \in InLine(b) <=> a = b /\ rspPc[u] = "drain"
    BY InsideRsp
<1>5. ASSUME NEW mutex, rspMutex' = [rspMutex EXCEPT ![a] = mutex]
      PROVE  rspMutex'[a] = mutex /\ (b # a => rspMutex'[b] = rspMutex[b])
    BY <1>1, <1>2, <1>5, MutexTypes
<1>6. ASSUME NEW mutex, lineMutex' = [lineMutex EXCEPT ![a] = mutex]
      PROVE  lineMutex'[a] = mutex /\ (b # a => lineMutex'[b] = lineMutex[b])
    BY <1>1, <1>2, <1>6, MutexTypes
<1> HIDE DEF a, x
\* The queue is taken by a thread that was outside.
<1>7. ASSUME rspPc[u] \in {"lock", "woken"}, rspPc'[u] = "lockLine", UNCHANGED lineMutex,
             NEW grant \in Grants(rspMutex[a]), ~Settling(a, {"initialise"}),
             rspMutex' = [rspMutex EXCEPT ![a] = grant.mutex]
      PROVE  Kept(b)'
    <2>1. rspMutex[a] # "raw"
        BY <1>2, <1>7 DEF Kept
    <2>2. rspMutex[a] = "free" /\ grant.mutex = "held"
        BY <1>1, <1>7, <2>1, GrantFree
    <2>3. /\ InLine(b)' = InLine(b) /\ (b # a => InQueue(b)' = InQueue(b))
          /\ b = a => InQueue(b)' = InQueue(b) \union {x}
        BY <1>3, <1>4, <1>7
    <2>4. CASE b = a
        BY <1>0, <1>2, <1>5, <1>7, <2>2, <2>3, <2>4, KeptEnterQueue
    <2>5. CASE b # a
        BY <1>0, <1>2, <1>5, <1>7, <2>3, <2>5, KeptStill
    <2> QED
        BY <2>4, <2>5
<1>8. CASE RspLock(u)
    <2>1. PICK grant \in Grants(rspMutex[a]) :
             LET wait == rspQueue[a] = <<>> /\ grant.pc = "in" IN
                /\ rspMutex' = [rspMutex EXCEPT ![a] =
                      IF wait THEN Released(grant.mutex) ELSE grant.mutex]
                /\ rspPc' = [rspPc EXCEPT ![u] =
                      IF wait THEN "waiting" ELSE Goes(grant, "lockLine")]
        BY <1>8 DEF RspLock, a
    <2>2. ~Settling(a, {"initialise"}) /\ rspPc[u] = "lock" /\ UNCHANGED lineMutex
        BY <1>8, InTime DEF RspLock, a
    <2>3. rspMutex[a] # "raw"
        BY <1>2, <2>2 DEF Kept
    <2>4. rspMutex[a] = "free" /\ grant.mutex = "held" /\ grant.pc = "in"
        BY <1>1, <2>3, GrantFree
    <2>5. CASE rspQueue[a] = <<>>
        <3>1. rspMutex' = [rspMutex EXCEPT ![a] = "free"] /\ rspPc'[u] = "waiting"
            BY <1>0, <2>1, <2>4, <2>5 DEF Released
        <3>2. rspMutex'[b] = rspMutex[b]
            BY <1>5, <2>4, <3>1
        <3>3. InQueue(b)' = InQueue(b) /\ InLine(b)' = InLine(b)
            BY <1>3, <1>4, <2>2, <3>1
        <3> QED
            BY <1>0, <1>2, <2>2, <3>2, <3>3, KeptStill
    <2>6. CASE rspQueue[a] # <<>>
        <3>1. rspMutex' = [rspMutex EXCEPT ![a] = grant.mutex] /\ rspPc'[u] = "lockLine"
            BY <1>0, <2>1, <2>4, <2>6 DEF Goes
        <3> QED
            BY <1>7, <2>2, <3>1
    <2> QED
        BY <2>5, <2>6
<1>9. CASE RspRelock(u)
    <2>1. PICK grant \in Grants(rspMutex[a]) :
             /\ rspMutex' = [rspMutex EXCEPT ![a] = grant.mutex]
             /\ rspPc' = [rspPc EXCEPT ![u] = Goes(grant, "lockLine")]
        BY <1>9 DEF RspRelock, a
    <2>2. ~Settling(a, {"initialise"}) /\ rspPc[u] = "woken" /\ UNCHANGED lineMutex
        BY <1>9, InTime DEF RspRelock, a
    <2>3. rspMutex[a] # "raw"
        BY <1>2, <2>2 DEF Kept
    <2>4. grant.pc = "in"
        BY <1>1, <2>3, GrantFree
    <2>5. rspPc'[u] = "lockLine"
        BY <1>0, <2>1, <2>4 DEF Goes
    <2> QED
        BY <1>7, <2>1, <2>2, <2>5
<1>10. CASE RspLockLine(u)
    <2>1. PICK grant \in Grants(lineMutex[a]) :
             /\ lineMutex' = [lineMutex EXCEPT ![a] = grant.mutex]
             /\ rspPc' = [rspPc EXCEPT ![u] = Goes(grant, "drain")]
        BY <1>10 DEF RspLockLine, a
    <2>2. /\ ~Settling(a, {"initialise", "recursive"}) /\ rspPc[u] = "lockLine"
          /\ UNCHANGED rspMutex
        BY <1>10, InTime DEF RspLockLine, a
    <2>3. lineMutex[a] # "raw"
        BY <1>2, <2>2 DEF Kept, Settling
    <2>4. lineMutex[a] = "free" /\ grant.mutex = "held" /\ grant.pc = "in"
        BY <1>1, <2>3, GrantFree
    <2>5. rspPc'[u] = "drain"
        BY <1>0, <2>1, <2>4 DEF Goes
    <2>6. /\ InQueue(b)' = InQueue(b) /\ (b # a => InLine(b)' = InLine(b))
          /\ b = a => InLine(b)' = InLine(b) \union {x}
        BY <1>3, <1>4, <2>2, <2>5
    <2>7. CASE b = a
        BY <1>0, <1>2, <1>6, <2>1, <2>2, <2>4, <2>6, <2>7, KeptEnterLine
    <2>8. CASE b # a
        BY <1>0, <1>2, <1>6, <2>1, <2>2, <2>6, <2>8, KeptStill
    <2> QED
        BY <2>7, <2>8
<1>11. CASE RspWrite(u)
    <2>1. /\ UNCHANGED <<rspMutex, lineMutex>> /\ rspPc[u] = "drain"
          /\ rspPc'[u] = "drain"
        BY <1>11 DEF RspWrite
    <2>2. InQueue(b)' = InQueue(b) /\ InLine(b)' = InLine(b)
        BY <1>3, <1>4, <2>1
    <2> QED
        BY <1>0, <1>2, <2>1, <2>2, KeptStill
<1>12. CASE RspUnlock(u)
    <2>1. /\ rspPc[u] = "drain" /\ rspPc'[u] = "lock"
          /\ rspMutex' = [rspMutex EXCEPT ![a] = Released(rspMutex[a])]
          /\ lineMutex' = [lineMutex EXCEPT ![a] = Released(lineMutex[a])]
        BY <1>0, <1>1, <1>12, MutexTypes DEF RspUnlock, a
    <2>2. InQueue(b)' = InQueue(b) \ {x} /\ InLine(b)' = InLine(b) \ {x}
        BY <1>3, <2>1
    <2>3. (x \in InQueue(b) <=> a = b) /\ (x \in InLine(b) <=> a = b)
        BY <1>4, <2>1
    <2>4. CASE b = a
        <3>1. /\ rspMutex'[b] = "free" /\ Guards("free", InQueue(b)')
              /\ lineMutex'[b] = "free" /\ Guards("free", InLine(b)')
            <4>1. /\ rspMutex'[b] = Released(rspMutex[b])
                  /\ lineMutex'[b] = Released(lineMutex[b])
                BY <1>5, <1>6, <2>1, <2>4
            <4>2. x \in InQueue(b) /\ x \in InLine(b)
                BY <2>3, <2>4
            <4>3. Guards(rspMutex[b], InQueue(b)) /\ Guards(lineMutex[b], InLine(b))
                BY <1>2 DEF Kept
            <4>4. Released(rspMutex[b]) = "free" /\ Guards("free", InQueue(b) \ {x})
                BY <4>2, <4>3, GuardsLeave
            <4>5. Released(lineMutex[b]) = "free" /\ Guards("free", InLine(b) \ {x})
                BY <4>2, <4>3, GuardsLeave
            <4> QED
                BY <2>2, <4>1, <4>4, <4>5
        <3>2. /\ Settling(b, {"initialise"})' => Settling(b, {"initialise"})
              /\ Settling(b, {"initialise", "recursive"})' =>
                    Settling(b, {"initialise", "recursive"})
            BY <1>0 DEF Settling, Still
        <3>3. /\ Settling(b, {"initialise"})' => InQueue(b)' = {}
              /\ Settling(b, {"initialise", "recursive"})' => InLine(b)' = {}
            BY <1>2, <2>2, <3>2 DEF Kept
        <3>4. /\ Guards(rspMutex'[b], InQueue(b)') /\ rspMutex'[b] # "raw"
              /\ Guards(lineMutex'[b], InLine(b)') /\ lineMutex'[b] # "raw"
            BY <3>1
        <3> QED
            BY <3>3, <3>4 DEF Kept
    <2>5. CASE b # a
        <3>1. InQueue(b)' = InQueue(b) /\ InLine(b)' = InLine(b)
            BY <2>2, <2>3, <2>5
        <3> QED
            BY <1>0, <1>2, <1>5, <1>6, <2>1, <2>5, <3>1, KeptStill
    <2> QED
        BY <2>4, <2>5
<1> QED
    BY <1>8, <1>9, <1>10, <1>11, <1>12 DEF Rsp

-----------------------------------------------------------------------------
(* Main, and all steps.                                                    *)

\* Where nobody comes or goes, the same threads are inside.
LEMMA InsideSame ==
    ASSUME UNCHANGED <<addr, clientPc, serverPc, cmd>>,
           \A v \in Users : rspPc'[v] # rspPc[v] =>
              {rspPc[v], rspPc'[v]} \intersect {"lockLine", "drain"} = {}
    PROVE  \A a : InQueue(a)' = InQueue(a) /\ InLine(a)' = InLine(a)
<1> SUFFICES ASSUME NEW a PROVE InQueue(a)' = InQueue(a) /\ InLine(a)' = InLine(a)
    OBVIOUS
<1>1. \A v \in Users : /\ rspPc'[v] \in {"lockLine", "drain"} <=>
                             rspPc[v] \in {"lockLine", "drain"}
                       /\ rspPc'[v] = "drain" <=> rspPc[v] = "drain"
    OBVIOUS
<1>2. {v \in Users : addr[v] = a /\ rspPc'[v] \in {"lockLine", "drain"}}
         = {v \in Users : addr[v] = a /\ rspPc[v] \in {"lockLine", "drain"}}
    BY <1>1
<1>3. {v \in Users : addr[v] = a /\ rspPc'[v] = "drain"}
         = {v \in Users : addr[v] = a /\ rspPc[v] = "drain"}
    BY <1>1
<1>4. InQueue(a)' = InQueue(a)
    BY <1>2 DEF InQueue
<1>5. InLine(a)' = InLine(a)
    BY <1>3 DEF InLine
<1> QED
    BY <1>4, <1>5

LEMMA KeptMain ==
    ASSUME TypeInv, Main, \A a \in live : Kept(a)
    PROVE  \A a \in live' : Kept(a)'
<1> DEFINE a == addr[setting]
<1>0. /\ UNCHANGED <<live, addr, clientPc, serverPc, cmd>> /\ mainPc # "accept"
      /\ a \in live /\ setting \in Users
      /\ rspPc = [v \in Users |-> rspPc[v]]
    BY DEF Main, Initialise, MakeRecursive, StartRsp, RspStatus, memVars, serverVars,
           TypeInv, TypeOK, PlaceInv
<1>1. \A v \in Users : rspPc'[v] # rspPc[v] =>
         {rspPc[v], rspPc'[v]} \intersect {"lockLine", "drain"} = {}
    <2>1. CASE StartRsp
        BY <1>0, <2>1 DEF StartRsp, TypeInv, PlaceInv
    <2>2. CASE Initialise \/ MakeRecursive \/ RspStatus
        BY <2>2 DEF Initialise, MakeRecursive, RspStatus
    <2> QED
        BY <2>1, <2>2 DEF Main
<1>2. SUFFICES ASSUME NEW b \in live, Kept(b), InQueue(b)' = InQueue(b),
                      InLine(b)' = InLine(b)
               PROVE  Kept(b)'
    BY <1>0, <1>1, InsideSame
<1>3. rspMutex \in [Addresses -> Mutexes] /\ lineMutex \in [Addresses -> Mutexes]
      /\ a \in Addresses /\ b \in Addresses
    BY <1>0, <1>2, MutexTypes
<1>4. CASE Initialise
    <2>1. /\ mainPc = "initialise" /\ mainPc' = "recursive" /\ setting' = setting
          /\ rspMutex' = [rspMutex EXCEPT ![a] = "free"]
          /\ lineMutex' = [lineMutex EXCEPT ![a] = "free"]
        BY <1>4 DEF Initialise
    <2>2. ~Settling(b, {"initialise"})'
        BY <2>1 DEF Settling
    <2>3. CASE b = a
        <3>1. InQueue(b)' = {} /\ InLine(b)' = {}
            BY <1>2, <2>1, <2>3 DEF Kept, Settling
        <3>2. rspMutex'[b] = "free" /\ lineMutex'[b] = "free"
            BY <1>3, <2>1, <2>3
        <3> QED
            BY <2>2, <3>1, <3>2 DEF Kept, Guards
    <2>4. CASE b # a
        <3>1. rspMutex'[b] = rspMutex[b] /\ lineMutex'[b] = lineMutex[b]
            BY <1>3, <2>1, <2>4
        <3>2. ~Settling(b, {"initialise"}) /\ ~Settling(b, {"initialise", "recursive"})'
            BY <1>0, <2>1, <2>4 DEF Settling
        <3> QED
            BY <1>2, <2>2, <3>1, <3>2, KeptSame
    <2> QED
        BY <2>3, <2>4
<1>5. CASE MakeRecursive
    <2>1. /\ mainPc = "recursive" /\ mainPc' = "startRsp" /\ UNCHANGED rspMutex
          /\ lineMutex' = [lineMutex EXCEPT ![a] = "free"]
        BY <1>5 DEF MakeRecursive
    <2>2. /\ ~Settling(b, {"initialise"})' /\ ~Settling(b, {"initialise"})
          /\ ~Settling(b, {"initialise", "recursive"})'
        BY <2>1 DEF Settling
    <2>3. CASE b = a
        <3>1. InLine(b)' = {} /\ Guards("free", InLine(b)')
            BY <1>2, <2>1, <2>3 DEF Kept, Settling, Guards
        <3>2. rspMutex'[b] = rspMutex[b] /\ lineMutex'[b] = "free"
            BY <1>3, <2>1, <2>3
        <3>3. Guards(rspMutex'[b], InQueue(b)') /\ rspMutex'[b] # "raw"
            BY <1>2, <2>2, <3>2 DEF Kept
        <3>4. Guards(lineMutex'[b], InLine(b)') /\ lineMutex'[b] # "raw"
            BY <3>1, <3>2
        <3> QED
            BY <2>2, <3>3, <3>4 DEF Kept
    <2>4. CASE b # a
        <3>1. rspMutex'[b] = rspMutex[b] /\ lineMutex'[b] = lineMutex[b]
            BY <1>3, <2>1, <2>4
        <3> QED
            BY <1>2, <2>2, <3>1, KeptSame
    <2> QED
        BY <2>3, <2>4
<1>6. CASE StartRsp \/ RspStatus
    <2>1. /\ mainPc \in {"startRsp", "rspStatus"} /\ mainPc' \in {"rspStatus", "accept"}
          /\ UNCHANGED <<rspMutex, lineMutex>>
        BY <1>6 DEF StartRsp, RspStatus, memVars
    <2>2. /\ ~Settling(b, {"initialise"})' /\ ~Settling(b, {"initialise"})
          /\ ~Settling(b, {"initialise", "recursive"})'
        BY <2>1 DEF Settling
    <2> QED
        BY <1>2, <2>1, <2>2, KeptSame
<1> QED
    BY <1>4, <1>5, <1>6 DEF Main

\* A new connection has nobody inside, though its mutexes are not initialised.
LEMMA KeptAccept ==
    ASSUME TypeInv, NEW u \in Users, Accept(u), \A a \in live : Kept(a),
           \A a \in Addresses \ live : Deserted(a)
    PROVE  /\ \A a \in live' : Kept(a)'
           /\ \A a \in Addresses \ live' : Deserted(a)'
<1>1. PICK a, d, place : Accepts(u, a, d, place)
    BY AcceptChooses
<1>2. /\ a \in Addresses /\ a \notin live /\ live' = live \union {a} /\ addr'[u] = a
      /\ clientPc'[u] \in {"header", "failed"} /\ clientPc[u] = "none"
      /\ \A v \in Users : v # u => addr'[v] = addr[v] /\ clientPc'[v] = clientPc[v]
      /\ UNCHANGED <<rspPc, serverPc, cmd>>
      /\ mainPc = "accept" /\ mainPc' = "initialise" /\ setting' = u
    BY <1>1 DEF Accepts, TypeInv, TypeOK
<1>3. rspPc[u] = "none"
    BY <1>2 DEF TypeInv, PlaceInv
<1>4. /\ rspMutex'[a] = "raw" /\ lineMutex'[a] = "raw"
      /\ \A b \in live : rspMutex'[b] = rspMutex[b] /\ lineMutex'[b] = lineMutex[b]
    BY <1>1, MutexTypes DEF Accepts
<1>5. ASSUME NEW b \in Addresses
      PROVE  InQueue(b)' = InQueue(b) /\ InLine(b)' = InLine(b)
    <2>1. \A v \in Users :
             /\ (addr'[v] = b /\ clientPc'[v] = "greeting")
                   <=> (addr[v] = b /\ clientPc[v] = "greeting")
             /\ (addr'[v] = b /\ clientPc'[v] \in {"put", "redraw"})
                   <=> (addr[v] = b /\ clientPc[v] \in {"put", "redraw"})
             /\ (addr'[v] = b /\ rspPc'[v] \in {"lockLine", "drain"})
                   <=> (addr[v] = b /\ rspPc[v] \in {"lockLine", "drain"})
             /\ (addr'[v] = b /\ rspPc'[v] = "drain")
                   <=> (addr[v] = b /\ rspPc[v] = "drain")
        BY <1>2, <1>3
    <2>2. InLine(b)' = InLine(b)
        BY <2>1 DEF InLine
    <2>3. InQueue(b)' = InQueue(b)
        BY <1>2, <2>1 DEF InQueue
    <2> QED
        BY <2>2, <2>3
<1>6. InQueue(a)' = {} /\ InLine(a)' = {}
    BY <1>2, <1>5 DEF Deserted
<1>7. Kept(a)'
    BY <1>2, <1>4, <1>6 DEF Kept, Guards, Settling
<1>8. ASSUME NEW b \in live PROVE Kept(b)'
    <2>1. b # a /\ b \in Addresses
        BY <1>2, MutexTypes
    <2>2. /\ ~Settling(b, {"initialise"})' /\ ~Settling(b, {"initialise"})
          /\ ~Settling(b, {"initialise", "recursive"})'
        BY <1>2, <2>1 DEF Settling
    <2> QED
        BY <1>4, <1>5, <2>1, <2>2, KeptSame
<1>9. ASSUME NEW b \in Addresses \ live' PROVE Deserted(b)'
    BY <1>2, <1>5 DEF Deserted
<1> QED
    BY <1>2, <1>7, <1>8, <1>9

\* Users come and go, and connections are closed and freed.
LEMMA KeptOthers ==
    ASSUME TypeInv, NEW u \in Users,
           \/ Type(u) \/ HangUp(u) \/ RspSpuriousWake(u)
           \/ ClientClose(u) \/ ClientFree(u)
    PROVE  /\ \A a : InQueue(a)' = InQueue(a) /\ InLine(a)' = InLine(a)
           /\ \A a \in live' : Kept(a) => Kept(a)'
           /\ live' \subseteq live /\ UNCHANGED addr
<1>1. /\ live' \subseteq live
      /\ UNCHANGED <<addr, mainPc, setting, serverPc, cmd, rspMutex, lineMutex>>
      /\ \A v \in Users : v # u => clientPc'[v] = clientPc[v]
      /\ \/ clientPc'[u] = clientPc[u]
         \/ {clientPc[u], clientPc'[u]} \intersect {"greeting", "put", "redraw"} = {}
      /\ \A v \in Users : rspPc'[v] # rspPc[v] =>
            rspPc[v] = "waiting" /\ rspPc'[v] = "woken"
    BY DEF Type, HangUp, RspSpuriousWake, ClientClose, ClientFree, memVars, mainVars,
           serverVars, userVars, TypeInv, TypeOK
<1>2. SUFFICES ASSUME NEW a
               PROVE  /\ InQueue(a)' = InQueue(a) /\ InLine(a)' = InLine(a)
                      /\ Kept(a) => Kept(a)'
    BY <1>1
<1>3. /\ InQueue(a)' = IF addr[u] = a /\ clientPc'[u] = "greeting"
                       THEN InQueue(a) \union {<<"client", u>>}
                       ELSE InQueue(a) \ {<<"client", u>>}
      /\ InLine(a)' = IF addr[u] = a /\ clientPc'[u] \in {"put", "redraw"}
                      THEN InLine(a) \union {<<"client", u>>}
                      ELSE InLine(a) \ {<<"client", u>>}
    BY <1>1, ClientMoves
<1>4. /\ <<"client", u>> \in InQueue(a) <=> addr[u] = a /\ clientPc[u] = "greeting"
      /\ <<"client", u>> \in InLine(a) <=> addr[u] = a /\ clientPc[u] \in {"put", "redraw"}
    BY InsideClient
<1>5. /\ clientPc'[u] = "greeting" <=> clientPc[u] = "greeting"
      /\ clientPc'[u] \in {"put", "redraw"} <=> clientPc[u] \in {"put", "redraw"}
    BY <1>1
<1>6. InQueue(a)' = InQueue(a) /\ InLine(a)' = InLine(a)
    BY <1>3, <1>4, <1>5
<1>7. /\ Settling(a, {"initialise"})' <=> Settling(a, {"initialise"})
      /\ Settling(a, {"initialise", "recursive"})'
            <=> Settling(a, {"initialise", "recursive"})
    BY <1>1 DEF Settling
<1> QED
    BY <1>1, <1>6, <1>7, KeptSame

\* Nobody comes in where the memory is free.
LEMMA DesertedStep ==
    ASSUME TypeInv, OwnerInv, Still, \A a \in Addresses \ live : Deserted(a),
           Server \/ \E u \in Users : QuietClient(u) \/ Rsp(u)
    PROVE  \A a \in Addresses \ live' : Deserted(a)'
<1>1. SUFFICES ASSUME NEW a \in Addresses \ live, Deserted(a) PROVE Deserted(a)'
    BY DEF Still
<1>2. CASE Server
    <2>1. /\ UNCHANGED <<addr, clientPc>> /\ rspPc = [v \in Users |-> rspPc[v]]
          /\ rspPc' = rspPc \/ \E b : rspPc' \in Signal(b)
          /\ ~(cmd'.con = a /\ serverPc' = "putting")
        <3>1. CASE ServerLockQueue
            BY <1>1, <3>1 DEF ServerLockQueue, mainVars, TypeInv, TypeOK
        <3>2. CASE ServerGet \/ ServerPutResponse \/ ServerUnlock
            BY <3>2 DEF ServerGet, ServerPutResponse, PutResponse, ServerUnlock,
                        mainVars, TypeInv, TypeOK
        <3> QED
            BY <1>2, <3>1, <3>2 DEF Server
    <2>2. \A v \in Users : rspPc'[v] # rspPc[v] =>
             rspPc[v] = "waiting" /\ rspPc'[v] = "woken"
        BY <2>1, SignalWakes
    <2>3. /\ InQueue(a)' = InQueue(a) \ {<<"server", "putting">>}
          /\ InLine(a)' = InLine(a)
        BY <2>1, <2>2, ServerMoves
    <2> QED
        BY <1>1, <2>3 DEF Deserted
<1>3. ASSUME NEW u \in Users, QuietClient(u) PROVE Deserted(a)'
    <2>1. addr[u] # a /\ \A v \in Users : v # u => clientPc'[v] = clientPc[v]
        BY <1>1, <1>3, QuietClientMoves DEF OwnerInv, Owner
    <2>2. /\ UNCHANGED <<addr, serverPc, cmd>> /\ rspPc = [v \in Users |-> rspPc[v]]
          /\ rspPc' = rspPc \/ \E b : rspPc' \in Signal(b)
        BY <1>3 DEF QuietClient, ClientHeader, ClientLockQueue, ClientGreet, PutResponse,
                    ClientKey, ClientPutCommand, ClientRedraw, mainVars, serverVars,
                    TypeInv, TypeOK
    <2>3. \A v \in Users : rspPc'[v] # rspPc[v] =>
             rspPc[v] = "waiting" /\ rspPc'[v] = "woken"
        BY <2>2, SignalWakes
    <2>4. /\ InQueue(a)' = InQueue(a) \ {<<"client", u>>}
          /\ InLine(a)' = InLine(a) \ {<<"client", u>>}
        BY <2>1, <2>2, <2>3, ClientMoves
    <2> QED
        BY <1>1, <2>4 DEF Deserted
<1>4. ASSUME NEW u \in Users, Rsp(u) PROVE Deserted(a)'
    <2>1. /\ addr[u] # a /\ UNCHANGED <<addr, serverPc, cmd, clientPc>>
          /\ \A v \in Users : v # u => rspPc'[v] = rspPc[v]
        BY <1>1, <1>4 DEF Rsp, RspLock, RspRelock, RspLockLine, RspWrite, RspUnlock,
                          mainVars, serverVars, TypeInv, TypeOK
    <2>2. /\ InQueue(a)' = InQueue(a) \ {<<"rsp", u>>}
          /\ InLine(a)' = InLine(a) \ {<<"rsp", u>>}
        BY <2>1, RspMoves
    <2> QED
        BY <1>1, <2>2 DEF Deserted
<1> QED
    BY <1>2, <1>3, <1>4

\* Main starts no thread inside, and gives no memory back.
LEMMA DesertedMain ==
    ASSUME TypeInv, Main, \A a \in Addresses \ live : Deserted(a)
    PROVE  \A a \in Addresses \ live' : Deserted(a)'
<1>1. /\ UNCHANGED <<live, addr, clientPc, serverPc, cmd>>
      /\ setting \in Users /\ rspPc = [v \in Users |-> rspPc[v]]
    BY DEF Main, Initialise, MakeRecursive, StartRsp, RspStatus, memVars, serverVars,
           TypeInv, TypeOK, PlaceInv
<1>2. \A v \in Users : rspPc'[v] # rspPc[v] =>
         {rspPc[v], rspPc'[v]} \intersect {"lockLine", "drain"} = {}
    <2>1. CASE StartRsp
        BY <1>1, <2>1 DEF StartRsp, TypeInv, PlaceInv
    <2>2. CASE Initialise \/ MakeRecursive \/ RspStatus
        BY <2>2 DEF Initialise, MakeRecursive, RspStatus
    <2> QED
        BY <2>1, <2>2 DEF Main
<1> QED
    BY <1>1, <1>2, InsideSame DEF Deserted

LEMMA MutexNext == TypeInv /\ OwnerInv /\ MutexInv /\ [Next]_vars => MutexInv'
<1> DEFINE Goal == /\ \A a \in live' : Kept(a)'
                   /\ \A a \in Addresses \ live' : Deserted(a)'
<1> SUFFICES ASSUME TypeInv, OwnerInv, MutexInv, [Next]_vars,
                    causes' \intersect {"early", "inside"} = {}
             PROVE  Goal
    BY DEF MutexInv
<1>1. /\ causes \intersect {"early", "inside"} = {}
      /\ "early" \notin causes' /\ "inside" \notin causes'
    BY CausesGrow
<1>2. (\A a \in live : Kept(a)) /\ (\A a \in Addresses \ live : Deserted(a))
    BY <1>1 DEF MutexInv
<1>3. ASSUME NEW u \in Users, QuietClient(u) PROVE Goal
    <2>1. Still
        BY <1>3, QuietClientMoves DEF Still
    <2> QED
        BY <1>1, <1>2, <1>3, <2>1, KeptClient, DesertedStep
<1>4. ASSUME NEW u \in Users, Rsp(u) PROVE Goal
    <2>1. Still
        BY <1>4 DEF Still, Rsp, RspLock, RspRelock, RspLockLine, RspWrite, RspUnlock,
                    mainVars
    <2> QED
        BY <1>1, <1>2, <1>4, <2>1, KeptRsp, DesertedStep
<1>5. CASE Server
    <2>1. Still
        BY <1>5 DEF Still, Server, ServerGet, ServerLockQueue, ServerPutResponse,
                    ServerUnlock, memVars, mainVars
    <2> QED
        BY <1>1, <1>2, <1>5, <2>1, KeptServer, DesertedStep
<1>6. CASE Main
    BY <1>2, <1>6, KeptMain, DesertedMain
<1>7. ASSUME NEW u \in Users, Accept(u) PROVE Goal
    BY <1>2, <1>7, KeptAccept
<1>8. ASSUME NEW u \in Users,
             Type(u) \/ HangUp(u) \/ RspSpuriousWake(u) \/ ClientClose(u)
      PROVE  Goal
    <2>1. live' = live
        BY <1>8 DEF Type, HangUp, RspSpuriousWake, ClientClose, memVars
    <2> QED
        BY <1>2, <1>8, <2>1, KeptOthers DEF Deserted
\* A connection is freed with nobody inside.
<1>9. ASSUME NEW u \in Users, ClientFree(u) PROVE Goal
    <2>1. live' = live \ {addr[u]} /\ Deserted(addr[u])
        BY <1>1, <1>9 DEF ClientFree, Inside, Deserted
    <2>2. \A a : Deserted(a)' <=> Deserted(a)
        BY <1>9, KeptOthers DEF Deserted
    <2>3. \A a \in live' : Kept(a)'
        BY <1>2, <1>9, <2>1, KeptOthers
    <2> QED
        BY <1>2, <2>1, <2>2, <2>3
<1>10. CASE UNCHANGED vars
    <2>1. UNCHANGED <<live, addr, mainPc, setting, clientPc, rspPc, serverPc, cmd,
                      rspMutex, lineMutex>>
        BY <1>10 DEF vars, memVars, mainVars, serverVars
    <2>2. \A a : InQueue(a)' = InQueue(a) /\ InLine(a)' = InLine(a)
        BY <2>1, InsideSame
    <2> QED
        BY <1>2, <2>1, <2>2, KeptStill DEF Still, Deserted
<1> HIDE DEF Goal
<1>11. CASE Next
    BY <1>3, <1>4, <1>5, <1>6, <1>7, <1>8, <1>9, <1>11
       DEF Next, Environment, Client, QuietClient
<1> QED
    BY <1>10, <1>11

LEMMA MutexInit == Init => MutexInv
BY DEF Init, MutexInv, Deserted, InQueue, InLine

\* A mutex is held if and only if one thread is inside, and never two are in one
\* response queue or in one line, whoever left and whatever stale threads and
\* commands reach a connection: unless a mutex was used before it was initialised
\* for good, or a connection was freed with a thread inside (Connection.c:60-74;
\* hello.c:877-904).
THEOREM MutualExclusion == Spec => []OneInside
<1>1. MutexInv => OneInside
    <2> SUFFICES ASSUME MutexInv, causes \intersect {"early", "inside"} = {},
                        NEW a \in live
                 PROVE  /\ rspMutex[a] = "held" <=> InQueue(a) # {}
                        /\ lineMutex[a] = "held" <=> InLine(a) # {}
                        /\ Cardinality(InQueue(a)) <= 1 /\ Cardinality(InLine(a)) <= 1
        BY DEF OneInside
    <2>1. Guards(rspMutex[a], InQueue(a)) /\ Guards(lineMutex[a], InLine(a))
        BY DEF MutexInv, Kept
    <2> QED
        BY <2>1, AtMostOne DEF Guards
<1> QED
    BY <1>1, TypeInit, TypeNext, OwnerInit, OwnerNext, MutexInit, MutexNext, PTL DEF Spec
=============================================================================
