--------------------------- MODULE InputProcessor ---------------------------
(***************************************************************************)
(* What a connection makes of the bytes its Telnet client sends:           *)
(* process_input takes them one at a time, however they were cut into      *)
(* reads, and tells text, Telnet commands and VT100 sequences apart;       *)
(* processTelnetCommand keeps the window's size and negotiates the         *)
(* terminal's type; processVT100Command says which key a sequence is.      *)
(*                                                                         *)
(* The client is external: it sends whole keys, window sizes and answers,  *)
(* and the bytes of several can be on their way.  What a key then does to  *)
(* the line is LineEditor's.                                               *)
(***************************************************************************)
EXTENDS Integers, Sequences, SequencesExt

CONSTANTS
    Keys,        \* what a user presses: its bytes, and the keys it should be
    Sizes,       \* the window sizes <<width, height>> a client reports
    TypeLists,   \* the lists of terminal types that clients offer
    Longest,     \* the bytes of a client's longest Telnet command before its last
    MaxWire      \* bound: bytes on their way when the client sends more

\* Bytes of enum ETelnetCommands and ETelnetOptions, and of VT100 sequences.
IS == 0
TERMINAL_TYPE == 24
NAWS == 31
SE == 240
SB == 250
WILL == 251
WONT == 252
DO == 253
DONT == 254
IAC == 255
BS == 127
DEL == 8
ESC == 27
BRACKET == 91
TILDE == 126

IAC_WILL_TERMINAL_TYPE  == <<IAC, WILL, TERMINAL_TYPE>>
IAC_SB_TERMINAL_TYPE_IS == <<IAC, SB, TERMINAL_TYPE, IS>>
IAC_SB_NAWS             == <<IAC, SB, NAWS>>

Vt100Name == <<86, 84, 49, 48, 48>>

\* The sequences processVT100Command knows, and their keys.
Vt100Commands ==
    {<<<<ESC, BRACKET, 68>>, "left">>,   <<<<ESC, BRACKET, 65>>, "up">>,
     <<<<ESC, BRACKET, 67>>, "right">>,  <<<<ESC, BRACKET, 66>>, "down">>,
     <<<<ESC, BRACKET, 72>>, "home">>,   <<<<ESC, BRACKET, 49, TILDE>>, "home">>,
     <<<<ESC, BRACKET, 70>>, "end">>,    <<<<ESC, BRACKET, 52, TILDE>>, "end">>,
     <<<<ESC, BRACKET, 51, TILDE>>, "delete">>}

\* What a terminal sends for a key: a character, a control, or a sequence that
\* processVT100Command knows, with parameters that process_input drops.
Continues == (65..68) \union {70, 72, 49, 51, 52}

Character(key) ==
    \E b \in 32..126 : key.bytes = <<b>> /\ key.keys = << <<"char", b>> >>
Control(key) ==
    \/ key.bytes = <<BS>> /\ key.keys = << <<"backspace", 0>> >>
    \/ key.bytes = <<DEL>> /\ key.keys = << <<"delete", 0>> >>

\* ESC [, bytes that nothing goes on with, and then what follows them.
Parameters(bytes, rest) ==
    LET n == Len(bytes) - Len(rest)
    IN  /\ n >= 2 /\ bytes[1] = ESC /\ bytes[2] = BRACKET
        /\ \A k \in 3..n : bytes[k] \notin Continues
        /\ SubSeq(bytes, n + 1, Len(bytes)) = rest
Sequence(key) ==
    \E known \in Vt100Commands :
       /\ key.keys = << <<known[2], 0>> >>
       /\ Parameters(key.bytes, SubSeq(known[1], 3, Len(known[1])))

\* What else is sent, and means nothing here: other control characters, Alt with
\* a character, editing keys with a modifier, and Telnet commands about other
\* options, or broken off.
Skipped(bytes) == \A k \in DOMAIN bytes : bytes[k] \notin (32..126) \union {BS, DEL, IAC, ESC}
OtherSequence(bytes) ==
    \/ Len(bytes) = 2 /\ bytes[1] = ESC /\ bytes[2] # BRACKET
    \/ \E d \in {49, 51, 52}, last \in (0..255) \ {TILDE} : Parameters(bytes, <<d, last>>)
OtherTelnet(bytes) ==
    LET n == Len(bytes)
    IN  /\ n > 1 /\ bytes[1] = IAC
        /\ \/ n = 2 /\ bytes[2] \notin {WILL, WONT, DO, DONT, SB}
           \/ n = 3 /\ bytes[2] \in {WILL, WONT, DO, DONT} /\ bytes # IAC_WILL_TERMINAL_TYPE
           \/ /\ n \in 4..Longest + 1 /\ bytes[2] = SB
              /\ \A k \in 3..n - 2 : bytes[k] # IAC
              /\ bytes[n - 1] = IAC /\ bytes[n] # IAC
              /\ bytes[n] # SE \/ bytes[3] \notin {NAWS, TERMINAL_TYPE}
Ignored(key) ==
    /\ key.keys = <<>>
    /\ Skipped(key.bytes) \/ OtherSequence(key.bytes) \/ OtherTelnet(key.bytes)

\* The two bytes of a window's width or height.
Word == 0..(256 * 256 - 1)

\* telnetCommand has 30 bytes, and the code does not look how many it collects
\* (hello.c:599): that the commands of a client are no longer is asked of clients.
\* A window size has 8 bytes before its last.
ASSUME LongestAssumption == Longest \in Nat /\ Longest >= 8

\* The name of a terminal type is not empty, and strcspn stops at a byte 0.
ASSUME InputAssumption ==
    /\ \A key \in Keys :
          /\ key.bytes \in Seq(0..255)
          /\ Character(key) \/ Control(key) \/ Sequence(key) \/ Ignored(key)
    /\ Sizes \subseteq Word \X Word
    /\ \A list \in TypeLists :
          /\ list # <<>>
          /\ list \in Seq(Seq(1..254))
          /\ \A k \in DOMAIN list : Len(list[k]) \in 1..(Longest - 5)
    /\ MaxWire \in Nat

VARIABLES
    wire,                                \* bytes sent and not read
    processingMode,                      \* "TEXT", "TELNET" or "VT100"
    telnetState, telnetCommand,          \* state and bytes of a Telnet command
    vt100State, vt100Command,            \* state and bytes of a VT100 sequence
    window,                              \* <<win_w, win_h>>
    askForTerminalType, lastTerminalRead,
    requests,                            \* TERMINAL-TYPE SENDs unanswered
    agreed, types, typeAt,               \* the client: said WILL, its list, the
                                         \* place in it of its next answer
    size,                                \* the client's window
    unheard, misheard                    \* keys pressed and not handled yet, and
                                         \* whether another one was handled

telnetVars == <<telnetState, telnetCommand>>
vt100Vars  == <<vt100State, vt100Command>>
typeVars   == <<askForTerminalType, lastTerminalRead, requests>>
keyVars    == <<unheard, misheard>>
clientVars == <<agreed, types, typeAt, size>>
conVars    == <<processingMode, telnetVars, vt100Vars, window>>
vars == <<wire, conVars, typeVars, clientVars, keyVars>>

Init ==
    /\ wire = <<>>
    /\ processingMode = "TEXT"
    /\ telnetState = "NONE" /\ telnetCommand = <<>>
    /\ vt100State = "NONE" /\ vt100Command = <<>>
    /\ window = <<0, 0>>
    /\ askForTerminalType = TRUE /\ lastTerminalRead = <<>>
    /\ requests = 0
    /\ agreed = FALSE /\ types \in TypeLists /\ typeAt = 1
    /\ size = <<0, 0>>
    /\ unheard = <<>> /\ misheard = FALSE

-----------------------------------------------------------------------------
(* The client.                                                             *)

\* A data byte inside a subnegotiation: 255 is sent twice.
Escaped(b) == IF b = IAC THEN <<IAC, IAC>> ELSE <<b>>

ClientKey(key) ==
    /\ Len(wire) <= MaxWire
    /\ wire' = wire \o key.bytes
    /\ unheard' = unheard \o key.keys
    /\ UNCHANGED <<conVars, typeVars, clientVars, misheard>>

ClientResize(s) ==
    /\ Len(wire) <= MaxWire
    /\ wire' = wire \o IAC_SB_NAWS
                    \o Escaped(s[1] \div 256) \o Escaped(s[1] % 256)
                    \o Escaped(s[2] \div 256) \o Escaped(s[2] % 256)
                    \o <<IAC, SE>>
    /\ size' = s
    /\ UNCHANGED <<conVars, typeVars, agreed, types, typeAt, keyVars>>

\* The client agrees to the DO TERMINAL-TYPE of telnet_header.
ClientAgrees ==
    /\ ~agreed /\ Len(wire) <= MaxWire
    /\ agreed' = TRUE
    /\ wire' = wire \o IAC_WILL_TERMINAL_TYPE
    /\ UNCHANGED <<conVars, typeVars, types, typeAt, size, keyVars>>

\* It answers with one type after the other; to say that a type was the last it
\* says it a second time, and then starts again (RFC 1091).
ClientAnswers ==
    /\ requests > 0
    /\ requests' = requests - 1
    /\ LET last == Len(types)
           said == IF typeAt > last THEN last ELSE typeAt
       IN  /\ wire' = wire \o IAC_SB_TERMINAL_TYPE_IS \o types[said] \o <<IAC, SE>>
           /\ typeAt' = IF typeAt > last THEN 1 ELSE typeAt + 1
    /\ UNCHANGED <<conVars, askForTerminalType, lastTerminalRead, agreed, types,
                   size, keyVars>>

Client ==
    \/ \E key \in Keys : ClientKey(key)
    \/ \E s \in Sizes : ClientResize(s)
    \/ ClientAgrees
    \/ ClientAnswers

-----------------------------------------------------------------------------
(* processTelnetCommand.  The buffer is not cleared between commands, but   *)
(* no comparison here is decided by a byte behind those of the command.    *)

AskForTerminalType(ask) ==
    requests' = IF ask THEN requests + 1 ELSE requests

StartNegotiation ==
    /\ AskForTerminalType(askForTerminalType)
    /\ UNCHANGED <<askForTerminalType, lastTerminalRead, window>>

\* Mutant of KeepWindow: the bytes are not cast to unsigned char.
KeepWindowSigned(cmd) ==
    LET signed(b) == IF b > 127 THEN b - 256 ELSE b
    IN  /\ window' = <<signed(cmd[4]) * 256 + signed(cmd[5]),
                       signed(cmd[6]) * 256 + signed(cmd[7])>>
        /\ UNCHANGED typeVars

KeepWindow(cmd) ==
    /\ window' = <<cmd[4] * 256 + cmd[5], cmd[6] * 256 + cmd[7]>>
    /\ UNCHANGED typeVars

\* strcspn: where the name ends, at its IAC or at a byte 0.
NameEnd(cmd) ==
    CHOOSE k \in 5..Len(cmd) :
       cmd[k] \in {IAC, 0} /\ \A j \in 5..(k - 1) : cmd[j] \notin {IAC, 0}

\* Mutant of TerminalName: the name is compared as the client spells it.
TerminalNameAsSpelt(cmd) == SubSeq(cmd, 5, NameEnd(cmd) - 1)

\* The name in upper case.
TerminalName(cmd) ==
    [k \in 1..(NameEnd(cmd) - 5) |->
       IF cmd[k + 4] \in 97..122 THEN cmd[k + 4] - 32 ELSE cmd[k + 4]]

\* Mutant of KeepTerminalType: the last type is kept only if it was wanted.
KeepWantedType(name) ==
    \/ /\ IsPrefix(Vt100Name, name)
       /\ lastTerminalRead' = name
       /\ UNCHANGED <<askForTerminalType, requests>>
    \/ /\ ~IsPrefix(Vt100Name, name)
       /\ askForTerminalType' = (askForTerminalType /\ ~IsPrefix(name, lastTerminalRead))
       /\ AskForTerminalType(askForTerminalType')
       /\ UNCHANGED lastTerminalRead

\* compareString finds a type to be the one before if it is the beginning of it.
KeepTerminalType(name) ==
    /\ \/ /\ IsPrefix(Vt100Name, name)
          /\ UNCHANGED <<askForTerminalType, requests>>
       \/ /\ ~IsPrefix(Vt100Name, name)
          /\ askForTerminalType' = (askForTerminalType /\ ~IsPrefix(name, lastTerminalRead))
          /\ AskForTerminalType(askForTerminalType')
    /\ lastTerminalRead' = name

ProcessTelnetCommand(cmd) ==
    \/ IsPrefix(IAC_WILL_TERMINAL_TYPE, cmd) /\ StartNegotiation
    \/ IsPrefix(IAC_SB_NAWS, cmd) /\ KeepWindow(cmd)
    \/ /\ IsPrefix(IAC_SB_TERMINAL_TYPE_IS, cmd)
       /\ KeepTerminalType(TerminalName(cmd))
       /\ UNCHANGED window
    \/ /\ \A known \in {IAC_WILL_TERMINAL_TYPE, IAC_SB_NAWS, IAC_SB_TERMINAL_TYPE_IS} :
             ~IsPrefix(known, cmd)
       /\ UNCHANGED <<typeVars, window>>

-----------------------------------------------------------------------------
(* The keys that process_input hands to the line editor.                   *)

Hear(key) ==
    /\ misheard' = (misheard \/ unheard = <<>> \/ Head(unheard) # key)
    /\ unheard' = IF unheard = <<>> THEN unheard ELSE Tail(unheard)

\* Every sequence process_input completes is one of these.
ProcessVT100Command(cmd) ==
    \E known \in Vt100Commands : IsPrefix(known[1], cmd) /\ Hear(<<known[2], 0>>)

-----------------------------------------------------------------------------
(* process_input, for the byte c.                                          *)

Text(c) ==
    /\ processingMode = "TEXT"
    /\ \/ /\ c \in 32..126
          /\ Hear(<<"char", c>>)
          /\ UNCHANGED <<processingMode, telnetVars, vt100Vars>>
       \/ /\ c \in {BS, DEL}
          /\ Hear(<<IF c = BS THEN "backspace" ELSE "delete", 0>>)
          /\ UNCHANGED <<processingMode, telnetVars, vt100Vars>>
       \/ /\ c = IAC
          /\ processingMode' = "TELNET" /\ telnetState' = "START"
          /\ telnetCommand' = Append(telnetCommand, c)
          /\ UNCHANGED <<vt100Vars, keyVars>>
       \/ /\ c = ESC
          /\ processingMode' = "VT100" /\ vt100State' = "ESC"
          /\ vt100Command' = Append(vt100Command, c)
          /\ UNCHANGED <<telnetVars, keyVars>>
       \/ \* line ends and other bytes are skipped
          /\ c \notin (32..126) \union {BS, DEL, IAC, ESC}
          /\ UNCHANGED <<processingMode, telnetVars, vt100Vars, keyVars>>
    /\ UNCHANGED <<typeVars, window>>

\* EXIT_TELNET_PROCESSING
ExitTelnet ==
    /\ processingMode' = "TEXT"
    /\ telnetState' = "NONE" /\ telnetCommand' = <<>>

TelnetStart(c) ==
    /\ telnetState = "START"
    /\ \/ /\ c \in {WILL, WONT, DO, DONT, SB}
          /\ telnetState' = IF c = SB THEN "SUBCOMMAND" ELSE "COMMAND"
          /\ telnetCommand' = Append(telnetCommand, c)
          /\ UNCHANGED processingMode
       \/ /\ c \notin {WILL, WONT, DO, DONT, SB}
          /\ ExitTelnet
    /\ UNCHANGED <<typeVars, window>>

TelnetCommand(c) ==
    /\ telnetState = "COMMAND"
    /\ ProcessTelnetCommand(Append(telnetCommand, c))
    /\ ExitTelnet

TelnetSubcommand(c) ==
    /\ telnetState = "SUBCOMMAND"
    /\ telnetState' = IF c = IAC THEN "MAYBE_END" ELSE telnetState
    /\ telnetCommand' = Append(telnetCommand, c)
    /\ UNCHANGED <<processingMode, typeVars, window>>

\* Mutant of RepeatedIac: both bytes of a repeated 255 are kept.
RepeatedIacKept(c) ==
    /\ c = IAC
    /\ telnetState' = "SUBCOMMAND" /\ telnetCommand' = Append(telnetCommand, c)
    /\ UNCHANGED <<processingMode, typeVars, window>>

RepeatedIac(c) ==
    /\ c = IAC
    /\ telnetState' = "SUBCOMMAND"
    /\ UNCHANGED <<processingMode, telnetCommand, typeVars, window>>

TelnetMaybeEnd(c) ==
    /\ telnetState = "MAYBE_END"
    /\ \/ RepeatedIac(c)
       \/ /\ c = SE
          /\ ProcessTelnetCommand(Append(telnetCommand, c))
          /\ ExitTelnet
       \/ /\ c \notin {IAC, SE}
          /\ ExitTelnet
          /\ UNCHANGED <<typeVars, window>>

Telnet(c) ==
    /\ processingMode = "TELNET"
    /\ \/ TelnetStart(c)
       \/ TelnetCommand(c)
       \/ TelnetSubcommand(c)
       \/ TelnetMaybeEnd(c)
    /\ UNCHANGED <<vt100Vars, keyVars>>

\* Mutant of ExitVT100: the sequence's bytes stay in the buffer.
ExitVT100Uncleared(cmd) ==
    /\ processingMode' = "TEXT"
    /\ vt100State' = "NONE" /\ vt100Command' = cmd

\* EXIT_VT100_PROCESSING, with cmd in the buffer.
ExitVT100(cmd) ==
    /\ processingMode' = "TEXT"
    /\ vt100State' = "NONE" /\ vt100Command' = <<>>

Vt100Esc(c) ==
    /\ vt100State = "ESC"
    /\ \/ /\ c = BRACKET
          /\ vt100State' = "ESC_BRAC" /\ vt100Command' = Append(vt100Command, c)
          /\ UNCHANGED processingMode
       \/ c # BRACKET /\ ExitVT100(Append(vt100Command, c))
    /\ UNCHANGED keyVars

\* A byte that no known sequence goes on with is dropped, and the next is
\* looked at in the same state.
Vt100Bracket(c) ==
    /\ vt100State = "ESC_BRAC"
    /\ \/ /\ c \in (65..68) \union {70, 72}
          /\ ProcessVT100Command(Append(vt100Command, c))
          /\ ExitVT100(Append(vt100Command, c))
       \/ /\ c \in {49, 51, 52}
          /\ vt100State' = CASE c = 51 -> "DEL" [] c = 49 -> "HOME" [] c = 52 -> "END"
          /\ vt100Command' = Append(vt100Command, c)
          /\ UNCHANGED <<processingMode, keyVars>>
       \/ /\ c \notin (65..68) \union {70, 72, 49, 51, 52}
          /\ UNCHANGED <<processingMode, vt100Vars, keyVars>>

Vt100Tilde(c) ==
    /\ vt100State \in {"DEL", "HOME", "END"}
    /\ \/ c = TILDE /\ ProcessVT100Command(Append(vt100Command, c))
       \/ c # TILDE /\ UNCHANGED keyVars
    /\ ExitVT100(Append(vt100Command, c))

Vt100(c) ==
    /\ processingMode = "VT100"
    /\ \/ Vt100Esc(c)
       \/ Vt100Bracket(c)
       \/ Vt100Tilde(c)
    /\ UNCHANGED <<telnetVars, typeVars, window>>

ProcessInput ==
    /\ wire # <<>>
    /\ wire' = Tail(wire)
    /\ \/ Text(Head(wire))
       \/ Telnet(Head(wire))
       \/ Vt100(Head(wire))
    /\ UNCHANGED clientVars

Next == Client \/ ProcessInput

Spec == Init /\ [][Next]_vars

\* The client's thread runs, and a client that has agreed answers.
FairSpec == Spec /\ WF_vars(ProcessInput) /\ WF_vars(ClientAnswers)

-----------------------------------------------------------------------------
(* Properties.                                                             *)

\* Types; and the bytes of a sequence are collected anew each time: telnetCommand
\* never holds more than one command, whatever was sent before it and left there,
\* and vt100Command three of its ten bytes, whatever parameters a key comes with.
TypeOK ==
    /\ wire \in Seq(0..255)
    /\ processingMode \in {"TEXT", "TELNET", "VT100"}
    /\ telnetState \in {"NONE", "START", "COMMAND", "SUBCOMMAND", "MAYBE_END"}
    /\ vt100State \in {"NONE", "ESC", "ESC_BRAC", "DEL", "HOME", "END"}
    /\ telnetCommand \in Seq(0..255) /\ Len(telnetCommand) <= Longest
    /\ vt100Command \in Seq(0..255) /\ Len(vt100Command) <= 3
    /\ window \in Word \X Word
    /\ askForTerminalType \in BOOLEAN /\ lastTerminalRead \in Seq(0..255)
    /\ requests \in Nat
    /\ agreed \in BOOLEAN /\ types \in TypeLists /\ typeAt \in 1..(Len(types) + 1)
    /\ size \in Word \X Word
    /\ misheard \in BOOLEAN

\* The keys that process_input handles are those the user pressed, in the order
\* of pressing and each once, whatever Telnet commands come between them; when
\* all bytes are read nothing is left half understood.
KeysUnderstood ==
    /\ ~misheard
    /\ wire = <<>> => processingMode = "TEXT" /\ unheard = <<>>

\* When all bytes are read, win_w and win_h are the client's window, also where
\* a byte of its size is 255 or a Telnet command.
WindowKnown == wire = <<>> => window = size

NegotiationOver == agreed /\ requests = 0 /\ wire = <<>>

UpperCase(name) == [k \in DOMAIN name |-> IF name[k] \in 97..122 THEN name[k] - 32 ELSE name[k]]

Offered(list, k) == UpperCase(list[k])
IsVt100(k) == IsPrefix(Vt100Name, Offered(types, k))

\* When the server has stopped asking (processTelnetCommand), the type it holds is
\* the first VT100 the client offers, or else the last type it offers, whatever
\* else is typed and reported meanwhile: for clients that offer no type that is the
\* beginning of the one before it.
WantedFound ==
    /\ NegotiationOver
    /\ \A k \in 2..Len(types) : ~IsPrefix(Offered(types, k), Offered(types, k - 1))
    => \E k \in DOMAIN types :
          /\ lastTerminalRead = Offered(types, k)
          /\ \A j \in 1..(k - 1) : ~IsVt100(j)
          /\ IsVt100(k) \/ k = Len(types)

\* The server does not ask for terminal types for ever.
NegotiationEnds == <>[](requests = 0)
=============================================================================
