------------------------ MODULE InputProcessorProofs ------------------------
(***************************************************************************)
(* Proofs about InputProcessor for any keys, window sizes and terminal     *)
(* types: however what the client sends follows each other and is cut into *)
(* reads, each byte is taken for what it was sent as.                      *)
(***************************************************************************)
EXTENDS InputProcessor, SequenceTheorems, TLAPS

-----------------------------------------------------------------------------
(* process_input as a machine: its state is where it is in a sequence, and *)
(* the bytes of that sequence so far.                                      *)

USE LongestAssumption

Byte == 0..255
State(at, bytes) == [at |-> at, bytes |-> bytes]
InText == State("TEXT", <<>>)

Telnets == {"START", "COMMAND", "SUBCOMMAND", "MAYBE_END"}
Vt100s  == {"ESC", "ESC_BRAC", "DEL", "HOME", "END"}
Digit(at) == CASE at = "DEL" -> 51 [] at = "HOME" -> 49 [] at = "END" -> 52
Options == {WILL, WONT, DO, DONT}
Finals == (65..68) \union {70, 72}

States ==
    [at : {"TEXT"} \union Telnets \union Vt100s, bytes : Seq(Byte)]

\* What a state says of the bytes collected in it.
Collected(s) ==
    /\ s.at = "TEXT" => s.bytes = <<>>
    /\ s.at = "START" => s.bytes = <<IAC>>
    /\ s.at = "COMMAND" => \E c \in Options : s.bytes = <<IAC, c>>
    /\ s.at \in {"SUBCOMMAND", "MAYBE_END"} => Len(s.bytes) \in 2..Longest
    /\ s.at = "ESC" => s.bytes = <<ESC>>
    /\ s.at = "ESC_BRAC" => s.bytes = <<ESC, BRACKET>>
    /\ s.at \in {"DEL", "HOME", "END"} => s.bytes = <<ESC, BRACKET, Digit(s.at)>>

\* The variables of the machine are as s says.
Now(s) ==
    /\ processingMode = IF s.at = "TEXT" THEN "TEXT"
                        ELSE IF s.at \in Telnets THEN "TELNET" ELSE "VT100"
    /\ telnetState = IF s.at \in Telnets THEN s.at ELSE "NONE"
    /\ telnetCommand = IF s.at \in Telnets THEN s.bytes ELSE <<>>
    /\ vt100State = IF s.at \in Vt100s THEN s.at ELSE "NONE"
    /\ vt100Command = IF s.at \in Vt100s THEN s.bytes ELSE <<>>

\* The state after the byte c.
After(s, c) ==
    CASE s.at = "TEXT" ->
            IF c = IAC THEN State("START", <<IAC>>)
            ELSE IF c = ESC THEN State("ESC", <<ESC>>) ELSE InText
      [] s.at = "START" ->
            IF c = SB THEN State("SUBCOMMAND", <<IAC, SB>>)
            ELSE IF c \in Options THEN State("COMMAND", <<IAC, c>>) ELSE InText
      [] s.at = "COMMAND" -> InText
      [] s.at = "SUBCOMMAND" ->
            State(IF c = IAC THEN "MAYBE_END" ELSE "SUBCOMMAND", Append(s.bytes, c))
      [] s.at = "MAYBE_END" ->
            IF c = IAC THEN State("SUBCOMMAND", s.bytes) ELSE InText
      [] s.at = "ESC" ->
            IF c = BRACKET THEN State("ESC_BRAC", <<ESC, BRACKET>>) ELSE InText
      [] s.at = "ESC_BRAC" ->
            IF c \in Finals THEN InText
            ELSE IF c = 51 THEN State("DEL", <<ESC, BRACKET, 51>>)
            ELSE IF c = 49 THEN State("HOME", <<ESC, BRACKET, 49>>)
            ELSE IF c = 52 THEN State("END", <<ESC, BRACKET, 52>>)
            ELSE s
      [] s.at \in {"DEL", "HOME", "END"} -> InText

\* A step of the machine is a state and the byte read in it.
Steps == {x \in [from : States, byte : Byte] : Collected(x.from)}
Step(s, c) == [from |-> s, byte |-> c]
To(x) == After(x.from, x.byte)
Whole(x) == Append(x.from.bytes, x.byte)

\* The keys a step hands to the editor, and the Telnet commands it completes.
Hears(x, key) ==
    \/ x.from.at = "TEXT" /\ x.byte \in 32..126 /\ key = <<"char", x.byte>>
    \/ x.from.at = "TEXT" /\ x.byte = BS /\ key = <<"backspace", 0>>
    \/ x.from.at = "TEXT" /\ x.byte = DEL /\ key = <<"delete", 0>>
    \/ /\ x.from.at \in {"ESC_BRAC", "DEL", "HOME", "END"}
       /\ \E known \in Vt100Commands : Whole(x) = known[1] /\ key = <<known[2], 0>>
Completes(x) ==
    x.from.at = "COMMAND" \/ (x.from.at = "MAYBE_END" /\ x.byte = SE)
IsSize(x) == Completes(x) /\ IsPrefix(IAC_SB_NAWS, Whole(x))
IsWill(x) == Completes(x) /\ IsPrefix(IAC_WILL_TERMINAL_TYPE, Whole(x))
IsType(x) == Completes(x) /\ IsPrefix(IAC_SB_TERMINAL_TYPE_IS, Whole(x))

-----------------------------------------------------------------------------
(* process_input does what the machine does.                               *)

LEMMA AfterTypes ==
    ASSUME NEW x \in Steps, Len(x.from.bytes) < Longest \/ x.from.at # "SUBCOMMAND"
    PROVE  To(x) \in States /\ Collected(To(x))
<1> DEFINE s == x.from
           c == x.byte
<1>1. s \in States /\ c \in Byte /\ Collected(s) /\ s.bytes \in Seq(Byte)
    BY DEF Steps, States
<1>2. \A b \in Byte : <<b>> \in Seq(Byte) /\ \A d \in Byte :
         <<b, d>> \in Seq(Byte) /\ \A e \in Byte : <<b, d, e>> \in Seq(Byte)
    OBVIOUS
<1>3. {IAC, SB, ESC, BRACKET, 49, 51, 52} \subseteq Byte /\ <<>> \in Seq(Byte)
    BY DEF Byte, IAC, SB, ESC, BRACKET
<1>4. Append(s.bytes, c) \in Seq(Byte) /\ Len(Append(s.bytes, c)) = Len(s.bytes) + 1
    BY <1>1
<1>5. To(x) = After(s, c)
    BY DEF To
<1> HIDE DEF s, c
<1> USE DEF States, State, Collected, Telnets, Vt100s, After, InText
<1>6. CASE s.at = "TEXT"
    BY <1>1, <1>3, <1>5, <1>6
<1>7. CASE s.at = "START"
    <2>1. Len(<<IAC, SB>>) = 2
        OBVIOUS
    <2> QED
        BY <1>1, <1>2, <1>3, <1>5, <1>7, <2>1
<1>8. CASE s.at = "COMMAND"
    BY <1>3, <1>5, <1>8
<1>9. CASE s.at = "SUBCOMMAND"
    <2>1. Len(s.bytes) \in Nat /\ Len(s.bytes) < Longest
        BY <1>9 DEF s
    <2>2. To(x) = State(IF c = IAC THEN "MAYBE_END" ELSE "SUBCOMMAND", Append(s.bytes, c))
        BY <1>5, <1>9
    <2>3. Len(s.bytes) \in 2..Longest
        BY <1>1, <1>9
    <2>4. PICK b, m : b = Append(s.bytes, c) /\ m = Len(s.bytes)
        OBVIOUS
    <2>5. b \in Seq(Byte) /\ Len(b) \in 2..Longest
        <3>1. b \in Seq(Byte) /\ Len(b) = m + 1
            BY <1>4, <2>4
        <3>2. m \in Nat /\ m < Longest /\ m \in 2..Longest
            BY <2>1, <2>3, <2>4
        <3> QED
            BY <3>1, <3>2
    <2>6. To(x) = State("MAYBE_END", b) \/ To(x) = State("SUBCOMMAND", b)
        BY <2>2, <2>4
    <2> QED
        BY <2>5, <2>6
<1>10. CASE s.at = "MAYBE_END"
    BY <1>1, <1>3, <1>5, <1>10
<1>11. CASE s.at = "ESC"
    BY <1>2, <1>3, <1>5, <1>11
<1>12. CASE s.at = "ESC_BRAC"
    <2>1. \A d \in {49, 51, 52} : <<ESC, BRACKET, d>> \in Seq(Byte)
        BY <1>2, <1>3
    <2> QED
        BY <1>1, <1>3, <1>5, <1>12, <2>1 DEF Digit
<1>13. CASE s.at \in {"DEL", "HOME", "END"}
    BY <1>3, <1>5, <1>13
<1> QED
    BY <1>1, <1>6, <1>7, <1>8, <1>9, <1>10, <1>11, <1>12, <1>13

LEMMA AppendToOne ==
    ASSUME NEW a, NEW b PROVE Append(<<a>>, b) = <<a, b>>
<1> DEFINE S == {a, b}
<1>1. <<a>> \in Seq(S) /\ <<a, b>> \in Seq(S) /\ Append(<<a>>, b) \in Seq(S)
    OBVIOUS
<1>2. Len(<<a>>) = 1 /\ Len(<<a, b>>) = 2 /\ Len(Append(<<a>>, b)) = 2
    OBVIOUS
<1>3. \A k \in 1..2 : Append(<<a>>, b)[k] = <<a, b>>[k]
    OBVIOUS
<1> QED
    BY <1>1, <1>2, <1>3, SeqEqual

LEMMA AppendToTwo ==
    ASSUME NEW a, NEW b, NEW c PROVE Append(<<a, b>>, c) = <<a, b, c>>
<1> DEFINE S == {a, b, c}
<1>1. <<a, b>> \in Seq(S) /\ <<a, b, c>> \in Seq(S) /\ Append(<<a, b>>, c) \in Seq(S)
    OBVIOUS
<1>2. Len(<<a, b>>) = 2 /\ Len(<<a, b, c>>) = 3 /\ Len(Append(<<a, b>>, c)) = 3
    OBVIOUS
<1>3. \A k \in 1..3 : Append(<<a, b>>, c)[k] = <<a, b, c>>[k]
    OBVIOUS
<1> QED
    BY <1>1, <1>2, <1>3, SeqEqual

LEMMA AppendToThree ==
    ASSUME NEW a, NEW b, NEW c, NEW d PROVE Append(<<a, b, c>>, d) = <<a, b, c, d>>
<1> DEFINE S == {a, b, c, d}
<1>1. /\ <<a, b, c>> \in Seq(S) /\ <<a, b, c, d>> \in Seq(S)
      /\ Append(<<a, b, c>>, d) \in Seq(S)
    OBVIOUS
<1>2. Len(<<a, b, c>>) = 3 /\ Len(<<a, b, c, d>>) = 4 /\ Len(Append(<<a, b, c>>, d)) = 4
    OBVIOUS
<1>3. \A k \in 1..4 : Append(<<a, b, c>>, d)[k] = <<a, b, c, d>>[k]
    OBVIOUS
<1> QED
    BY <1>1, <1>2, <1>3, SeqEqual

\* One sequence is one key's.
LEMMA OneName ==
    ASSUME NEW k \in Vt100Commands, NEW m \in Vt100Commands, k[1] = m[1]
    PROVE  k = m
BY DEF Vt100Commands, ESC, BRACKET, TILDE

\* What the variables of the machine, and no others, make of the byte c.
Reads(x) ==
    /\ Now(To(x))'
    /\ \A key : Hears(x, key) => Hear(key)
    /\ (\A key : ~Hears(x, key)) => UNCHANGED keyVars
    /\ Completes(x) => ProcessTelnetCommand(Whole(x))
    /\ ~Completes(x) => UNCHANGED <<typeVars, window>>

LEMMA NotHeard ==
    ASSUME NEW x \in Steps, x.from.at \in Telnets \union {"ESC"} PROVE \A key : ~Hears(x, key)
BY DEF Hears, Telnets

LEMMA ReadsText ==
    ASSUME NEW x \in Steps, x.from.at = "TEXT", Now(x.from), Text(x.byte)
    PROVE  Reads(x)
<1>1. PICK c : c = x.byte
    OBVIOUS
<1>2. /\ processingMode = "TEXT" /\ telnetState = "NONE" /\ telnetCommand = <<>>
      /\ vt100State = "NONE" /\ vt100Command = <<>>
    BY DEF Now, Telnets, Vt100s
<1>3. ~Completes(x) /\ UNCHANGED <<typeVars, window>>
    BY DEF Completes, Text
<1>4. To(x) = IF c = IAC THEN State("START", <<IAC>>)
              ELSE IF c = ESC THEN State("ESC", <<ESC>>) ELSE InText
    BY <1>1 DEF To, After
<1>5. \A key : Hears(x, key) <=> \/ c \in 32..126 /\ key = <<"char", c>>
                                 \/ c = BS /\ key = <<"backspace", 0>>
                                 \/ c = DEL /\ key = <<"delete", 0>>
    BY <1>1 DEF Hears
<1>6. Append(<<>>, c) = <<c>>
    OBVIOUS
<1>7. Text(c)
    BY <1>1
<1> USE DEF IAC, ESC, BS, DEL
<1>8. ASSUME c \in (32..126) \union {BS, DEL} PROVE Reads(x)
    <2>1. To(x) = InText
        BY <1>4, <1>8
    <2>2. UNCHANGED <<processingMode, telnetVars, vt100Vars>>
        BY <1>7, <1>8 DEF Text
    <2>3. Now(To(x))'
        BY <1>2, <2>1, <2>2 DEF Now, State, InText, Telnets, Vt100s, telnetVars, vt100Vars
    <2>4. ASSUME NEW key, Hears(x, key) PROVE Hear(key)
        <3>1. CASE c \in 32..126
            <4>1. key = <<"char", c>>
                BY <1>5, <2>4, <3>1
            <4>2. Hear(<<"char", c>>)
                BY <1>7, <3>1 DEF Text
            <4> QED
                BY <4>1, <4>2
        <3>2. CASE c \in {BS, DEL}
            <4>1. key = <<IF c = BS THEN "backspace" ELSE "delete", 0>>
                BY <1>5, <2>4, <3>2
            <4>2. Hear(<<IF c = BS THEN "backspace" ELSE "delete", 0>>)
                BY <1>7, <3>2 DEF Text
            <4> QED
                BY <4>1, <4>2
        <3> QED
            BY <1>8, <3>1, <3>2
    <2>5. \E key : Hears(x, key)
        BY <1>5, <1>8
    <2> QED
        BY <1>3, <2>3, <2>4, <2>5 DEF Reads
<1>9. CASE c = IAC
    BY <1>2, <1>3, <1>4, <1>5, <1>6, <1>7, <1>9
    DEF Text, Now, State, InText, Telnets, Vt100s, telnetVars, vt100Vars, Reads, Hear
<1>10. CASE c = ESC
    BY <1>2, <1>3, <1>4, <1>5, <1>6, <1>7, <1>10
    DEF Text, Now, State, InText, Telnets, Vt100s, telnetVars, vt100Vars, Reads, Hear
<1>11. CASE c \notin (32..126) \union {BS, DEL, IAC, ESC}
    BY <1>2, <1>3, <1>4, <1>5, <1>7, <1>11
    DEF Text, Now, State, InText, Telnets, Vt100s, telnetVars, vt100Vars, Reads, Hear
<1> QED
    BY <1>8, <1>9, <1>10, <1>11

LEMMA ReadsTelnet ==
    ASSUME NEW x \in Steps, x.from.at \in Telnets, Now(x.from), Telnet(x.byte)
    PROVE  Reads(x)
<1>0. PICK c, s : c = x.byte /\ s = x.from
    OBVIOUS
<1>1. /\ processingMode = "TELNET" /\ telnetState = s.at /\ telnetCommand = s.bytes
      /\ vt100State = "NONE" /\ vt100Command = <<>>
    BY <1>0 DEF Now, Telnets, Vt100s
<1>2. (\A key : ~Hears(x, key)) /\ UNCHANGED <<vt100Vars, keyVars>>
    BY NotHeard DEF Telnet
<1>3. To(x) = After(s, c) /\ Whole(x) = Append(telnetCommand, c)
    BY <1>0, <1>1 DEF To, Whole
<1>4. Completes(x) <=> s.at = "COMMAND" \/ (s.at = "MAYBE_END" /\ c = SE)
    BY <1>0 DEF Completes
<1>5. c \in Byte /\ (s.at = "START" => s.bytes = <<IAC>>)
    BY <1>0 DEF Steps, Collected
<1>6. Append(<<IAC>>, c) = <<IAC, c>>
    BY <1>5, AppendToOne DEF Byte, IAC
<1> s.at \in Telnets /\ Telnet(c)
    BY <1>0
<1> USE DEF Reads, Telnet, Now, State, InText, Telnets, Vt100s, vt100Vars, ExitTelnet
<1>7. CASE s.at = "START"
    <2> TelnetStart(c)
        BY <1>1, <1>7 DEF TelnetCommand, TelnetSubcommand, TelnetMaybeEnd
    <2>1. ~Completes(x) /\ UNCHANGED <<typeVars, window>>
        BY <1>4, <1>7 DEF TelnetStart
    <2>2. Now(To(x))'
        <3>1. To(x) = IF c = SB THEN State("SUBCOMMAND", <<IAC, SB>>)
                      ELSE IF c \in Options THEN State("COMMAND", <<IAC, c>>) ELSE InText
            BY <1>3, <1>7 DEF After
        <3> USE DEF TelnetStart, Options, WILL, WONT, DO, DONT, SB
        <3>2. CASE c = SB
            BY SMTT(30), <1>1, <1>2, <1>5, <1>6, <1>7, <3>1, <3>2
        <3>3. CASE c \in Options
            <4>1. /\ telnetState' = "COMMAND" /\ telnetCommand' = <<IAC, c>>
                  /\ processingMode' = "TELNET"
                <5>1. c \in {WILL, WONT, DO, DONT, SB} /\ c # SB
                    BY <3>3
                <5>2. telnetState' = "COMMAND" /\ telnetCommand' = Append(telnetCommand, c)
                    BY <5>1 DEF TelnetStart
                <5>3. processingMode' = processingMode
                    BY <5>1 DEF TelnetStart
                <5> QED
                    BY SMTT(30), <1>1, <1>5, <1>6, <1>7, <5>2, <5>3
            <4>2. To(x) = State("COMMAND", <<IAC, c>>)
                BY <3>1, <3>3
            <4> QED
                BY <1>1, <1>2, <4>1, <4>2
        <3>4. CASE c \notin Options \union {SB}
            BY <1>1, <1>2, <3>1, <3>4
        <3> QED
            BY <3>2, <3>3, <3>4
    <2> QED
        BY <1>2, <2>1, <2>2
<1>8. CASE s.at = "COMMAND"
    <2>1. Completes(x) /\ TelnetCommand(c)
        BY <1>1, <1>4, <1>8 DEF TelnetStart, TelnetSubcommand, TelnetMaybeEnd
    <2>2. ProcessTelnetCommand(Whole(x)) /\ ExitTelnet
        BY <1>3, <2>1 DEF TelnetCommand
    <2>3. Now(To(x))'
        BY <1>1, <1>2, <1>3, <1>8, <2>2 DEF After
    <2> QED
        BY <1>2, <2>1, <2>2, <2>3
<1>9. CASE s.at = "SUBCOMMAND"
    <2> TelnetSubcommand(c)
        BY <1>1, <1>9 DEF TelnetStart, TelnetCommand, TelnetMaybeEnd
    <2>1. ~Completes(x) /\ UNCHANGED <<typeVars, window>>
        BY <1>4, <1>9 DEF TelnetSubcommand
    <2>2. Now(To(x))'
        <3>1. /\ telnetState' = IF c = IAC THEN "MAYBE_END" ELSE "SUBCOMMAND"
              /\ telnetCommand' = Append(s.bytes, c) /\ processingMode' = "TELNET"
            BY <1>1, <1>9 DEF TelnetSubcommand
        <3>2. To(x) = State(IF c = IAC THEN "MAYBE_END" ELSE "SUBCOMMAND", Append(s.bytes, c))
            BY <1>3, <1>9 DEF After
        <3> QED
            BY <1>1, <1>2, <3>1, <3>2
    <2> QED
        BY <1>2, <2>1, <2>2
<1>10. CASE s.at = "MAYBE_END"
    <2> TelnetMaybeEnd(c)
        BY <1>1, <1>10 DEF TelnetStart, TelnetCommand, TelnetSubcommand
    <2>1. Now(To(x))'
        BY <1>1, <1>2, <1>3, <1>10 DEF TelnetMaybeEnd, RepeatedIac, IAC, SE, After
    <2>2. Completes(x) => ProcessTelnetCommand(Whole(x))
        BY <1>3, <1>4, <1>10 DEF TelnetMaybeEnd, RepeatedIac, IAC, SE
    <2>3. ~Completes(x) => UNCHANGED <<typeVars, window>>
        BY <1>4, <1>10 DEF TelnetMaybeEnd, RepeatedIac
    <2> QED
        BY <1>2, <2>1, <2>2, <2>3
<1> QED
    BY <1>7, <1>8, <1>9, <1>10

\* The sequences that are complete with the byte c.
LEMMA KnownFinal ==
    ASSUME NEW c \in Byte
    PROVE  /\ c \in Finals => \E known \in Vt100Commands : known[1] = <<ESC, BRACKET, c>>
           /\ \A known \in Vt100Commands :
                 IsPrefix(known[1], <<ESC, BRACKET, c>>) => known[1] = <<ESC, BRACKET, c>>
BY DEF Vt100Commands, ESC, BRACKET, TILDE, Finals, IsPrefix, Byte

LEMMA KnownTilde ==
    ASSUME NEW d \in {49, 51, 52}, NEW c \in Byte
    PROVE  /\ \E known \in Vt100Commands : known[1] = <<ESC, BRACKET, d, TILDE>>
           /\ \A known \in Vt100Commands :
                 IsPrefix(known[1], <<ESC, BRACKET, d, c>>) <=> known[1] = <<ESC, BRACKET, d, c>>
BY DEF Vt100Commands, ESC, BRACKET, TILDE, IsPrefix, Byte

LEMMA ReadsVt100 ==
    ASSUME NEW x \in Steps, x.from.at \in Vt100s, Now(x.from), Vt100(x.byte)
    PROVE  Reads(x)
<1>0. PICK c, s : c = x.byte /\ s = x.from
    OBVIOUS
<1>1. /\ processingMode = "VT100" /\ telnetState = "NONE" /\ telnetCommand = <<>>
      /\ vt100State = s.at /\ vt100Command = s.bytes
    BY <1>0 DEF Now, Telnets, Vt100s
<1>2. ~Completes(x) /\ UNCHANGED <<telnetVars, typeVars, window>>
    BY DEF Completes, Vt100, Vt100s
<1>3. To(x) = After(s, c) /\ Whole(x) = Append(vt100Command, c)
    BY <1>0, <1>1 DEF To, Whole
<1>4. c \in Byte /\ Collected(s)
    BY <1>0 DEF Steps
<1>5. \A key : Hears(x, key) <=>
         /\ s.at \in {"ESC_BRAC", "DEL", "HOME", "END"}
         /\ \E known \in Vt100Commands : Whole(x) = known[1] /\ key = <<known[2], 0>>
    BY <1>0 DEF Hears, Vt100s
<1> s.at \in Vt100s /\ Vt100(c)
    BY <1>0
<1> USE DEF Reads, Vt100, Vt100s, ExitVT100
<1>6. CASE s.at = "ESC"
    <2> Vt100Esc(c)
        BY <1>1, <1>6 DEF Vt100Bracket, Vt100Tilde
    <2>1. s.bytes = <<ESC>> /\ Append(<<ESC>>, c) = <<ESC, c>>
        BY <1>4, <1>6, AppendToOne DEF Collected
    <2>2. To(x) = IF c = BRACKET THEN State("ESC_BRAC", <<ESC, BRACKET>>) ELSE InText
        BY <1>3, <1>6 DEF After
    <2>3. Now(To(x))'
        BY <1>1, <1>2, <2>1, <2>2
        DEF Vt100Esc, Now, State, InText, Telnets, telnetVars, BRACKET
    <2>4. (\A key : ~Hears(x, key)) /\ UNCHANGED keyVars
        BY <1>5, <1>6 DEF Vt100Esc
    <2> QED
        BY <1>2, <2>3, <2>4
<1>7. CASE s.at = "ESC_BRAC"
    <2> Vt100Bracket(c)
        BY <1>1, <1>7 DEF Vt100Esc, Vt100Tilde
    <2>1. s.bytes = <<ESC, BRACKET>> /\ Whole(x) = <<ESC, BRACKET, c>>
        BY <1>1, <1>3, <1>4, <1>7, AppendToTwo DEF Collected
    <2>2. To(x) = IF c \in Finals THEN InText
                  ELSE IF c = 51 THEN State("DEL", <<ESC, BRACKET, 51>>)
                  ELSE IF c = 49 THEN State("HOME", <<ESC, BRACKET, 49>>)
                  ELSE IF c = 52 THEN State("END", <<ESC, BRACKET, 52>>) ELSE s
        BY <1>3, <1>7 DEF After
    <2>3. \A known \in Vt100Commands : Len(known[1]) = 3 => known[1][3] \in Finals
        BY DEF Vt100Commands, ESC, BRACKET, TILDE, Finals
    <2>4. c \notin Finals => \A key : ~Hears(x, key)
        <3> SUFFICES ASSUME c \notin Finals, NEW known \in Vt100Commands, Whole(x) = known[1]
                     PROVE FALSE
            BY <1>5
        <3>1. Len(<<ESC, BRACKET, c>>) = 3 /\ <<ESC, BRACKET, c>>[3] = c
            OBVIOUS
        <3> QED
            BY <2>1, <2>3, <3>1
    <2>5. CASE c \in Finals
        <3>1. ProcessVT100Command(Whole(x)) /\ ExitVT100(Whole(x))
            BY <1>3, <2>5 DEF Vt100Bracket, Finals
        <3>2. PICK known \in Vt100Commands : IsPrefix(known[1], Whole(x)) /\ Hear(<<known[2], 0>>)
            BY <3>1 DEF ProcessVT100Command
        <3>3. known[1] = Whole(x)
            BY <1>4, <2>1, <3>2, KnownFinal
        <3>4. \A key : Hears(x, key) <=> key = <<known[2], 0>>
            BY <1>5, <1>7, <3>3, OneName
        <3>5. Now(To(x))'
            BY <1>1, <1>2, <2>2, <2>5, <3>1 DEF Now, State, InText, Telnets, telnetVars
        <3> QED
            BY <1>2, <3>2, <3>4, <3>5
    <2>6. CASE c \in {49, 51, 52}
        <3>1. /\ vt100State' = IF c = 51 THEN "DEL" ELSE IF c = 49 THEN "HOME" ELSE "END"
              /\ vt100Command' = <<ESC, BRACKET, c>>
              /\ UNCHANGED <<processingMode, keyVars>>
            BY <1>3, <2>1, <2>6 DEF Vt100Bracket
        <3>2. Now(To(x))'
            BY <1>1, <1>2, <2>2, <2>6, <3>1 DEF Now, State, Telnets, telnetVars, Finals
        <3> QED
            BY <1>2, <2>4, <2>6, <3>1, <3>2 DEF Finals
    <2>7. CASE c \notin Finals \union {49, 51, 52}
        <3>1. UNCHANGED <<processingMode, vt100Vars, keyVars>>
            BY <2>7 DEF Vt100Bracket, Finals
        <3>2. To(x) = s
            BY <2>2, <2>7
        <3>3. Now(To(x))'
            BY <1>1, <1>2, <3>1, <3>2 DEF Now, Telnets, telnetVars, vt100Vars
        <3> QED
            BY <1>2, <2>4, <2>7, <3>1, <3>3
    <2> QED
        BY <2>5, <2>6, <2>7
<1>8. CASE s.at \in {"DEL", "HOME", "END"}
    <2> Vt100Tilde(c)
        BY <1>1, <1>8 DEF Vt100Esc, Vt100Bracket
    <2>1. PICK d \in {49, 51, 52} : s.bytes = <<ESC, BRACKET, d>>
        BY <1>4, <1>8 DEF Collected, Digit
    <2>2. Whole(x) = <<ESC, BRACKET, d, c>>
        BY <1>1, <1>3, <2>1, AppendToThree
    <2>3. To(x) = InText
        BY <1>3, <1>8 DEF After
    <2>4. Now(To(x))'
        BY <1>1, <1>2, <2>3 DEF Vt100Tilde, Now, State, InText, Telnets, telnetVars
    <2>5. CASE c = TILDE
        <3>1. ProcessVT100Command(Whole(x))
            BY <1>3, <2>5 DEF Vt100Tilde
        <3>2. PICK known \in Vt100Commands : IsPrefix(known[1], Whole(x)) /\ Hear(<<known[2], 0>>)
            BY <3>1 DEF ProcessVT100Command
        <3>3. known[1] = Whole(x)
            BY <1>4, <2>2, <3>2, KnownTilde
        <3>4. \A key : Hears(x, key) <=> key = <<known[2], 0>>
            BY <1>5, <1>8, <3>3, OneName
        <3> QED
            BY <1>2, <2>4, <3>2, <3>4
    <2>6. CASE c # TILDE
        <3>1. \A known \in Vt100Commands : Len(known[1]) = 4 => known[1][4] = TILDE
            BY DEF Vt100Commands, ESC, BRACKET, TILDE
        <3>2. Len(<<ESC, BRACKET, d, c>>) = 4 /\ <<ESC, BRACKET, d, c>>[4] = c
            OBVIOUS
        <3>3. \A key : ~Hears(x, key)
            BY <1>5, <2>2, <2>6, <3>1, <3>2
        <3>4. UNCHANGED keyVars
            BY <2>6 DEF Vt100Tilde
        <3> QED
            BY <1>2, <2>4, <3>3, <3>4
    <2> QED
        BY <2>5, <2>6
<1> QED
    BY <1>6, <1>7, <1>8

\* A byte that process_input takes is read as the machine reads it.
LEMMA ReadsOne ==
    ASSUME NEW x \in Steps, Now(x.from), wire # <<>>, Head(wire) = x.byte, ProcessInput
    PROVE  Reads(x)
<1>1. x.from.at \in {"TEXT"} \union Telnets \union Vt100s
    BY DEF Steps, States
<1>2. CASE x.from.at = "TEXT"
    <2>1. Text(x.byte)
        BY <1>2 DEF Now, ProcessInput, Telnet, Vt100
    <2> QED
        BY <1>2, <2>1, ReadsText
<1>3. CASE x.from.at \in Telnets
    <2>1. Telnet(x.byte)
        BY <1>3 DEF Now, ProcessInput, Text, Vt100, Telnets
    <2> QED
        BY <1>3, <2>1, ReadsTelnet
<1>4. CASE x.from.at \in Vt100s
    <2>1. Vt100(x.byte)
        BY <1>4 DEF Now, ProcessInput, Text, Telnet, Vt100s, Telnets
    <2> QED
        BY <1>4, <2>1, ReadsVt100
<1> QED
    BY <1>1, <1>2, <1>3, <1>4

-----------------------------------------------------------------------------
(* Paths: how the machine takes some bytes, step by step.                  *)

Path(s, st, t) ==
    /\ st \in Seq(Steps)
    /\ st = <<>> => s = t
    /\ st # <<>> => st[1].from = s /\ To(st[Len(st)]) = t
    /\ \A k \in 1..Len(st) : k < Len(st) => st[k + 1].from = To(st[k])

Bytes(st) == [k \in 1..Len(st) |-> st[k].byte]

LEMMA PathOne ==
    ASSUME NEW x \in Steps
    PROVE  Path(x.from, <<x>>, To(x)) /\ Bytes(<<x>>) = <<x.byte>>
<1>1. <<x>> \in Seq(Steps) /\ Len(<<x>>) = 1 /\ <<x>>[1] = x /\ <<x>> # <<>>
    OBVIOUS
<1>2. Path(x.from, <<x>>, To(x))
    BY <1>1 DEF Path
<1>3. Bytes(<<x>>) = <<x.byte>>
    BY <1>1 DEF Bytes
<1> QED
    BY <1>2, <1>3

\* One path, or the bytes of one, behind another.
Join(p, q) == p \o q

LEMMA PathJoin ==
    ASSUME NEW a, NEW b, NEW c, NEW p, NEW q, Path(a, p, b), Path(b, q, c)
    PROVE  Path(a, Join(p, q), c) /\ Bytes(Join(p, q)) = Join(Bytes(p), Bytes(q))
<1>1. p \in Seq(Steps) /\ q \in Seq(Steps) /\ Len(p) \in Nat /\ Len(q) \in Nat
    BY DEF Path
<1>2. PICK r : r = p \o q
    OBVIOUS
<1>3. /\ r \in Seq(Steps) /\ Len(r) = Len(p) + Len(q)
      /\ \A k \in 1..Len(p) : r[k] = p[k]
      /\ \A k \in (Len(p) + 1)..(Len(p) + Len(q)) : r[k] = q[k - Len(p)]
    BY <1>1, <1>2, ConcatProperties
<1>4. /\ p = <<>> <=> Len(p) = 0
      /\ q = <<>> <=> Len(q) = 0
      /\ r = <<>> <=> Len(r) = 0
    BY <1>1, <1>3, EmptySeq
<1>5. ASSUME NEW k \in 1..Len(r), k < Len(r) PROVE r[k + 1].from = To(r[k])
    <2>1. CASE k < Len(p)
        <3>1. k \in 1..Len(p) /\ r[k + 1] = p[k + 1] /\ r[k] = p[k]
            BY <1>1, <1>3, <1>5, <2>1
        <3> QED
            BY <2>1, <3>1 DEF Path
    <2>2. CASE k = Len(p)
        <3>1. r[k + 1] = q[1] /\ r[k] = p[k] /\ p # <<>> /\ q # <<>>
            BY <1>1, <1>3, <1>4, <1>5, <2>2
        <3> QED
            BY <3>1, <2>2 DEF Path
    <2>3. CASE k > Len(p)
        <3>1. k - Len(p) \in 1..Len(q) /\ k - Len(p) < Len(q) /\ (k - Len(p)) + 1 = (k + 1) - Len(p)
            BY <1>1, <1>3, <1>5, <2>3
        <3>2. r[k + 1] = q[(k - Len(p)) + 1] /\ r[k] = q[k - Len(p)]
            BY <1>1, <1>3, <1>5, <2>3, <3>1
        <3> QED
            BY <3>1, <3>2 DEF Path
    <2> QED
        BY <1>1, <2>1, <2>2, <2>3
<1>6. r # <<>> => r[1].from = a
    <2>1. CASE p = <<>>
        BY <1>1, <1>3, <1>4, <2>1 DEF Path
    <2>2. CASE p # <<>>
        BY <1>1, <1>3, <1>4, <2>2 DEF Path
    <2> QED
        BY <2>1, <2>2
<1>7. r # <<>> => To(r[Len(r)]) = c
    <2>1. CASE q = <<>>
        BY <1>1, <1>3, <1>4, <2>1 DEF Path
    <2>2. CASE q # <<>>
        BY <1>1, <1>3, <1>4, <2>2 DEF Path
    <2> QED
        BY <2>1, <2>2
<1>8. r = <<>> => a = c
    BY <1>1, <1>3, <1>4 DEF Path
<1>9. Path(a, r, c)
    BY <1>3, <1>5, <1>6, <1>7, <1>8 DEF Path
<1>10. Bytes(r) = Bytes(p) \o Bytes(q)
    <2>1. \A t \in Seq(Steps) : /\ Bytes(t) \in Seq(Byte) /\ Len(Bytes(t)) = Len(t)
                                /\ \A k \in 1..Len(t) : Bytes(t)[k] = t[k].byte
        <3> SUFFICES ASSUME NEW t \in Seq(Steps)
                     PROVE /\ Bytes(t) \in Seq(Byte) /\ Len(Bytes(t)) = Len(t)
                           /\ \A k \in 1..Len(t) : Bytes(t)[k] = t[k].byte
            OBVIOUS
        <3>1. Len(t) \in Nat /\ \A k \in 1..Len(t) : t[k].byte \in Byte
            BY DEF Steps
        <3> QED
            BY <3>1 DEF Bytes
    <2>2. PICK u, v : u = Bytes(p) /\ v = Bytes(q)
        OBVIOUS
    <2>3. /\ u \o v \in Seq(Byte) /\ Len(u \o v) = Len(u) + Len(v)
          /\ \A k \in 1..Len(u) : (u \o v)[k] = u[k]
          /\ \A k \in (Len(u) + 1)..(Len(u) + Len(v)) : (u \o v)[k] = v[k - Len(u)]
        BY <1>1, <2>1, <2>2, ConcatProperties
    <2>4. Len(u) = Len(p) /\ Len(v) = Len(q) /\ Len(Bytes(r)) = Len(p) + Len(q)
        BY <1>1, <1>3, <2>1, <2>2
    <2>5. ASSUME NEW k \in 1..(Len(p) + Len(q)) PROVE Bytes(r)[k] = (u \o v)[k]
        <3>1. Bytes(r)[k] = r[k].byte
            BY <1>3, <2>1
        <3>2. CASE k <= Len(p)
            <4>1. k \in 1..Len(p)
                BY <1>1, <3>2
            <4>2. (u \o v)[k] = u[k] /\ r[k] = p[k]
                BY <1>3, <2>3, <2>4, <4>1
            <4>3. u[k] = p[k].byte
                BY <1>1, <2>1, <2>2, <4>1
            <4> QED
                BY <3>1, <4>2, <4>3
        <3>3. CASE k > Len(p)
            <4>1. k - Len(p) \in 1..Len(q) /\ k \in (Len(p) + 1)..(Len(p) + Len(q))
                BY <1>1, <3>3
            <4>2. (u \o v)[k] = v[k - Len(p)]
                BY <2>3, <2>4, <4>1
            <4>3. v[k - Len(p)] = q[k - Len(p)].byte
                BY <1>1, <2>1, <2>2, <4>1
            <4>4. r[k] = q[k - Len(p)]
                BY <1>3, <4>1
            <4> QED
                BY <3>1, <4>2, <4>3, <4>4
        <3>4. k <= Len(p) \/ k > Len(p)
            BY <1>1
        <3> QED
            BY <3>2, <3>3, <3>4
    <2>6. Bytes(r) \in Seq(Byte)
        BY <1>3, <2>1
    <2> QED
        BY <2>2, <2>3, <2>4, <2>5, <2>6, SeqEqual
<1> QED
    BY <1>2, <1>9, <1>10 DEF Join

LEMMA PathRest ==
    ASSUME NEW s, NEW st, NEW t, Path(s, st, t), st # <<>>
    PROVE  /\ Path(To(st[1]), Tail(st), t)
           /\ Bytes(st) # <<>> /\ Head(Bytes(st)) = st[1].byte
           /\ Bytes(Tail(st)) = Tail(Bytes(st))
<1>1. st \in Seq(Steps) /\ Len(st) \in Nat /\ Len(st) > 0
    BY EmptySeq DEF Path
<1>2. PICK r : r = Tail(st)
    OBVIOUS
<1>3. /\ r \in Seq(Steps) /\ Len(r) = Len(st) - 1
      /\ \A k \in 1..Len(r) : r[k] = st[k + 1]
    BY <1>1, <1>2, HeadTailProperties
<1>4. r = <<>> <=> Len(r) = 0
    BY <1>3, EmptySeq
<1>5. Path(To(st[1]), r, t)
    <2>1. ASSUME r = <<>> PROVE To(st[1]) = t
        <3>1. Len(st) = 1
            BY <1>1, <1>3, <1>4, <2>1
        <3> QED
            BY <3>1 DEF Path
    <2>2. ASSUME r # <<>> PROVE r[1].from = To(st[1]) /\ To(r[Len(r)]) = t
        <3>1. Len(st) > 1 /\ r[1] = st[1 + 1] /\ r[Len(r)] = st[Len(st)]
            BY <1>1, <1>3, <1>4, <2>2
        <3>2. 1 \in 1..Len(st)
            BY <1>1
        <3> QED
            BY <3>1, <3>2 DEF Path
    <2>3. ASSUME NEW k \in 1..Len(r), k < Len(r) PROVE r[k + 1].from = To(r[k])
        <3>1. r[k] = st[k + 1] /\ r[k + 1] = st[(k + 1) + 1] /\ k + 1 \in 1..Len(st)
            BY <1>1, <1>3, <2>3
        <3> QED
            BY <1>1, <1>3, <2>3, <3>1 DEF Path
    <2> QED
        BY <1>3, <2>1, <2>2, <2>3 DEF Path
<1>6. /\ Len(Bytes(st)) = Len(st) /\ \A k \in 1..Len(st) : Bytes(st)[k] = st[k].byte
      /\ Bytes(st) \in Seq(Byte)
    <2>1. \A k \in 1..Len(st) : st[k].byte \in Byte
        BY <1>1 DEF Steps
    <2> QED
        BY <1>1, <2>1 DEF Bytes
<1>7. Bytes(st) # <<>> /\ Head(Bytes(st)) = st[1].byte
    BY <1>1, <1>6, EmptySeq
<1>8. /\ Len(Bytes(r)) = Len(r) /\ \A k \in 1..Len(r) : Bytes(r)[k] = r[k].byte
      /\ Bytes(r) \in Seq(Byte)
    <2>1. \A k \in 1..Len(r) : r[k].byte \in Byte
        BY <1>3 DEF Steps
    <2> QED
        BY <1>1, <1>3, <2>1 DEF Bytes
<1>9. /\ Tail(Bytes(st)) \in Seq(Byte) /\ Len(Tail(Bytes(st))) = Len(st) - 1
      /\ \A k \in 1..(Len(st) - 1) : Tail(Bytes(st))[k] = Bytes(st)[k + 1]
    BY <1>6, <1>7, HeadTailProperties
<1>10. Bytes(r) = Tail(Bytes(st))
    <2>1. ASSUME NEW k \in 1..Len(r) PROVE Bytes(r)[k] = Tail(Bytes(st))[k]
        BY SMTT(30), <1>1, <1>3, <1>6, <1>8, <1>9
    <2> QED
        BY <1>3, <1>8, <1>9, <2>1, SeqEqual
<1> QED
    BY <1>2, <1>5, <1>7, <1>10

-----------------------------------------------------------------------------
(* Paths on which nothing is heard and no Telnet command of the three that *)
(* processTelnetCommand knows is completed.                                *)

Quiet(x) == (\A key : ~Hears(x, key)) /\ ~IsSize(x) /\ ~IsWill(x) /\ ~IsType(x)
QuietPath(s, bytes, t) ==
    \E st : /\ Path(s, st, t) /\ Bytes(st) = bytes
            /\ \A k \in 1..Len(st) : Quiet(st[k])

LEMMA QuietOne ==
    ASSUME NEW x \in Steps, Quiet(x) PROVE QuietPath(x.from, <<x.byte>>, To(x))
<1>1. PICK st : st = <<x>>
    OBVIOUS
<1>2. Path(x.from, st, To(x)) /\ Bytes(st) = <<x.byte>>
    BY <1>1, PathOne
<1>3. \A k \in 1..Len(st) : st[k] = x
    BY <1>1
<1> QED
    BY <1>2, <1>3 DEF QuietPath

LEMMA QuietNone == ASSUME NEW s PROVE QuietPath(s, <<>>, s)
<1>1. <<>> \in Seq(Steps) /\ Len(<<>>) = 0
    OBVIOUS
<1>2. Path(s, <<>>, s)
    BY <1>1 DEF Path
<1>3. Bytes(<<>>) = <<>>
    BY <1>1 DEF Bytes
<1> QED
    BY <1>1, <1>2, <1>3 DEF QuietPath

LEMMA QuietJoin ==
    ASSUME NEW a, NEW b, NEW c, NEW p, NEW q, QuietPath(a, p, b), QuietPath(b, q, c)
    PROVE  QuietPath(a, Join(p, q), c)
<1>1. PICK s : Path(a, s, b) /\ Bytes(s) = p /\ \A k \in 1..Len(s) : Quiet(s[k])
    BY DEF QuietPath
<1>2. PICK t : Path(b, t, c) /\ Bytes(t) = q /\ \A k \in 1..Len(t) : Quiet(t[k])
    BY DEF QuietPath
<1>3. Path(a, Join(s, t), c) /\ Bytes(Join(s, t)) = Join(p, q)
    <2>1. Path(a, Join(s, t), c) /\ Bytes(Join(s, t)) = Join(Bytes(s), Bytes(t))
        BY <1>1, <1>2, PathJoin
    <2> QED
        BY <1>1, <1>2, <2>1
<1>4. s \in Seq(Steps) /\ t \in Seq(Steps)
    BY <1>1, <1>2 DEF Path
<1>5. /\ Len(s \o t) = Len(s) + Len(t) /\ Len(s) \in Nat /\ Len(t) \in Nat
      /\ \A k \in 1..Len(s) : (s \o t)[k] = s[k]
      /\ \A k \in (Len(s) + 1)..(Len(s) + Len(t)) : (s \o t)[k] = t[k - Len(s)]
    BY <1>4, ConcatProperties
<1>6. Join(s, t) = s \o t
    BY DEF Join
<1>7. ASSUME NEW k \in 1..Len(s \o t) PROVE Quiet((s \o t)[k])
    <2>1. CASE k <= Len(s)
        BY <1>1, <1>5, <2>1
    <2>2. CASE k > Len(s)
        <3>1. k - Len(s) \in 1..Len(t) /\ (s \o t)[k] = t[k - Len(s)]
            BY <1>5, <2>2
        <3> QED
            BY <1>2, <3>1
    <2>3. k <= Len(s) \/ k > Len(s)
        BY <1>5
    <2> QED
        BY <2>1, <2>2, <2>3
<1> QED
    BY <1>3, <1>6, <1>7 DEF QuietPath

\* A state that skips every one of these bytes.
LEMMA QuietLoop ==
    ASSUME NEW s \in States, Collected(s), NEW bytes \in Seq(Byte),
           \A k \in 1..Len(bytes) : To(Step(s, bytes[k])) = s /\ Quiet(Step(s, bytes[k]))
    PROVE  QuietPath(s, bytes, s)
<1>1. PICK st : st = [k \in 1..Len(bytes) |-> Step(s, bytes[k])]
    OBVIOUS
<1>2. \A c \in Byte : /\ Step(s, c) \in Steps
                      /\ Step(s, c).from = s /\ Step(s, c).byte = c
    BY DEF Steps, Step
<1>3. \A k \in 1..Len(bytes) : bytes[k] \in Byte
    OBVIOUS
<1>4. /\ st \in Seq(Steps) /\ Len(st) = Len(bytes) /\ Len(st) \in Nat
      /\ \A k \in 1..Len(st) : st[k] = Step(s, bytes[k])
    BY <1>1, <1>2, <1>3
<1>5. \A k \in 1..Len(st) : /\ st[k].from = s /\ st[k].byte = bytes[k] 
                            /\ To(st[k]) = s /\ Quiet(st[k])
    BY <1>2, <1>3, <1>4
<1>6. st = <<>> <=> Len(st) = 0
    BY <1>4, EmptySeq
<1>7. Path(s, st, s)
    <2>1. st # <<>> => st[1].from = s /\ To(st[Len(st)]) = s
        BY <1>4, <1>5, <1>6
    <2>2. \A k \in 1..Len(st) : k < Len(st) => st[k + 1].from = To(st[k])
        BY <1>4, <1>5
    <2> QED
        BY <1>4, <2>1, <2>2 DEF Path
<1>8. Bytes(st) = bytes
    <2>1. Bytes(st) = [k \in 1..Len(bytes) |-> bytes[k]]
        BY <1>4, <1>5 DEF Bytes
    <2> QED
        BY <2>1
<1> QED
    BY <1>5, <1>7, <1>8 DEF QuietPath

Sub(bytes) == State("SUBCOMMAND", bytes)
MaybeEnd(bytes) == State("MAYBE_END", bytes)

LEMMA SubSteps ==
    ASSUME NEW pre \in Seq(Byte), Len(pre) \in 2..(Longest - 1), NEW c \in Byte
    PROVE  LET x == Step(Sub(pre), c)
           IN  /\ x \in Steps /\ Quiet(x)
               /\ c # IAC => To(x) = Sub(Append(pre, c))
               /\ c = IAC => To(x) = MaybeEnd(Append(pre, c))
<1> DEFINE x == Step(Sub(pre), c)
<1>1. x.from = Sub(pre) /\ x.byte = c /\ x.from.at = "SUBCOMMAND" /\ x.from.bytes = pre
    BY DEF Step, Sub, State
<1>2. Sub(pre) \in States /\ Collected(Sub(pre))
    <2>1. Len(pre) \in 2..Longest
        OBVIOUS
    <2> QED
        BY <2>1 DEF Sub, State, States, Telnets, Vt100s, Collected
<1>3. x \in Steps
    BY <1>2 DEF Steps, Step
<1>4. Quiet(x)
    BY <1>1, <1>3, NotHeard DEF Quiet, IsSize, IsWill, IsType, Completes, Telnets
<1>5. To(x) = State(IF c = IAC THEN "MAYBE_END" ELSE "SUBCOMMAND", Append(pre, c))
    BY <1>1 DEF To, After
<1> QED
    BY <1>3, <1>4, <1>5 DEF Sub, MaybeEnd

LEMMA MaybeEndSteps ==
    ASSUME NEW whole \in Seq(Byte), Len(whole) \in 2..Longest, NEW c \in Byte
    PROVE  LET x == Step(MaybeEnd(whole), c)
           IN  /\ x \in Steps /\ x.from = MaybeEnd(whole) /\ x.byte = c
               /\ \A key : ~Hears(x, key)
               /\ c # SE => Quiet(x)
               /\ c = IAC => To(x) = Sub(whole)
               /\ c # IAC => To(x) = InText
               /\ c = SE => Completes(x) /\ Whole(x) = Append(whole, SE)
<1> DEFINE x == Step(MaybeEnd(whole), c)
<1>1. x.from = MaybeEnd(whole) /\ x.byte = c /\ x.from.at = "MAYBE_END" /\ x.from.bytes = whole
    BY DEF Step, MaybeEnd, State
<1>2. MaybeEnd(whole) \in States /\ Collected(MaybeEnd(whole))
    BY DEF MaybeEnd, State, States, Telnets, Vt100s, Collected
<1>3. x \in Steps
    BY <1>2 DEF Steps, Step
<1>4. \A key : ~Hears(x, key)
    BY <1>1, <1>3, NotHeard DEF Telnets
<1>5. Completes(x) <=> c = SE
    BY <1>1 DEF Completes
<1>6. c # SE => Quiet(x)
    BY <1>4, <1>5 DEF Quiet, IsSize, IsWill, IsType
<1>7. To(x) = IF c = IAC THEN State("SUBCOMMAND", whole) ELSE InText
    BY <1>1 DEF To, After
<1>8. Whole(x) = Append(whole, c)
    BY <1>1 DEF Whole
<1> QED
    BY <1>1, <1>3, <1>4, <1>5, <1>6, <1>7, <1>8 DEF Sub

Esc == State("ESC", <<ESC>>)
EscBrac == State("ESC_BRAC", <<ESC, BRACKET>>)
Start == State("START", <<IAC>>)
Command(c) == State("COMMAND", <<IAC, c>>)

LEMMA TextSteps ==
    ASSUME NEW c \in Byte
    PROVE  LET x == Step(InText, c)
           IN  /\ x \in Steps /\ x.from = InText /\ x.byte = c
               /\ ~Completes(x)
               /\ c \notin (32..126) \union {BS, DEL} => Quiet(x)
               /\ c = IAC => To(x) = Start
               /\ c = ESC => To(x) = Esc
               /\ c \notin {IAC, ESC} => To(x) = InText
               /\ c \in 32..126 => \A key : Hears(x, key) <=> key = <<"char", c>>
               /\ c = BS => \A key : Hears(x, key) <=> key = <<"backspace", 0>>
               /\ c = DEL => \A key : Hears(x, key) <=> key = <<"delete", 0>>
<1> DEFINE x == Step(InText, c)
<1>1. x.from = InText /\ x.byte = c /\ x.from.at = "TEXT" /\ x.from.bytes = <<>>
    BY DEF Step, InText, State
<1>2. InText \in States /\ Collected(InText)
    <2>1. <<>> \in Seq(Byte)
        OBVIOUS
    <2> QED
        BY <2>1 DEF InText, State, States, Telnets, Vt100s, Collected
<1>3. x \in Steps
    BY <1>2 DEF Steps, Step
<1>4. ~Completes(x)
    BY <1>1 DEF Completes
<1>5. To(x) = IF c = IAC THEN Start
              ELSE IF c = ESC THEN Esc ELSE InText
    BY <1>1 DEF To, After, Start, Esc
<1>6. \A key : Hears(x, key) <=> \/ c \in 32..126 /\ key = <<"char", c>>
                                 \/ c = BS /\ key = <<"backspace", 0>>
                                 \/ c = DEL /\ key = <<"delete", 0>>
    BY <1>1 DEF Hears
<1>7. c \notin (32..126) \union {BS, DEL} => Quiet(x)
    BY <1>4, <1>6 DEF Quiet, IsSize, IsWill, IsType
<1>8. PICK y : y = x
    OBVIOUS
<1> HIDE DEF x
<1>9. /\ c \in 32..126 => \A key : Hears(y, key) <=> key = <<"char", c>>
      /\ c = BS => \A key : Hears(y, key) <=> key = <<"backspace", 0>>
      /\ c = DEL => \A key : Hears(y, key) <=> key = <<"delete", 0>>
    BY <1>6, <1>8 DEF BS, DEL
<1>10. /\ c = IAC => To(x) = Start
       /\ c = ESC => To(x) = Esc
       /\ c \notin {IAC, ESC} => To(x) = InText
    BY <1>5 DEF IAC, ESC
<1> QED
    BY <1>1, <1>3, <1>4, <1>7, <1>8, <1>9, <1>10 DEF x

LEMMA StartSteps ==
    ASSUME NEW c \in Byte
    PROVE  LET x == Step(Start, c)
           IN  /\ x \in Steps /\ x.from = Start /\ x.byte = c
               /\ Quiet(x)
               /\ c = SB => To(x) = Sub(<<IAC, SB>>)
               /\ c \in Options => To(x) = Command(c)
               /\ c \notin Options \union {SB} => To(x) = InText
<1> DEFINE x == Step(Start, c)
<1>1. x.from = Start /\ x.byte = c /\ x.from.at = "START" /\ x.from.bytes = <<IAC>>
    BY DEF Step, Start, State
<1>2. Start \in States /\ Collected(Start)
    <2>1. <<IAC>> \in Seq(Byte)
        BY DEF IAC, Byte
    <2> QED
        BY <2>1 DEF Start, State, States, Telnets, Vt100s, Collected
<1>3. x \in Steps
    BY <1>2 DEF Steps, Step
<1>4. Quiet(x)
    BY <1>1, <1>3, NotHeard DEF Quiet, IsSize, IsWill, IsType, Completes, Telnets
<1>5. To(x) = IF c = SB THEN Sub(<<IAC, SB>>)
              ELSE IF c \in Options THEN Command(c) ELSE InText
    BY <1>1 DEF To, After, Sub, Command
<1>6. SB \notin Options
    BY DEF SB, Options, WILL, WONT, DO, DONT
<1> QED
    BY <1>1, <1>3, <1>4, <1>5, <1>6

LEMMA CommandSteps ==
    ASSUME NEW o \in Options, NEW c \in Byte
    PROVE  LET x == Step(Command(o), c)
           IN  /\ x \in Steps /\ x.from = Command(o) /\ x.byte = c
               /\ \A key : ~Hears(x, key)
               /\ Completes(x) /\ To(x) = InText /\ Whole(x) = <<IAC, o, c>>
<1> DEFINE x == Step(Command(o), c)
<1>1. x.from = Command(o) /\ x.byte = c /\ x.from.at = "COMMAND" /\ x.from.bytes = <<IAC, o>>
    BY DEF Step, Command, State
<1>2. Command(o) \in States /\ Collected(Command(o))
    <2>1. <<IAC, o>> \in Seq(Byte)
        BY DEF IAC, Byte, Options, WILL, WONT, DO, DONT
    <2> QED
        BY <2>1 DEF Command, State, States, Telnets, Vt100s, Collected
<1>3. x \in Steps
    BY <1>2 DEF Steps, Step
<1>4. \A key : ~Hears(x, key)
    BY <1>1, <1>3, NotHeard DEF Telnets
<1>5. Completes(x) /\ To(x) = InText
    BY <1>1 DEF Completes, To, After
<1>6. Whole(x) = <<IAC, o, c>>
    BY <1>1, AppendToTwo DEF Whole
<1> QED
    BY <1>1, <1>3, <1>4, <1>5, <1>6

EscDigit(d) ==
    State(IF d = 51 THEN "DEL" ELSE IF d = 49 THEN "HOME" ELSE "END", <<ESC, BRACKET, d>>)
Names(sequence, key) ==
    \E known \in Vt100Commands : known[1] = sequence /\ key = <<known[2], 0>>

LEMMA EscSteps ==
    ASSUME NEW c \in Byte
    PROVE  LET x == Step(Esc, c)
           IN  /\ x \in Steps /\ x.from = Esc /\ x.byte = c
               /\ Quiet(x)
               /\ c = BRACKET => To(x) = EscBrac
               /\ c # BRACKET => To(x) = InText
<1> DEFINE x == Step(Esc, c)
<1>1. x.from = Esc /\ x.byte = c /\ x.from.at = "ESC"
    BY DEF Step, Esc, State
<1>2. Esc \in States /\ Collected(Esc)
    <2>1. <<ESC>> \in Seq(Byte)
        BY DEF ESC, Byte
    <2> QED
        BY <2>1 DEF Esc, State, States, Telnets, Vt100s, Collected
<1>3. x \in Steps
    BY <1>2 DEF Steps, Step
<1>4. Quiet(x)
    BY <1>1, <1>3, NotHeard DEF Quiet, IsSize, IsWill, IsType, Completes, Telnets
<1>5. To(x) = IF c = BRACKET THEN EscBrac ELSE InText
    BY <1>1 DEF To, After, EscBrac
<1> QED
    BY <1>1, <1>3, <1>4, <1>5

LEMMA BracketSteps ==
    ASSUME NEW c \in Byte
    PROVE  LET x == Step(EscBrac, c)
           IN  /\ x \in Steps /\ x.from = EscBrac /\ x.byte = c
               /\ ~Completes(x)
               /\ c \notin Finals => Quiet(x)
               /\ c \notin Continues => To(x) = EscBrac
               /\ c \in {49, 51, 52} => To(x) = EscDigit(c)
               /\ c \in Finals => To(x) = InText
               /\ \A key : Hears(x, key) <=> Names(<<ESC, BRACKET, c>>, key)
<1> DEFINE x == Step(EscBrac, c)
<1>1. x.from = EscBrac /\ x.byte = c /\ x.from.at = "ESC_BRAC" /\ x.from.bytes = <<ESC, BRACKET>>
    BY DEF Step, EscBrac, State
<1>2. EscBrac \in States /\ Collected(EscBrac)
    <2>1. <<ESC, BRACKET>> \in Seq(Byte)
        BY DEF ESC, BRACKET, Byte
    <2> QED
        BY <2>1 DEF EscBrac, State, States, Telnets, Vt100s, Collected
<1>3. x \in Steps
    BY <1>2 DEF Steps, Step
<1>4. ~Completes(x)
    BY <1>1 DEF Completes
<1>5. To(x) = IF c \in Finals THEN InText
              ELSE IF c = 51 THEN State("DEL", <<ESC, BRACKET, 51>>)
              ELSE IF c = 49 THEN State("HOME", <<ESC, BRACKET, 49>>)
              ELSE IF c = 52 THEN State("END", <<ESC, BRACKET, 52>>) ELSE EscBrac
    BY <1>1 DEF To, After
<1>6. Whole(x) = <<ESC, BRACKET, c>>
    BY <1>1, AppendToTwo DEF Whole
<1>7. \A key : Hears(x, key) <=> Names(<<ESC, BRACKET, c>>, key)
    BY <1>1, <1>6 DEF Hears, Names
<1>8. c \notin Finals => Quiet(x)
    <2>1. \A known \in Vt100Commands : Len(known[1]) = 3 => known[1][3] \in Finals
        BY DEF Vt100Commands, ESC, BRACKET, TILDE, Finals
    <2>2. Len(<<ESC, BRACKET, c>>) = 3 /\ <<ESC, BRACKET, c>>[3] = c
        OBVIOUS
    <2>3. c \notin Finals => \A key : ~Names(<<ESC, BRACKET, c>>, key)
        BY <2>1, <2>2 DEF Names
    <2> QED
        BY <1>4, <1>7, <2>3 DEF Quiet, IsSize, IsWill, IsType
<1>9. /\ c \notin Continues => To(x) = EscBrac
      /\ c \in {49, 51, 52} => To(x) = EscDigit(c)
      /\ c \in Finals => To(x) = InText
    BY <1>5 DEF Continues, Finals, EscDigit
<1> QED
    BY <1>1, <1>3, <1>4, <1>7, <1>8, <1>9

LEMMA TildeSteps ==
    ASSUME NEW d \in {49, 51, 52}, NEW c \in Byte
    PROVE  LET x == Step(EscDigit(d), c)
           IN  /\ x \in Steps /\ x.from = EscDigit(d) /\ x.byte = c
               /\ ~Completes(x) /\ To(x) = InText
               /\ c # TILDE => Quiet(x)
               /\ \A key : Hears(x, key) <=> Names(<<ESC, BRACKET, d, c>>, key)
<1> DEFINE x == Step(EscDigit(d), c)
<1>1. /\ x.from = EscDigit(d) /\ x.byte = c /\ x.from.at \in {"DEL", "HOME", "END"}
      /\ x.from.bytes = <<ESC, BRACKET, d>>
    BY DEF Step, EscDigit, State
<1>2. EscDigit(d) \in States /\ Collected(EscDigit(d))
    <2>1. <<ESC, BRACKET, d>> \in Seq(Byte)
        BY DEF ESC, BRACKET, Byte
    <2>2. CASE d = 51
        BY <2>1, <2>2 DEF EscDigit, State, States, Telnets, Vt100s, Collected, Digit
    <2>3. CASE d = 49
        BY <2>1, <2>3 DEF EscDigit, State, States, Telnets, Vt100s, Collected, Digit
    <2>4. CASE d = 52
        BY <2>1, <2>4 DEF EscDigit, State, States, Telnets, Vt100s, Collected, Digit
    <2> QED
        BY <2>2, <2>3, <2>4
<1>3. x \in Steps
    BY <1>2 DEF Steps, Step
<1>4. ~Completes(x) /\ To(x) = InText
    BY <1>1 DEF Completes, To, After
<1>5. Whole(x) = <<ESC, BRACKET, d, c>>
    BY <1>1, AppendToThree DEF Whole
<1>6. \A key : Hears(x, key) <=> Names(<<ESC, BRACKET, d, c>>, key)
    BY <1>1, <1>5 DEF Hears, Names
<1>7. c # TILDE => Quiet(x)
    <2>1. \A known \in Vt100Commands : Len(known[1]) = 4 => known[1][4] = TILDE
        BY DEF Vt100Commands, ESC, BRACKET, TILDE
    <2>2. Len(<<ESC, BRACKET, d, c>>) = 4 /\ <<ESC, BRACKET, d, c>>[4] = c
        OBVIOUS
    <2>3. c # TILDE => \A key : ~Names(<<ESC, BRACKET, d, c>>, key)
        BY <2>1, <2>2 DEF Names
    <2> QED
        BY <1>4, <1>6, <2>3 DEF Quiet, IsSize, IsWill, IsType
<1> QED
    BY <1>1, <1>3, <1>4, <1>6, <1>7

-----------------------------------------------------------------------------
(* What a client sends, as paths from text to text.                        *)

LEMMA QuietBytes ==
    ASSUME NEW s, NEW bytes, NEW t, QuietPath(s, bytes, t) PROVE bytes \in Seq(Byte)
<1>1. PICK st : st \in Seq(Steps) /\ Bytes(st) = bytes
    BY DEF QuietPath, Path
<1>2. Len(st) \in Nat /\ \A k \in 1..Len(st) : st[k].byte \in Byte
    BY <1>1 DEF Steps
<1>3. Bytes(st) \in Seq(Byte)
    BY <1>2 DEF Bytes
<1> QED
    BY <1>1, <1>3

LEMMA JoinAssociative ==
    ASSUME NEW p \in Seq(Byte), NEW q \in Seq(Byte), NEW r \in Seq(Byte)
    PROVE  Join(Join(p, q), r) = Join(p, Join(q, r)) /\ Join(p, q) \in Seq(Byte)
BY ConcatAssociative DEF Join

LEMMA JoinProperties ==
    ASSUME NEW p \in Seq(Byte), NEW q \in Seq(Byte),
           NEW m \in Nat, NEW n \in Nat, Len(p) = m, Len(q) = n
    PROVE  /\ Join(p, q) \in Seq(Byte) /\ Len(Join(p, q)) = m + n
           /\ \A k \in 1..m : Join(p, q)[k] = p[k]
           /\ \A k \in (m + 1)..(m + n) : Join(p, q)[k] = q[k - m]
<1>1. Join(p, q) \in Seq(Byte) /\ Len(Join(p, q)) = Len(p) + Len(q)
    BY ConcatProperties DEF Join
<1>2. \A k \in 1..Len(p) : Join(p, q)[k] = p[k]
    BY ConcatProperties DEF Join
<1>3. \A k \in (Len(p) + 1)..(Len(p) + Len(q)) : Join(p, q)[k] = q[k - Len(p)]
    BY ConcatProperties DEF Join
<1>4. Len(Join(p, q)) = m + n
    BY <1>1
<1>5. \A k \in 1..m : Join(p, q)[k] = p[k]
    BY <1>2
<1>6. \A k \in (m + 1)..(m + n) : Join(p, q)[k] = q[k - m]
    BY <1>3
<1> QED
    BY <1>1, <1>4, <1>5, <1>6

LEMMA JoinOnes == ASSUME NEW a \in Byte, NEW b \in Byte PROVE Join(<<a>>, <<b>>) = <<a, b>>
<1>1. Join(<<a>>, <<b>>) \in Seq(Byte) /\ <<a, b>> \in Seq(Byte)
    BY DEF Join
<1>2. /\ Len(Join(<<a>>, <<b>>)) = 2 /\ Len(<<a, b>>) = 2
      /\ \A k \in 1..2 : Join(<<a>>, <<b>>)[k] = <<a, b>>[k]
    BY DEF Join
<1> QED
    BY <1>1, <1>2, SeqEqual

\* Data bytes of a subnegotiation, none of which is IAC.
LEMMA QuietData ==
    ASSUME NEW pre \in Seq(Byte), NEW d \in Seq(Byte), Len(pre) >= 2, Len(pre) + Len(d) <= Longest,
           \A k \in 1..Len(d) : d[k] # IAC
    PROVE  QuietPath(Sub(pre), d, Sub(Join(pre, d)))
<1>1. PICK n, l : n = Len(d) /\ l = Len(pre)
    OBVIOUS
<1>2. n \in Nat /\ l \in Nat /\ l >= 2 /\ l + n <= Longest
    BY <1>1
<1> DEFINE at[k \in 0..n] == pre \o SubSeq(d, 1, k)
<1>3. ASSUME NEW k \in 0..n PROVE at[k] \in Seq(Byte) /\ Len(at[k]) = l + k
    <2>1. SubSeq(d, 1, k) \in Seq(Byte) /\ Len(SubSeq(d, 1, k)) = k
        BY <1>1, <1>2, SubSeqProperties
    <2> QED
        BY <1>1, <2>1, ConcatProperties
<1>4. ASSUME NEW k \in 1..n PROVE at[k] = Append(at[k - 1], d[k])
    <2>1. PICK u : u = SubSeq(d, 1, k - 1)
        OBVIOUS
    <2>2. u \in Seq(Byte) /\ d[k] \in Byte
        BY <1>1, <1>2, <2>1, SubSeqProperties
    <2>3. SubSeq(d, 1, k) = Append(u, d[k])
        <3>1. k \in 1..Len(d) /\ 1 \in 1..Len(d) /\ k \in 1..Len(d)
            BY <1>1, <1>2
        <3>2. SubSeq(d, 1, k) = u \o <<d[k]>>
            BY <2>1, <3>1, SubSeqRecursiveSecond
        <3> QED
            BY <2>2, <3>2, AppendIsConcat
    <2>4. pre \o Append(u, d[k]) = Append(pre \o u, d[k])
        <3>1. pre \o (u \o <<d[k]>>) = (pre \o u) \o <<d[k]>>
            BY SMTT(30), <2>2, ConcatAssociative
        <3> QED
            BY <2>2, <3>1, AppendIsConcat
    <2>5. k \in 0..n /\ k - 1 \in 0..n
        BY <1>2
    <2>6. at[k] = pre \o SubSeq(d, 1, k) /\ at[k - 1] = pre \o SubSeq(d, 1, k - 1)
        BY <2>5
    <2> QED
        BY <2>1, <2>3, <2>4, <2>6
<1>5. at[0] = pre
    <2>1. SubSeq(d, 1, 0) = <<>>
        OBVIOUS
    <2> QED
        BY <1>2, <2>1, ConcatEmptySeq
<1>6. at[n] = Join(pre, d)
    <2>1. SubSeq(d, 1, Len(d)) = d
        OBVIOUS
    <2> QED
        BY <1>1, <1>2, <2>1 DEF Join
<1>7. PICK a : \A k \in 0..n : a[k] = at[k]
    OBVIOUS
<1> HIDE DEF at
<1>8. PICK st : st = [k \in 1..n |-> Step(Sub(a[k - 1]), d[k])]
    OBVIOUS
<1>9. ASSUME NEW k \in 1..n
      PROVE  /\ st[k] \in Steps /\ Quiet(st[k])
             /\ st[k].from = Sub(a[k - 1]) /\ st[k].byte = d[k] /\ To(st[k]) = Sub(a[k])
    <2>1. k - 1 \in 0..n /\ k \in 0..n
        BY <1>2
    <2>2. a[k - 1] \in Seq(Byte) /\ Len(a[k - 1]) = l + (k - 1) /\ d[k] \in Byte /\ d[k] # IAC
        <3>1. a[k - 1] = at[k - 1] /\ at[k - 1] \in Seq(Byte) /\ Len(at[k - 1]) = l + (k - 1)
            BY <1>3, <1>7, <2>1
        <3>2. d[k] \in Byte /\ d[k] # IAC
            BY <1>1
        <3> QED
            BY <3>1, <3>2
    <2>3. Len(a[k - 1]) \in 2..(Longest - 1)
        BY <1>2, <2>2
    <2>4. st[k] = Step(Sub(a[k - 1]), d[k])
        BY <1>8
    <2>5. st[k] \in Steps /\ Quiet(st[k]) /\ To(st[k]) = Sub(Append(a[k - 1], d[k]))
        BY <2>2, <2>3, <2>4, SubSteps
    <2>6. a[k] = Append(a[k - 1], d[k])
        BY <1>4, <1>7, <2>1
    <2> QED
        BY <2>4, <2>5, <2>6 DEF Step
<1>10. st \in Seq(Steps) /\ Len(st) = n
    BY <1>2, <1>8, <1>9
<1>11. Path(Sub(pre), st, Sub(Join(pre, d)))
    <2>1. st = <<>> <=> n = 0
        BY <1>10, EmptySeq
    <2>2. st = <<>> => Sub(pre) = Sub(Join(pre, d))
        BY <1>5, <1>6, <2>1
    <2>3. st # <<>> => st[1].from = Sub(pre) /\ To(st[Len(st)]) = Sub(Join(pre, d))
        <3>1. 0 \in 0..n /\ n \in 0..n /\ (n # 0 => 1 \in 1..n /\ n \in 1..n)
            BY <1>2
        <3>2. a[0] = pre /\ a[n] = Join(pre, d)
            BY <1>5, <1>6, <1>7, <3>1
        <3>3. n # 0 => st[1].from = Sub(a[1 - 1]) /\ To(st[n]) = Sub(a[n])
            BY <1>9, <3>1
        <3> QED
            BY <1>10, <2>1, <3>2, <3>3
    <2>4. ASSUME NEW k \in 1..Len(st), k < Len(st) PROVE st[k + 1].from = To(st[k])
        <3>1. k \in 1..n /\ k + 1 \in 1..n /\ (k + 1) - 1 = k
            BY <1>2, <1>10, <2>4
        <3>2. st[k + 1].from = Sub(a[(k + 1) - 1]) /\ To(st[k]) = Sub(a[k])
            BY <1>9, <3>1
        <3> QED
            BY <3>1, <3>2
    <2> QED
        BY <1>10, <2>2, <2>3, <2>4 DEF Path
<1>12. Bytes(st) = d
    <2>1. Bytes(st) = [k \in 1..n |-> d[k]]
        BY <1>9, <1>10 DEF Bytes
    <2> QED
        BY <1>1, <2>1
<1> QED
    BY <1>9, <1>10, <1>11, <1>12 DEF QuietPath

LEMMA QuietStep ==
    ASSUME NEW s, NEW c \in Byte, NEW t,
           Step(s, c) \in Steps, Quiet(Step(s, c)), To(Step(s, c)) = t
    PROVE  QuietPath(s, <<c>>, t)
<1>1. Step(s, c).from = s /\ Step(s, c).byte = c
    BY DEF Step
<1> QED
    BY <1>1, QuietOne

\* A data byte, which is sent twice if it is IAC, is one byte of the command.
LEMMA QuietEscaped ==
    ASSUME NEW pre \in Seq(Byte), Len(pre) \in 2..(Longest - 2), NEW b \in Byte
    PROVE  QuietPath(Sub(pre), Escaped(b), Sub(Append(pre, b))) /\ Escaped(b) \in Seq(Byte)
<1>1. Len(pre) \in 2..(Longest - 1)
    OBVIOUS
<1>2. PICK whole : whole = Append(pre, b)
    OBVIOUS
<1>3. whole \in Seq(Byte) /\ Len(whole) \in 2..Longest
    <2>1. Len(whole) = Len(pre) + 1 /\ whole \in Seq(Byte)
        BY <1>2, AppendProperties
    <2>2. PICK l : l = Len(pre)
        OBVIOUS
    <2>3. l \in 2..(Longest - 2) /\ Len(whole) = l + 1
        BY <2>1, <2>2
    <2>4. Len(whole) \in 2..Longest
        BY <2>3
    <2> QED
        BY <2>1, <2>4
<1>4. CASE b # IAC
    <2>1. QuietPath(Sub(pre), <<b>>, Sub(whole))
        BY <1>1, <1>2, <1>4, SubSteps, QuietStep
    <2> QED
        BY <1>2, <1>4, <2>1, QuietBytes DEF Escaped
<1>5. CASE b = IAC
    <2>1. QuietPath(Sub(pre), <<b>>, MaybeEnd(whole))
        <3>1. LET x == Step(Sub(pre), b)
              IN  x \in Steps /\ Quiet(x) /\ To(x) = MaybeEnd(whole)
            BY <1>1, <1>2, <1>5, SubSteps
        <3> QED
            BY <3>1, QuietStep
    <2>2. QuietPath(MaybeEnd(whole), <<b>>, Sub(whole))
        <3>1. b # SE
            BY <1>5 DEF IAC, SE
        <3> QED
            BY <1>3, <1>5, <3>1, MaybeEndSteps, QuietStep
    <2>3. QuietPath(Sub(pre), Join(<<b>>, <<b>>), Sub(whole))
        BY <2>1, <2>2, QuietJoin
    <2>4. Join(<<b>>, <<b>>) = <<IAC, IAC>>
        BY <1>5, JoinOnes
    <2> QED
        BY <1>2, <1>5, <2>3, <2>4, QuietBytes DEF Escaped
<1> QED
    BY <1>4, <1>5

LEMMA QuietOpen == QuietPath(InText, <<IAC, SB>>, Sub(<<IAC, SB>>))
<1>1. IAC \in Byte /\ SB \in Byte
    BY DEF IAC, SB, Byte
<1>2. QuietPath(InText, <<IAC>>, Start)
    <2>1. IAC \notin (32..126) \union {BS, DEL}
        BY DEF IAC, BS, DEL
    <2> QED
        BY <1>1, <2>1, TextSteps, QuietStep
<1>3. QuietPath(Start, <<SB>>, Sub(<<IAC, SB>>))
    BY <1>1, StartSteps, QuietStep
<1>4. QuietPath(InText, Join(<<IAC>>, <<SB>>), Sub(<<IAC, SB>>))
    BY <1>2, <1>3, QuietJoin
<1> QED
    BY <1>1, <1>4, JoinOnes

\* Bytes that say something with their last one, which the step x reads.
Loud(bytes, x) ==
    /\ x \in Steps /\ To(x) = InText
    /\ \E pre : QuietPath(InText, pre, x.from) /\ bytes = Join(pre, <<x.byte>>)

\* The end of a subnegotiation.
LEMMA LoudEnd ==
    ASSUME NEW bytes, NEW pre \in Seq(Byte), Len(pre) \in 2..(Longest - 1), QuietPath(InText, bytes, Sub(pre))
    PROVE  LET x == Step(MaybeEnd(Append(pre, IAC)), SE)
           IN  /\ Loud(Join(bytes, <<IAC, SE>>), x)
               /\ \A key : ~Hears(x, key)
               /\ Completes(x) /\ Whole(x) = Append(Append(pre, IAC), SE)
<1> DEFINE whole == Append(pre, IAC)
           x == Step(MaybeEnd(whole), SE)
<1>1. IAC \in Byte /\ SE \in Byte /\ IAC # SE
    BY DEF IAC, SE, Byte
<1>2. whole \in Seq(Byte) /\ Len(whole) = Len(pre) + 1
    BY <1>1
<1>3. Len(whole) \in 2..Longest
    <2>1. PICK l : l = Len(pre)
        OBVIOUS
    <2>2. l \in 2..(Longest - 1) /\ Len(whole) = l + 1
        BY <1>2, <2>1
    <2> QED
        BY <2>2
<1>4. QuietPath(Sub(pre), <<IAC>>, MaybeEnd(whole))
    BY <1>1, SubSteps, QuietStep
<1>5. QuietPath(InText, Join(bytes, <<IAC>>), MaybeEnd(whole))
    BY <1>4, QuietJoin
<1> HIDE DEF whole
<1>6. /\ x \in Steps /\ x.from = MaybeEnd(whole) /\ x.byte = SE /\ To(x) = InText
      /\ Completes(x) /\ Whole(x) = Append(whole, SE) /\ \A key : ~Hears(x, key)
    BY <1>1, <1>2, <1>3, MaybeEndSteps
<1> HIDE DEF x
<1>7. Join(bytes, <<IAC, SE>>) = Join(Join(bytes, <<IAC>>), <<SE>>)
    <2>1. PICK p, q : p = <<IAC>> /\ q = <<SE>>
        OBVIOUS
    <2>2. bytes \in Seq(Byte) /\ p \in Seq(Byte) /\ q \in Seq(Byte)
        BY <1>1, <2>1, QuietBytes
    <2>3. Join(p, q) = <<IAC, SE>>
        BY <1>1, <2>1, JoinOnes
    <2>4. Join(Join(bytes, p), q) = Join(bytes, Join(p, q))
        BY <2>2, JoinAssociative
    <2> QED
        BY <2>1, <2>3, <2>4
<1>8. Loud(Join(bytes, <<IAC, SE>>), x)
    BY <1>5, <1>6, <1>7 DEF Loud
<1> QED
    BY <1>6, <1>8 DEF x, whole

LEMMA JoinOne ==
    ASSUME NEW s \in Seq(Byte), NEW c \in Byte
    PROVE  Join(s, <<c>>) = Append(s, c) /\ Append(s, c) \in Seq(Byte)
BY AppendIsConcat, AppendProperties DEF Join

LEMMA PrefixOfThree ==
    ASSUME NEW a \in Byte, NEW b \in Byte, NEW c \in Byte, NEW w \in Seq(Byte)
    PROVE  IsPrefix(<<a, b, c>>, w) <=> Len(w) >= 3 /\ w[1] = a /\ w[2] = b /\ w[3] = c
<1>1. PICK p : p = <<a, b, c>>
    OBVIOUS
<1>2. p \in Seq(Byte) /\ Len(p) = 3 /\ p[1] = a /\ p[2] = b /\ p[3] = c
    BY <1>1
<1>3. SubSeq(p, 1, 3) = p
    BY <1>2, SubSeqFull
<1>4. ASSUME Len(w) >= 3
      PROVE  SubSeq(w, 1, 3) = p <=> w[1] = a /\ w[2] = b /\ w[3] = c
    <2>1. PICK v : v = SubSeq(w, 1, 3)
        OBVIOUS
    <2>2. v \in Seq(Byte) /\ Len(v) = 3 /\ v[1] = w[1] /\ v[2] = w[2] /\ v[3] = w[3]
        BY <1>4, <2>1, SubSeqProperties
    <2>3. ASSUME v[1] = a, v[2] = b, v[3] = c PROVE v = p
        <3>1. \A k \in 1..3 : k = 1 \/ k = 2 \/ k = 3
            OBVIOUS
        <3> QED
            BY <1>2, <2>2, <2>3, <3>1, SeqEqual
    <2> QED
        BY <1>2, <2>1, <2>2, <2>3
<1> QED
    BY <1>1, <1>2, <1>3, <1>4 DEF IsPrefix

LEMMA PrefixOfFour ==
    ASSUME NEW a \in Byte, NEW b \in Byte, NEW c \in Byte, NEW d \in Byte, NEW w \in Seq(Byte)
    PROVE  IsPrefix(<<a, b, c, d>>, w) <=>
              Len(w) >= 4 /\ w[1] = a /\ w[2] = b /\ w[3] = c /\ w[4] = d
<1>1. PICK p : p = <<a, b, c, d>>
    OBVIOUS
<1>2. p \in Seq(Byte) /\ Len(p) = 4 /\ p[1] = a /\ p[2] = b /\ p[3] = c /\ p[4] = d
    BY <1>1
<1>3. SubSeq(p, 1, 4) = p
    BY <1>2, SubSeqFull
<1>4. ASSUME Len(w) >= 4
      PROVE  SubSeq(w, 1, 4) = p <=> w[1] = a /\ w[2] = b /\ w[3] = c /\ w[4] = d
    <2>1. PICK v : v = SubSeq(w, 1, 4)
        OBVIOUS
    <2>2. /\ v \in Seq(Byte) /\ Len(v) = 4
          /\ v[1] = w[1] /\ v[2] = w[2] /\ v[3] = w[3] /\ v[4] = w[4]
        BY <1>4, <2>1, SubSeqProperties
    <2>3. ASSUME v[1] = a, v[2] = b, v[3] = c, v[4] = d PROVE v = p
        <3>1. \A k \in 1..4 : k = 1 \/ k = 2 \/ k = 3 \/ k = 4
            OBVIOUS
        <3> QED
            BY <1>2, <2>2, <2>3, <3>1, SeqEqual
    <2> QED
        BY <1>2, <2>1, <2>2, <2>3
<1> QED
    BY <1>1, <1>2, <1>3, <1>4 DEF IsPrefix

\* The three commands that processTelnetCommand knows, by their bytes.
LEMMA Kinds ==
    ASSUME NEW w \in Seq(Byte)
    PROVE  /\ IsPrefix(IAC_SB_NAWS, w) <=>
                 Len(w) >= 3 /\ w[1] = IAC /\ w[2] = SB /\ w[3] = NAWS
           /\ IsPrefix(IAC_WILL_TERMINAL_TYPE, w) <=>
                 Len(w) >= 3 /\ w[1] = IAC /\ w[2] = WILL /\ w[3] = TERMINAL_TYPE
           /\ IsPrefix(IAC_SB_TERMINAL_TYPE_IS, w) <=>
                 Len(w) >= 4 /\ w[1] = IAC /\ w[2] = SB /\ w[3] = TERMINAL_TYPE /\ w[4] = IS
<1>1. /\ IAC \in Byte /\ SB \in Byte /\ NAWS \in Byte /\ WILL \in Byte
      /\ TERMINAL_TYPE \in Byte /\ IS \in Byte
    BY DEF Byte, IAC, SB, NAWS, WILL, TERMINAL_TYPE, IS
<1>2. IsPrefix(<<IAC, SB, NAWS>>, w) <=>
         Len(w) >= 3 /\ w[1] = IAC /\ w[2] = SB /\ w[3] = NAWS
    BY <1>1, PrefixOfThree
<1>3. IsPrefix(<<IAC, WILL, TERMINAL_TYPE>>, w) <=>
         Len(w) >= 3 /\ w[1] = IAC /\ w[2] = WILL /\ w[3] = TERMINAL_TYPE
    BY <1>1, PrefixOfThree
<1>4. IsPrefix(<<IAC, SB, TERMINAL_TYPE, IS>>, w) <=>
         Len(w) >= 4 /\ w[1] = IAC /\ w[2] = SB /\ w[3] = TERMINAL_TYPE /\ w[4] = IS
    BY <1>1, PrefixOfFour
<1> QED
    BY <1>2, <1>3, <1>4 DEF IAC_SB_NAWS, IAC_WILL_TERMINAL_TYPE, IAC_SB_TERMINAL_TYPE_IS

LEMMA OneKind ==
    ASSUME NEW w \in Seq(Byte)
    PROVE  /\ ~(IsPrefix(IAC_SB_NAWS, w) /\ IsPrefix(IAC_WILL_TERMINAL_TYPE, w))
           /\ ~(IsPrefix(IAC_SB_NAWS, w) /\ IsPrefix(IAC_SB_TERMINAL_TYPE_IS, w))
           /\ ~(IsPrefix(IAC_WILL_TERMINAL_TYPE, w) /\ IsPrefix(IAC_SB_TERMINAL_TYPE_IS, w))
BY Kinds DEF SB, WILL, NAWS, TERMINAL_TYPE

LEMMA LoudWill ==
    LET x == Step(Command(WILL), TERMINAL_TYPE)
    IN  Loud(IAC_WILL_TERMINAL_TYPE, x) /\ IsWill(x) /\ \A key : ~Hears(x, key)
<1> DEFINE x == Step(Command(WILL), TERMINAL_TYPE)
<1>1. /\ IAC \in Byte /\ WILL \in Byte /\ TERMINAL_TYPE \in Byte /\ WILL \in Options
      /\ IAC \notin (32..126) \union {BS, DEL}
    BY DEF IAC, WILL, TERMINAL_TYPE, Byte, Options, BS, DEL
<1>2. QuietPath(InText, <<IAC>>, Start)
    BY <1>1, TextSteps, QuietStep
<1>3. QuietPath(Start, <<WILL>>, Command(WILL))
    BY <1>1, StartSteps, QuietStep
<1>4. QuietPath(InText, Join(<<IAC>>, <<WILL>>), Command(WILL))
    BY <1>2, <1>3, QuietJoin
<1>5. /\ x \in Steps /\ x.from = Command(WILL) /\ x.byte = TERMINAL_TYPE /\ To(x) = InText
      /\ Completes(x) /\ Whole(x) = <<IAC, WILL, TERMINAL_TYPE>> /\ \A key : ~Hears(x, key)
    BY <1>1, CommandSteps
<1> HIDE DEF x
<1>6. Join(Join(<<IAC>>, <<WILL>>), <<TERMINAL_TYPE>>) = <<IAC, WILL, TERMINAL_TYPE>>
    <2>1. PICK p : p = <<IAC, WILL>>
        OBVIOUS
    <2>2. p \in Seq(Byte) /\ Join(<<IAC>>, <<WILL>>) = p
        BY <1>1, <2>1, JoinOnes
    <2>3. Join(p, <<TERMINAL_TYPE>>) = Append(p, TERMINAL_TYPE)
        BY <1>1, <2>2, JoinOne
    <2>4. Append(p, TERMINAL_TYPE) = <<IAC, WILL, TERMINAL_TYPE>>
        BY <2>1, AppendToTwo
    <2> QED
        BY <2>2, <2>3, <2>4
<1>7. Loud(IAC_WILL_TERMINAL_TYPE, x)
    BY <1>4, <1>5, <1>6 DEF Loud, IAC_WILL_TERMINAL_TYPE
<1>8. IsWill(x)
    <2>1. PICK w : w = <<IAC, WILL, TERMINAL_TYPE>>
        OBVIOUS
    <2>2. w \in Seq(Byte) /\ Len(w) = 3 /\ w[1] = IAC /\ w[2] = WILL /\ w[3] = TERMINAL_TYPE
        BY <1>1, <2>1
    <2>3. IsPrefix(IAC_WILL_TERMINAL_TYPE, w)
        BY <2>2, Kinds
    <2> QED
        BY <1>5, <2>1, <2>3 DEF IsWill
<1> QED
    BY <1>5, <1>7, <1>8 DEF x

LEMMA Grow ==
    ASSUME NEW s \in Seq(Byte), NEW n \in Nat, Len(s) = n, NEW c \in Byte
    PROVE  /\ Append(s, c) \in Seq(Byte) /\ Len(Append(s, c)) = n + 1
           /\ \A k \in 1..n : Append(s, c)[k] = s[k]
           /\ Append(s, c)[n + 1] = c
BY AppendProperties

\* The window's size that a command holds.
Two(a, b) == a * 256 + b
Width(w) == Two(w[4], w[5])
Height(w) == Two(w[6], w[7])
SizeMessage(a, b, c, d) ==
    Join(Join(Join(Join(Join(IAC_SB_NAWS, Escaped(a)), Escaped(b)), Escaped(c)), Escaped(d)),
         <<IAC, SE>>)

\* Its last byte, and no other, is heard as a size.
Sized(message, width, height) ==
    \E x : /\ Loud(message, x) /\ IsSize(x) /\ \A key : ~Hears(x, key)
           /\ Width(Whole(x)) = width /\ Height(Whole(x)) = height

LEMMA LoudSize ==
    ASSUME NEW a \in Byte, NEW b \in Byte, NEW c \in Byte, NEW d \in Byte
    PROVE  Sized(SizeMessage(a, b, c, d), Two(a, b), Two(c, d))
<1>1. IAC \in Byte /\ SB \in Byte /\ NAWS \in Byte /\ SE \in Byte /\ NAWS # IAC
    BY DEF IAC, SB, NAWS, SE, Byte
<1>2. PICK p : p = IAC_SB_NAWS
    OBVIOUS
<1>3. /\ p \in Seq(Byte) /\ Len(p) = 3 /\ p[1] = IAC /\ p[2] = SB /\ p[3] = NAWS
      /\ Len(p) \in 2..(Longest - 2)
    BY <1>1, <1>2 DEF IAC_SB_NAWS
<1>4. QuietPath(InText, p, Sub(p))
    <2>1. PICK o : o = <<IAC, SB>>
        OBVIOUS
    <2>2. o \in Seq(Byte) /\ Len(o) \in 2..(Longest - 1)
        BY <1>1, <2>1
    <2>3. Append(o, NAWS) = p
        BY <1>2, <2>1, AppendToTwo DEF IAC_SB_NAWS
    <2>4. QuietPath(Sub(o), <<NAWS>>, Sub(p))
        BY <1>1, <2>2, <2>3, SubSteps, QuietStep
    <2>5. Join(o, <<NAWS>>) = p
        BY <1>1, <2>2, <2>3, JoinOne
    <2> QED
        BY <2>1, <2>4, <2>5, QuietOpen, QuietJoin
<1>5. PICK pa : pa = Append(p, a)
    OBVIOUS
<1>6. /\ pa \in Seq(Byte) /\ Len(pa) = 4 /\ \A k \in 1..3 : pa[k] = p[k]
      /\ pa[4] = a /\ Len(pa) \in 2..(Longest - 2)
    <2>1. /\ pa \in Seq(Byte) /\ Len(pa) = 3 + 1 /\ \A k \in 1..3 : pa[k] = p[k]
          /\ pa[3 + 1] = a
        BY <1>3, <1>5, Grow
    <2> QED
        BY <2>1
<1>7. PICK pb : pb = Append(pa, b)
    OBVIOUS
<1>8. /\ pb \in Seq(Byte) /\ Len(pb) = 5 /\ \A k \in 1..4 : pb[k] = pa[k]
      /\ pb[5] = b /\ Len(pb) \in 2..(Longest - 2)
    <2>1. /\ pb \in Seq(Byte) /\ Len(pb) = 4 + 1 /\ \A k \in 1..4 : pb[k] = pa[k]
          /\ pb[4 + 1] = b
        BY <1>6, <1>7, Grow
    <2> QED
        BY <2>1
<1>9. PICK pc : pc = Append(pb, c)
    OBVIOUS
<1>10. /\ pc \in Seq(Byte) /\ Len(pc) = 6 /\ \A k \in 1..5 : pc[k] = pb[k]
       /\ pc[6] = c /\ Len(pc) \in 2..(Longest - 2)
    <2>1. /\ pc \in Seq(Byte) /\ Len(pc) = 5 + 1 /\ \A k \in 1..5 : pc[k] = pb[k]
          /\ pc[5 + 1] = c
        BY <1>8, <1>9, Grow
    <2> QED
        BY <2>1
<1>11. PICK pd : pd = Append(pc, d)
    OBVIOUS
<1>12. /\ pd \in Seq(Byte) /\ Len(pd) = 7 /\ \A k \in 1..6 : pd[k] = pc[k]
       /\ pd[7] = d /\ Len(pd) \in 2..(Longest - 1)
    <2>1. /\ pd \in Seq(Byte) /\ Len(pd) = 6 + 1 /\ \A k \in 1..6 : pd[k] = pc[k]
          /\ pd[6 + 1] = d
        BY <1>10, <1>11, Grow
    <2> QED
        BY <2>1
<1>13. PICK pe : pe = Append(pd, IAC)
    OBVIOUS
<1>14. pe \in Seq(Byte) /\ Len(pe) = 8 /\ \A k \in 1..7 : pe[k] = pd[k]
    <2>1. /\ pe \in Seq(Byte) /\ Len(pe) = 7 + 1 /\ \A k \in 1..7 : pe[k] = pd[k]
          /\ pe[7 + 1] = IAC
        BY <1>1, <1>12, <1>13, Grow
    <2> QED
        BY <2>1
<1>15. PICK w : w = Append(pe, SE)
    OBVIOUS
<1>16. w \in Seq(Byte) /\ Len(w) = 9 /\ \A k \in 1..7 : w[k] = pd[k]
    <2>1. /\ w \in Seq(Byte) /\ Len(w) = 8 + 1 /\ \A k \in 1..8 : w[k] = pe[k]
          /\ w[8 + 1] = SE
        BY <1>1, <1>14, <1>15, Grow
    <2> QED
        BY <2>1, <1>14
<1>17. QuietPath(InText, Join(p, Escaped(a)), Sub(pa))
    BY <1>3, <1>4, <1>5, QuietEscaped, QuietJoin
<1>18. QuietPath(InText, Join(Join(p, Escaped(a)), Escaped(b)), Sub(pb))
    BY <1>6, <1>7, <1>17, QuietEscaped, QuietJoin
<1>19. QuietPath(InText, Join(Join(Join(p, Escaped(a)), Escaped(b)), Escaped(c)), Sub(pc))
    BY <1>8, <1>9, <1>18, QuietEscaped, QuietJoin
<1>20. PICK bytes : bytes = Join(Join(Join(Join(p, Escaped(a)), Escaped(b)), Escaped(c)), Escaped(d))
    OBVIOUS
<1>21. QuietPath(InText, bytes, Sub(pd))
    BY <1>10, <1>11, <1>19, <1>20, QuietEscaped, QuietJoin
<1>22. PICK x : x = Step(MaybeEnd(Append(pd, IAC)), SE)
    OBVIOUS
<1>23. /\ Loud(Join(bytes, <<IAC, SE>>), x)
       /\ \A key : ~Hears(x, key)
       /\ Completes(x) /\ Whole(x) = w
    BY <1>12, <1>13, <1>15, <1>21, <1>22, LoudEnd
<1>24. /\ w[1] = IAC /\ w[2] = SB /\ w[3] = NAWS
       /\ w[4] = a /\ w[5] = b /\ w[6] = c /\ w[7] = d
    <2>1. w[1] = p[1] /\ w[2] = p[2] /\ w[3] = p[3]
        BY <1>6, <1>8, <1>10, <1>12, <1>16
    <2>2. w[4] = pa[4] /\ w[5] = pb[5] /\ w[6] = pc[6] /\ w[7] = pd[7]
        BY <1>6, <1>8, <1>10, <1>12, <1>16
    <2> QED
        BY <1>3, <1>6, <1>8, <1>10, <1>12, <2>1, <2>2
<1>25. IsSize(x)
    <2>1. IsPrefix(IAC_SB_NAWS, w)
        BY <1>16, <1>24, Kinds
    <2> QED
        BY <1>23, <2>1 DEF IsSize
<1>26. Loud(SizeMessage(a, b, c, d), x)
    BY <1>2, <1>20, <1>23 DEF SizeMessage
<1>27. Width(Whole(x)) = Two(a, b) /\ Height(Whole(x)) = Two(c, d)
    BY <1>23, <1>24 DEF Width, Height
<1> QED
    BY <1>23, <1>25, <1>26, <1>27 DEF Sized

TypeMessage(name) == Join(Join(IAC_SB_TERMINAL_TYPE_IS, name), <<IAC, SE>>)

LEMMA LoudType ==
    ASSUME NEW name \in Seq(Byte), Len(name) \in 1..(Longest - 5),
           \A k \in 1..Len(name) : name[k] \notin {IAC, 0}
    PROVE  \E x : /\ Loud(TypeMessage(name), x) /\ IsType(x) /\ \A key : ~Hears(x, key)
                  /\ TerminalName(Whole(x)) = UpperCase(name)
<1>1. /\ IAC \in Byte /\ SB \in Byte /\ SE \in Byte /\ TERMINAL_TYPE \in Byte /\ IS \in Byte
      /\ TERMINAL_TYPE # IAC /\ IS # IAC /\ SE # IAC
    BY DEF IAC, SB, SE, TERMINAL_TYPE, IS, Byte
<1>2. PICK n : n = Len(name)
    OBVIOUS
<1>3. n \in 1..(Longest - 5) /\ n \in Nat /\ Len(name) = n /\ \A k \in 1..n : name[k] \notin {IAC, 0}
    <2>1. n \in 1..(Longest - 5)
        BY <1>2
    <2>2. n \in Nat
        BY <1>2
    <2>3. Len(name) = n /\ \A k \in 1..n : name[k] \notin {IAC, 0}
        BY <1>2
    <2> QED
        BY <2>1, <2>2, <2>3
<1>4. PICK p : p = IAC_SB_TERMINAL_TYPE_IS
    OBVIOUS
<1>5. /\ p \in Seq(Byte) /\ Len(p) = 4
      /\ p[1] = IAC /\ p[2] = SB /\ p[3] = TERMINAL_TYPE /\ p[4] = IS
    BY <1>1, <1>4 DEF IAC_SB_TERMINAL_TYPE_IS
<1>6. QuietPath(InText, p, Sub(p))
    <2>1. PICK o, q : o = <<IAC, SB>> /\ q = <<TERMINAL_TYPE, IS>>
        OBVIOUS
    <2>2. /\ o \in Seq(Byte) /\ Len(o) = 2 /\ q \in Seq(Byte) /\ Len(q) = 2
          /\ \A k \in 1..2 : q[k] # IAC
        BY <1>1, <2>1
    <2>3. Join(o, q) = p
        <3>1. /\ Join(o, q) \in Seq(Byte) /\ Len(Join(o, q)) = 4
              /\ \A k \in 1..4 : Join(o, q)[k] = p[k]
            BY <1>5, <2>1, <2>2 DEF Join
        <3> QED
            BY <1>5, <3>1, SeqEqual
    <2>4. QuietPath(Sub(o), q, Sub(p))
        <3>1. Len(o) >= 2 /\ Len(o) + Len(q) <= Longest /\ \A k \in 1..Len(q) : q[k] # IAC
            BY <2>2
        <3> QED
            BY <2>2, <2>3, <3>1, QuietData
    <2> QED
        BY <2>1, <2>3, <2>4, QuietOpen, QuietJoin
<1>7. PICK pn : pn = Join(p, name)
    OBVIOUS
<1>8. /\ pn \in Seq(Byte) /\ Len(pn) = 4 + n
      /\ \A k \in 1..4 : pn[k] = p[k]
      /\ \A k \in 5..(4 + n) : pn[k] = name[k - 4]
    <2>1. /\ Join(p, name) \in Seq(Byte) /\ Len(Join(p, name)) = 4 + n
          /\ \A k \in 1..4 : Join(p, name)[k] = p[k]
          /\ \A k \in (4 + 1)..(4 + n) : Join(p, name)[k] = name[k - 4]
        <3>1. PICK m \in Nat : m = 4
            OBVIOUS
        <3>2. Len(p) = m /\ Len(name) = n /\ p \in Seq(Byte) /\ n \in Nat
            BY <1>3, <1>5, <3>1
        <3>3. /\ Join(p, name) \in Seq(Byte) /\ Len(Join(p, name)) = m + n
              /\ \A k \in 1..m : Join(p, name)[k] = p[k]
              /\ \A k \in (m + 1)..(m + n) : Join(p, name)[k] = name[k - m]
            BY <3>2, JoinProperties
        <3> QED
            BY <3>1, <3>3
    <2> QED
        BY <1>7, <2>1
<1>9. QuietPath(InText, pn, Sub(pn))
    <2>1. Len(p) >= 2 /\ Len(p) + Len(name) <= Longest /\ \A k \in 1..Len(name) : name[k] # IAC
        BY <1>3, <1>5
    <2>2. QuietPath(Sub(p), name, Sub(pn))
        BY <1>3, <1>5, <1>7, <2>1, QuietData
    <2> QED
        BY <1>6, <1>7, <2>2, QuietJoin
<1>10. PICK pe : pe = Append(pn, IAC)
    OBVIOUS
<1>11. /\ pe \in Seq(Byte) /\ Len(pe) = 5 + n /\ pe[5 + n] = IAC
       /\ \A k \in 1..(4 + n) : pe[k] = pn[k]
    BY <1>1, <1>3, <1>8, <1>10, AppendProperties
<1>12. PICK w : w = Append(pe, SE)
    OBVIOUS
<1>13. /\ w \in Seq(Byte) /\ Len(w) = 6 + n /\ w[5 + n] = IAC /\ w[6 + n] = SE
       /\ \A k \in 1..(4 + n) : w[k] = pn[k]
    BY <1>1, <1>3, <1>11, <1>12, AppendProperties
<1>14. PICK x : x = Step(MaybeEnd(Append(pn, IAC)), SE)
    OBVIOUS
<1>15. /\ Loud(Join(pn, <<IAC, SE>>), x)
       /\ \A key : ~Hears(x, key)
       /\ Completes(x) /\ Whole(x) = w
    <2>1. Len(pn) \in 2..(Longest - 1)
        BY <1>3, <1>8
    <2> QED
        BY <1>8, <1>9, <1>10, <1>12, <1>14, <2>1, LoudEnd
<1>16. IsType(x)
    <2>1. \A k \in 1..4 : w[k] = p[k]
        BY <1>3, <1>8, <1>13
    <2>2. w[1] = IAC /\ w[2] = SB /\ w[3] = TERMINAL_TYPE /\ w[4] = IS /\ Len(w) >= 4
        BY <1>3, <1>5, <1>13, <2>1
    <2>3. IsPrefix(IAC_SB_TERMINAL_TYPE_IS, w)
        BY <1>13, <2>2, Kinds
    <2> QED
        BY <1>15, <2>3 DEF IsType
<1>17. ASSUME NEW k \in 1..n PROVE w[k + 4] = name[k]
    <2>1. k + 4 \in 5..(4 + n) /\ k + 4 \in 1..(4 + n) /\ (k + 4) - 4 = k
        BY <1>3
    <2> QED
        BY <1>8, <1>13, <2>1
<1>18. TerminalName(w) = UpperCase(name)
    <2> DEFINE IsEnd(k) == w[k] \in {IAC, 0} /\ \A j \in 5..(k - 1) : w[j] \notin {IAC, 0}
    <2>1. ASSUME NEW k \in 5..(4 + n) PROVE w[k] \notin {IAC, 0}
        <3>1. k - 4 \in 1..n /\ (k - 4) + 4 = k
            BY <1>3
        <3> QED
            BY <1>3, <1>17, <3>1
    <2>2. 5 + n \in 5..Len(w) /\ IsEnd(5 + n)
        BY <1>3, <1>13, <2>1
    <2>3. ASSUME NEW k \in 5..Len(w), IsEnd(k) PROVE k = 5 + n
        <3>1. ~(k <= 4 + n)
            BY <1>3, <2>1, <2>3
        <3>2. ~(k > 5 + n)
            BY <1>3, <1>13, <2>2, <2>3
        <3> QED
            BY <1>3, <1>13, <3>1, <3>2
    <2> HIDE DEF IsEnd
    <2>4. (CHOOSE k \in 5..Len(w) : IsEnd(k)) = 5 + n
        BY <2>2, <2>3
    <2>5. TerminalName(w) =
            [k \in 1..n |-> IF w[k + 4] \in 97..122 THEN w[k + 4] - 32 ELSE w[k + 4]]
        <3>1. (5 + n) - 5 = n
            BY <1>3
        <3> QED
            BY <2>4, <3>1 DEF TerminalName, NameEnd, IsEnd
    <2>6. DOMAIN name = 1..n
        BY <1>2, <1>3
    <2>7. UpperCase(name) =
            [k \in 1..n |-> IF name[k] \in 97..122 THEN name[k] - 32 ELSE name[k]]
        BY <2>6 DEF UpperCase
    <2> QED
        <3>1. \A k \in 1..n : w[k + 4] = name[k]
            BY <1>17
        <3> QED
            BY <2>5, <2>7, <3>1
<1>19. Loud(TypeMessage(name), x)
    BY <1>4, <1>7, <1>15 DEF TypeMessage
<1> QED
    BY <1>15, <1>16, <1>18, <1>19

LEMMA SubSeqGrow ==
    ASSUME NEW s \in Seq(Byte), NEW n \in 1..Len(s)
    PROVE  SubSeq(s, 1, n) = Append(SubSeq(s, 1, n - 1), s[n]) /\ SubSeq(s, 1, n) \in Seq(Byte)
<1>1. 1 \in 1..Len(s) /\ n \in 1..Len(s) /\ s[n] \in Byte
    OBVIOUS
<1>2. SubSeq(s, 1, n) = SubSeq(s, 1, n - 1) \o <<s[n]>>
    BY <1>1, SubSeqRecursiveSecond
<1>3. PICK u : u = SubSeq(s, 1, n - 1)
    OBVIOUS
<1>4. u \in Seq(Byte)
    BY <1>3, SubSeqProperties
<1>5. SubSeq(s, 1, n) = Append(u, s[n])
    BY <1>1, <1>2, <1>3, <1>4, AppendIsConcat
<1>6. SubSeq(s, 1, n) \in Seq(Byte)
    BY <1>1, <1>4, <1>5, AppendProperties
<1> QED
    BY <1>3, <1>5, <1>6

LEMMA TwoBytes ==
    ASSUME NEW s \in Seq(Byte), Len(s) = 2 PROVE s = <<s[1], s[2]>>
<1>1. PICK t : t = <<s[1], s[2]>>
    OBVIOUS
<1>2. t \in Seq(Byte) /\ Len(t) = 2 /\ \A k \in 1..2 : s[k] = t[k]
    BY <1>1
<1> QED
    BY <1>1, <1>2, SeqEqual

LEMMA ThreeBytes ==
    ASSUME NEW s \in Seq(Byte), Len(s) = 3 PROVE s = <<s[1], s[2], s[3]>>
<1>1. PICK t : t = <<s[1], s[2], s[3]>>
    OBVIOUS
<1>2. t \in Seq(Byte) /\ Len(t) = 3 /\ \A k \in 1..3 : s[k] = t[k]
    <2>1. s[1] \in Byte /\ s[2] \in Byte /\ s[3] \in Byte
        BY SMTT(30), ElementOfSeq
    <2>2. t \in Seq(Byte) /\ Len(t) = 3 /\ t[1] = s[1] /\ t[2] = s[2] /\ t[3] = s[3]
        BY <1>1, <2>1
    <2>3. \A k \in 1..3 : k = 1 \/ k = 2 \/ k = 3
        OBVIOUS
    <2> QED
        BY <2>2, <2>3
<1> QED
    BY <1>1, <1>2, SeqEqual

\* A key's sequence up to the byte that says which it is.
LEMMA QuietParameters ==
    ASSUME NEW bytes \in Seq(Byte), NEW rest \in Seq(Byte), Parameters(bytes, rest)
    PROVE  \E pre : QuietPath(InText, pre, EscBrac) /\ bytes = Join(pre, rest)
<1>1. PICK l, r, n : l = Len(bytes) /\ r = Len(rest) /\ n = l - r
    OBVIOUS
<1>2. l \in Nat /\ r \in Nat
    BY <1>1
<1>3. /\ n \in Nat /\ n >= 2 /\ n <= l /\ bytes[1] = ESC /\ bytes[2] = BRACKET
      /\ \A k \in 3..n : bytes[k] \notin Continues
      /\ SubSeq(bytes, n + 1, l) = rest
    BY <1>1, <1>2 DEF Parameters
<1>4. PICK o, d, p : o = SubSeq(bytes, 1, 2) /\ d = SubSeq(bytes, 3, n) /\ p = SubSeq(bytes, 1, n)
    OBVIOUS
<1>5. ESC \in Byte /\ BRACKET \in Byte /\ ESC \notin (32..126) \union {BS, DEL}
    BY DEF ESC, BRACKET, Byte, BS, DEL
<1>6. o = <<ESC, BRACKET>>
    <2>1. o \in Seq(Byte) /\ Len(o) = 2 /\ o[1] = bytes[1] /\ o[2] = bytes[2]
        BY <1>1, <1>2, <1>3, <1>4, SubSeqProperties
    <2> QED
        BY <1>3, <2>1, TwoBytes
<1>7. QuietPath(InText, o, EscBrac)
    <2>1. QuietPath(InText, <<ESC>>, Esc)
        BY <1>5, TextSteps, QuietStep
    <2>2. QuietPath(Esc, <<BRACKET>>, EscBrac)
        BY <1>5, EscSteps, QuietStep
    <2>3. QuietPath(InText, Join(<<ESC>>, <<BRACKET>>), EscBrac)
        BY <2>1, <2>2, QuietJoin
    <2> QED
        BY <1>5, <1>6, <2>3, JoinOnes
<1>8. QuietPath(EscBrac, d, EscBrac)
    <2>1. d \in Seq(Byte) /\ Len(d) = n - 2 /\ \A k \in 1..(n - 2) : d[k] = bytes[k + 2]
        BY <1>1, <1>2, <1>3, <1>4, SubSeqProperties
    <2>2. ASSUME NEW k \in 1..(n - 2)
          PROVE  To(Step(EscBrac, d[k])) = EscBrac /\ Quiet(Step(EscBrac, d[k]))
        <3>1. k + 2 \in 3..n
            BY <1>3
        <3>2. d[k] \notin Continues /\ d[k] \in Byte
            <4>1. bytes[k + 2] \notin Continues
                BY <1>3, <3>1
            <4>2. d[k] = bytes[k + 2]
                BY <2>1
            <4>3. d[k] \in Byte
                BY <1>3, <2>1
            <4> QED
                BY <4>1, <4>2, <4>3
        <3>3. d[k] \notin Finals
            BY <3>2 DEF Continues, Finals
        <3> QED
            BY <3>2, <3>3, BracketSteps
    <2>3. EscBrac \in States /\ Collected(EscBrac)
        <3>1. LET x == Step(EscBrac, 0) IN x \in Steps /\ x.from = EscBrac
            <4>1. 0 \in Byte
                BY DEF Byte
            <4> QED
                BY <4>1, BracketSteps
        <3> QED
            BY <3>1 DEF Steps
    <2> QED
        BY <2>1, <2>2, <2>3, QuietLoop
<1>9. p = Join(o, d)
    <2>1. 1 \in 1..(Len(bytes) + 1) /\ 2 \in (1 - 1)..Len(bytes) /\ n \in 2..Len(bytes)
        BY <1>1, <1>2, <1>3
    <2>2. SubSeq(bytes, 1, 2) \o SubSeq(bytes, 2 + 1, n) = SubSeq(bytes, 1, n)
        BY <2>1, ConcatAdjacentSubSeq
    <2>3. 2 + 1 = 3
        OBVIOUS
    <2> QED
        BY <1>4, <2>2, <2>3 DEF Join
<1>10. bytes = Join(p, rest)
    <2>1. 1 \in 1..(Len(bytes) + 1) /\ n \in (1 - 1)..Len(bytes) /\ l \in n..Len(bytes)
        BY <1>1, <1>2, <1>3
    <2>2. SubSeq(bytes, 1, n) \o SubSeq(bytes, n + 1, l) = SubSeq(bytes, 1, l)
        BY <2>1, ConcatAdjacentSubSeq
    <2>3. SubSeq(bytes, 1, l) = bytes
        BY <1>1, SubSeqFull
    <2> QED
        BY <1>3, <1>4, <2>2, <2>3 DEF Join
<1>11. QuietPath(InText, p, EscBrac)
    BY <1>7, <1>8, <1>9, QuietJoin
<1> QED
    BY <1>10, <1>11

LEMMA LoudByte ==
    ASSUME NEW c \in Byte, c \notin {IAC, ESC} PROVE Loud(<<c>>, Step(InText, c))
<1>1. /\ Step(InText, c) \in Steps /\ To(Step(InText, c)) = InText
      /\ Step(InText, c).from = InText /\ Step(InText, c).byte = c
    BY TextSteps
<1>2. QuietPath(InText, <<>>, InText)
    BY QuietNone
<1>3. Join(<<>>, <<c>>) = <<c>>
    BY DEF Join
<1> QED
    BY <1>1, <1>2, <1>3 DEF Loud

LEMMA FromThird ==
    ASSUME NEW a, NEW b, NEW c, NEW d
    PROVE  /\ SubSeq(<<a, b, c>>, 3, 3) = <<c>>
           /\ SubSeq(<<a, b, c, d>>, 3, 4) = <<c, d>>
<1> DEFINE S == {a, b, c, d}
<1>1. PICK s, t, u, v : s = <<a, b, c>> /\ t = <<a, b, c, d>> /\ u = <<c>> /\ v = <<c, d>>
    OBVIOUS
<1>2. /\ s \in Seq(S) /\ Len(s) = 3 /\ s[3] = c
      /\ u \in Seq(S) /\ Len(u) = 1 /\ u[1] = c
    BY <1>1
<1>3. /\ t \in Seq(S) /\ Len(t) = 4 /\ t[3] = c /\ t[4] = d
      /\ v \in Seq(S) /\ Len(v) = 2 /\ v[1] = c /\ v[2] = d
    BY <1>1
<1> HIDE DEF S
<1>4. SubSeq(s, 3, 3) \in Seq(S) /\ Len(SubSeq(s, 3, 3)) = 1 /\ SubSeq(s, 3, 3)[1] = s[3]
    BY SMTT(30), <1>2, SubSeqProperties
<1>5. /\ SubSeq(t, 3, 4) \in Seq(S) /\ Len(SubSeq(t, 3, 4)) = 2
      /\ SubSeq(t, 3, 4)[1] = t[3] /\ SubSeq(t, 3, 4)[2] = t[4]
    <2>1. PICK w : w = SubSeq(t, 3, 4)
        OBVIOUS
    <2>2. PICK m \in Int, n \in Int : m = 3 /\ n = 4
        OBVIOUS
    <2>3. w \in Seq(S) /\ Len(w) = 2 /\ \A k \in 1..2 : w[k] = t[3 + k - 1]
        <3>1. \A k \in m..n : t[k] \in S
            <4>1. \A k \in m..n : k \in 1..Len(t)
                BY <1>3, <2>2
            <4>2. \A k \in 1..Len(t) : t[k] \in S
                <5>1. t \in Seq(S)
                    BY <1>3
                <5> QED
                    BY <5>1, ElementOfSeq
            <4> QED
                BY <4>1, <4>2
        <3>2. /\ w \in Seq(S) /\ Len(w) = IF m <= n THEN n - m + 1 ELSE 0
              /\ \A k \in 1..(n - m + 1) : w[k] = t[m + k - 1]
            BY <2>1, <2>2, <3>1, SubSeqProperties
        <3> QED
            BY <2>2, <3>2
    <2>4. w[1] = t[3] /\ w[2] = t[4]
        BY <2>3
    <2> QED
        BY <2>1, <2>3, <2>4
<1>6. SubSeq(s, 3, 3) = u
    <2>1. \A k \in 1..1 : k = 1
        OBVIOUS
    <2> QED
        BY <1>2, <1>4, <2>1, SeqEqual
<1>7. SubSeq(t, 3, 4) = v
    <2>1. \A k \in 1..2 : k = 1 \/ k = 2
        OBVIOUS
    <2> QED
        BY <1>3, <1>5, <2>1, SeqEqual
<1> QED
    BY <1>1, <1>6, <1>7

LEMMA KnownSequences ==
    ASSUME NEW known \in Vt100Commands
    PROVE  \/ \E f \in Finals : /\ known[1] = <<ESC, BRACKET, f>>
                                /\ SubSeq(known[1], 3, Len(known[1])) = <<f>>
           \/ \E d \in {49, 51, 52} : /\ known[1] = <<ESC, BRACKET, d, TILDE>>
                                      /\ SubSeq(known[1], 3, Len(known[1])) = <<d, TILDE>>
<1>1. \/ \E f \in Finals : known[1] = <<ESC, BRACKET, f>>
      \/ \E d \in {49, 51, 52} : known[1] = <<ESC, BRACKET, d, TILDE>>
    BY DEF Vt100Commands, Finals
<1>2. \A f : SubSeq(<<ESC, BRACKET, f>>, 3, 3) = <<f>> /\ Len(<<ESC, BRACKET, f>>) = 3
    BY FromThird
<1>3. \A d : /\ SubSeq(<<ESC, BRACKET, d, TILDE>>, 3, 4) = <<d, TILDE>>
              /\ Len(<<ESC, BRACKET, d, TILDE>>) = 4
    BY ZenonT(60), FromThird
<1> QED
    BY <1>1, <1>2, <1>3

LEMMA LoudSequence ==
    ASSUME NEW key, key.bytes \in Seq(Byte), Sequence(key)
    PROVE  \E name, x : /\ key.keys = <<name>> /\ Loud(key.bytes, x)
                        /\ ~Completes(x) /\ Hears(x, name)
<1>1. PICK bytes : bytes = key.bytes
    OBVIOUS
<1>2. PICK known \in Vt100Commands :
         /\ key.keys = << <<known[2], 0>> >>
         /\ Parameters(bytes, SubSeq(known[1], 3, Len(known[1])))
    BY <1>1 DEF Sequence
<1>3. bytes \in Seq(Byte) /\ TILDE \in Byte
    BY <1>1 DEF TILDE, Byte
<1>4. ASSUME NEW f \in Finals, known[1] = <<ESC, BRACKET, f>>,
             SubSeq(known[1], 3, Len(known[1])) = <<f>>
      PROVE  \E x : Loud(bytes, x) /\ ~Completes(x) /\ Hears(x, <<known[2], 0>>)
    <2>1. f \in Byte
        BY DEF Finals, Byte
    <2>2. PICK rest : rest = <<f>>
        OBVIOUS
    <2>3. PICK pre : QuietPath(InText, pre, EscBrac) /\ bytes = Join(pre, <<f>>)
        <3>1. rest \in Seq(Byte)
            BY <2>1, <2>2
        <3>2. Parameters(bytes, rest)
            BY <1>2, <1>4, <2>2
        <3> QED
            BY <1>3, <2>2, <3>1, <3>2, QuietParameters
    <2>4. PICK x : x = Step(EscBrac, f)
        OBVIOUS
    <2>5. /\ x \in Steps /\ x.from = EscBrac /\ x.byte = f /\ ~Completes(x) /\ To(x) = InText
          /\ \A name : Hears(x, name) <=> Names(<<ESC, BRACKET, f>>, name)
        BY <2>1, <2>4, BracketSteps
    <2>6. Names(<<ESC, BRACKET, f>>, <<known[2], 0>>)
        BY <1>4 DEF Names
    <2> QED
        BY <2>3, <2>5, <2>6 DEF Loud
<1>5. ASSUME NEW d \in {49, 51, 52}, known[1] = <<ESC, BRACKET, d, TILDE>>,
             SubSeq(known[1], 3, Len(known[1])) = <<d, TILDE>>
      PROVE  \E x : Loud(bytes, x) /\ ~Completes(x) /\ Hears(x, <<known[2], 0>>)
    <2>1. d \in Byte /\ d \notin Finals
        BY DEF Byte, Finals
    <2>2. PICK rest : rest = <<d, TILDE>>
        OBVIOUS
    <2>3. PICK pre : QuietPath(InText, pre, EscBrac) /\ bytes = Join(pre, <<d, TILDE>>)
        <3>1. rest \in Seq(Byte)
            BY <1>3, <2>1, <2>2
        <3>2. Parameters(bytes, rest)
            BY <1>2, <1>5, <2>2
        <3> QED
            BY <1>3, <2>2, <3>1, <3>2, QuietParameters
    <2>4. QuietPath(EscBrac, <<d>>, EscDigit(d))
        BY <2>1, BracketSteps, QuietStep
    <2>5. QuietPath(InText, Join(pre, <<d>>), EscDigit(d))
        BY <2>3, <2>4, QuietJoin
    <2>6. PICK x : x = Step(EscDigit(d), TILDE)
        OBVIOUS
    <2>7. /\ x \in Steps /\ x.from = EscDigit(d) /\ x.byte = TILDE
          /\ ~Completes(x) /\ To(x) = InText
          /\ \A name : Hears(x, name) <=> Names(<<ESC, BRACKET, d, TILDE>>, name)
        BY <1>3, <2>6, TildeSteps
    <2>8. Names(<<ESC, BRACKET, d, TILDE>>, <<known[2], 0>>)
        BY <1>5 DEF Names
    <2>9. bytes = Join(Join(pre, <<d>>), <<TILDE>>)
        <3>1. PICK p, q : p = <<d>> /\ q = <<TILDE>>
            OBVIOUS
        <3>2. pre \in Seq(Byte) /\ p \in Seq(Byte) /\ q \in Seq(Byte)
            BY <1>3, <2>1, <2>3, <3>1, QuietBytes
        <3>3. Join(p, q) = <<d, TILDE>>
            BY <1>3, <2>1, <3>1, JoinOnes
        <3>4. Join(Join(pre, p), q) = Join(pre, Join(p, q))
            BY <3>2, JoinAssociative
        <3> QED
            BY <2>3, <3>1, <3>3, <3>4
    <2> QED
        BY <2>5, <2>7, <2>8, <2>9 DEF Loud
<1>6. \E x : Loud(bytes, x) /\ ~Completes(x) /\ Hears(x, <<known[2], 0>>)
    BY <1>4, <1>5, KnownSequences
<1> QED
    BY <1>1, <1>2, <1>6

LEMMA QuietSequence ==
    ASSUME NEW bytes \in Seq(Byte), OtherSequence(bytes) PROVE QuietPath(InText, bytes, InText)
<1>1. CASE Len(bytes) = 2 /\ bytes[1] = ESC /\ bytes[2] # BRACKET
    <2>1. ESC \in Byte /\ ESC \notin (32..126) \union {BS, DEL} /\ bytes[2] \in Byte
        <3>1. ESC \in Byte /\ ESC \notin (32..126) \union {BS, DEL}
            BY DEF ESC, Byte, BS, DEL
        <3>2. bytes[2] \in Byte
            BY SMTT(30), <1>1, ElementOfSeq
        <3> QED
            BY <3>1, <3>2
    <2>2. QuietPath(InText, <<ESC>>, Esc)
        BY <2>1, TextSteps, QuietStep
    <2>3. QuietPath(Esc, <<bytes[2]>>, InText)
        BY <1>1, <2>1, EscSteps, QuietStep
    <2>4. QuietPath(InText, Join(<<ESC>>, <<bytes[2]>>), InText)
        BY <2>2, <2>3, QuietJoin
    <2>5. bytes = <<ESC, bytes[2]>>
        BY <1>1, TwoBytes
    <2> QED
        BY <2>1, <2>4, <2>5, JoinOnes
<1>2. ASSUME NEW d \in {49, 51, 52}, NEW last \in (0..255) \ {TILDE}, Parameters(bytes, <<d, last>>)
      PROVE  QuietPath(InText, bytes, InText)
    <2>1. d \in Byte /\ d \notin Finals /\ last \in Byte /\ last # TILDE
        BY DEF Byte, Finals
    <2>2. <<d, last>> \in Seq(Byte)
        BY <2>1
    <2>3. PICK pre : QuietPath(InText, pre, EscBrac) /\ bytes = Join(pre, <<d, last>>)
        BY <1>2, <2>2, QuietParameters
    <2>4. QuietPath(EscBrac, <<d>>, EscDigit(d))
        BY <2>1, BracketSteps, QuietStep
    <2>5. QuietPath(EscDigit(d), <<last>>, InText)
        <3>1. PICK c \in Byte : c = last /\ c # TILDE
            BY <2>1
        <3>2. LET x == Step(EscDigit(d), c)
              IN  x \in Steps /\ Quiet(x) /\ To(x) = InText
            BY ZenonT(60), <3>1, TildeSteps
        <3> QED
            BY <3>1, <3>2, QuietStep
    <2>6. QuietPath(EscBrac, Join(<<d>>, <<last>>), InText)
        BY <2>4, <2>5, QuietJoin
    <2>7. QuietPath(EscBrac, <<d, last>>, InText)
        BY <2>1, <2>6, JoinOnes
    <2> QED
        BY <2>3, <2>7, QuietJoin
<1> QED
    BY ZenonT(60), <1>1, <1>2 DEF OtherSequence

LEMMA QuietSkipped ==
    ASSUME NEW bytes \in Seq(Byte), Skipped(bytes) PROVE QuietPath(InText, bytes, InText)
<1>1. ASSUME NEW k \in 1..Len(bytes)
      PROVE  To(Step(InText, bytes[k])) = InText /\ Quiet(Step(InText, bytes[k]))
    <2>1. bytes[k] \in Byte /\ bytes[k] \notin (32..126) \union {BS, DEL, IAC, ESC}
        BY DEF Skipped
    <2> QED
        BY <2>1, TextSteps
<1>2. InText \in States /\ Collected(InText)
    <2>1. PICK c \in Byte : TRUE
        BY DEF Byte
    <2>2. LET x == Step(InText, c) IN x \in Steps /\ x.from = InText
        BY TextSteps
    <2> QED
        BY <2>2 DEF Steps
<1> QED
    BY <1>1, <1>2, QuietLoop

LEMMA QuietTelnet ==
    ASSUME NEW bytes \in Seq(Byte), OtherTelnet(bytes) PROVE QuietPath(InText, bytes, InText)
<1>1. PICK n : n = Len(bytes)
    OBVIOUS
<1>2. n \in Nat /\ \A k \in 1..n : bytes[k] \in Byte
    BY <1>1, ElementOfSeq
<1>3. /\ n > 1 /\ bytes[1] = IAC
      /\ \/ n = 2 /\ bytes[2] \notin {WILL, WONT, DO, DONT, SB}
         \/ n = 3 /\ bytes[2] \in {WILL, WONT, DO, DONT} /\ bytes # IAC_WILL_TERMINAL_TYPE
         \/ /\ n \in 4..Longest + 1 /\ bytes[2] = SB
            /\ \A k \in 3..n - 2 : bytes[k] # IAC
            /\ bytes[n - 1] = IAC /\ bytes[n] # IAC
            /\ bytes[n] # SE \/ bytes[3] \notin {NAWS, TERMINAL_TYPE}
    BY <1>1 DEF OtherTelnet
<1>4. PICK o : o = bytes[2]
    OBVIOUS
<1>5. IAC \in Byte /\ IAC \notin (32..126) \union {BS, DEL} /\ o \in Byte
    <2>1. IAC \in Byte /\ IAC \notin (32..126) \union {BS, DEL}
        BY DEF IAC, Byte, BS, DEL
    <2>2. 2 \in 1..n
        BY <1>2, <1>3
    <2> QED
        BY <1>2, <1>4, <2>1, <2>2
<1>6. QuietPath(InText, <<IAC>>, Start)
    BY <1>5, TextSteps, QuietStep
<1>7. CASE n = 2 /\ o \notin {WILL, WONT, DO, DONT, SB}
    <2>1. o \notin Options \union {SB}
        BY <1>7 DEF Options
    <2>2. QuietPath(Start, <<o>>, InText)
        BY <1>5, <2>1, StartSteps, QuietStep
    <2>3. QuietPath(InText, Join(<<IAC>>, <<o>>), InText)
        BY <1>6, <2>2, QuietJoin
    <2>4. bytes = <<IAC, o>>
        BY <1>1, <1>3, <1>4, <1>7, TwoBytes
    <2> QED
        BY <1>5, <2>3, <2>4, JoinOnes
<1>8. CASE n = 3 /\ o \in {WILL, WONT, DO, DONT} /\ bytes # IAC_WILL_TERMINAL_TYPE
    <2>1. PICK c : c = bytes[3]
        OBVIOUS
    <2>2. c \in Byte /\ o \in Options
        BY <1>2, <1>8, <2>1 DEF Options
    <2>3. bytes = <<IAC, o, c>>
        BY <1>1, <1>3, <1>4, <1>8, <2>1, ThreeBytes
    <2>4. PICK x : x = Step(Command(o), c)
        OBVIOUS
    <2>5. /\ x \in Steps /\ x.from = Command(o) /\ x.byte = c /\ To(x) = InText
          /\ (\A key : ~Hears(x, key)) /\ Whole(x) = bytes
        BY <2>2, <2>3, <2>4, CommandSteps
    <2>6. Quiet(x)
        <3>1. o # SB
            BY <2>2 DEF Options, SB, WILL, WONT, DO, DONT
        <3>2. ~IsPrefix(IAC_SB_NAWS, bytes) /\ ~IsPrefix(IAC_SB_TERMINAL_TYPE_IS, bytes)
            BY <1>4, <3>1, Kinds
        <3>3. ~IsPrefix(IAC_WILL_TERMINAL_TYPE, bytes)
            <4>1. ~(o = WILL /\ c = TERMINAL_TYPE)
                BY <1>8, <2>3 DEF IAC_WILL_TERMINAL_TYPE
            <4> QED
                BY <1>4, <2>1, <4>1, Kinds
        <3> QED
            BY <2>5, <3>2, <3>3 DEF Quiet, IsSize, IsWill, IsType
    <2>7. QuietPath(Command(o), <<c>>, InText)
        BY <2>2, <2>4, <2>5, <2>6, QuietStep
    <2>8. QuietPath(Start, <<o>>, Command(o))
        BY <1>5, <2>2, StartSteps, QuietStep
    <2>9. QuietPath(InText, Join(<<IAC>>, <<o>>), Command(o))
        BY <1>6, <2>8, QuietJoin
    <2>10. PICK p : p = <<IAC, o>>
        OBVIOUS
    <2>11. QuietPath(InText, Join(p, <<c>>), InText)
        BY <1>5, <2>7, <2>9, <2>10, JoinOnes, QuietJoin
    <2>12. Join(p, <<c>>) = bytes
        <3>1. p \in Seq(Byte)
            BY <1>5, <2>10
        <3>2. Append(p, c) = <<IAC, o, c>>
            BY <2>10, AppendToTwo
        <3> QED
            BY <2>2, <2>3, <3>1, <3>2, JoinOne
    <2> QED
        BY <2>11, <2>12
<1>9. CASE /\ n \in 4..Longest + 1 /\ o = SB
           /\ \A k \in 3..n - 2 : bytes[k] # IAC
           /\ bytes[n - 1] = IAC /\ bytes[n] # IAC
           /\ bytes[n] # SE \/ bytes[3] \notin {NAWS, TERMINAL_TYPE}
    <2>1. PICK h, d, p : /\ h = SubSeq(bytes, 1, 2) /\ d = SubSeq(bytes, 3, n - 2)
                         /\ p = SubSeq(bytes, 1, n - 2)
        OBVIOUS
    <2>2. h = <<IAC, SB>>
        <3>1. h \in Seq(Byte) /\ Len(h) = 2 /\ h[1] = bytes[1] /\ h[2] = bytes[2]
            BY <1>1, <1>9, <2>1, SubSeqProperties
        <3> QED
            BY <1>3, <1>4, <1>9, <3>1, TwoBytes
    <2>3. h \in Seq(Byte) /\ Len(h) = 2
        BY <1>5, <1>9, <2>2
    <2>4. /\ d \in Seq(Byte) /\ Len(d) = n - 4
          /\ \A k \in 1..(n - 4) : d[k] = bytes[k + 2]
        <3>1. \A k \in 3..(n - 2) : bytes[k] \in Byte
            BY <1>2, <1>9
        <3>2. PICK l \in Int, m \in Int : l = 3 /\ m = n - 2
            BY <1>2
        <3>3. /\ d \in Seq(Byte) /\ Len(d) = IF l <= m THEN m - l + 1 ELSE 0
              /\ \A k \in 1..(m - l + 1) : d[k] = bytes[l + k - 1]
            BY <2>1, <3>1, <3>2, SubSeqProperties
        <3>4. Len(d) = n - 4
            BY <1>9, <3>2, <3>3
        <3>5. ASSUME NEW k \in 1..(n - 4) PROVE d[k] = bytes[k + 2]
            <4>1. l + k - 1 = k + 2 /\ k \in 1..(m - l + 1)
                BY <1>2, <3>2
            <4> QED
                BY <3>3, <4>1
        <3> QED
            BY <3>3, <3>4, <3>5
    <2>5. \A k \in 1..(n - 4) : d[k] # IAC
        <3> SUFFICES ASSUME NEW k \in 1..(n - 4) PROVE d[k] # IAC
            OBVIOUS
        <3>1. k + 2 \in 3..(n - 2)
            BY <1>2
        <3> QED
            BY <1>9, <2>4, <3>1
    <2>6. p = Join(h, d)
        <3>1. /\ 1 \in 1..(Len(bytes) + 1)
              /\ 2 \in (1 - 1)..Len(bytes)
              /\ n - 2 \in 2..Len(bytes)
            <4>1. n >= 4
                BY <1>9
            <4> QED
                BY <1>1, <1>2, <4>1
        <3>2. SubSeq(bytes, 1, 2) \o SubSeq(bytes, 2 + 1, n - 2) = SubSeq(bytes, 1, n - 2)
            BY <3>1, ConcatAdjacentSubSeq
        <3>3. 2 + 1 = 3
            OBVIOUS
        <3> QED
            BY <2>1, <3>2, <3>3 DEF Join
    <2>7. QuietPath(InText, p, Sub(p))
        <3>1. Len(h) >= 2 /\ Len(h) + Len(d) <= Longest /\ \A k \in 1..Len(d) : d[k] # IAC
            BY <1>9, <2>3, <2>4, <2>5
        <3>2. QuietPath(Sub(h), d, Sub(p))
            BY <2>3, <2>4, <2>6, <3>1, QuietData
        <3>3. QuietPath(InText, h, Sub(h))
            BY <2>2, QuietOpen
        <3> QED
            BY <2>6, <3>2, <3>3, QuietJoin
    <2>8. p \in Seq(Byte) /\ Len(p) = n - 2
        <3>1. \A k \in 1..(n - 2) : bytes[k] \in Byte
            BY <1>2, <1>9
        <3>2. PICK m \in Int : m = n - 2
            BY <1>2
        <3>3. p \in Seq(Byte) /\ Len(p) = IF 1 <= m THEN m - 1 + 1 ELSE 0
            BY <2>1, <3>1, <3>2, SubSeqProperties
        <3> QED
            BY <1>9, <3>2, <3>3
    <2>9. PICK q, c : q = SubSeq(bytes, 1, n - 1) /\ c = bytes[n]
        OBVIOUS
    <2>10. q = Append(p, IAC) /\ q \in Seq(Byte)
        <3>1. n - 1 \in 1..Len(bytes) /\ (n - 1) - 1 = n - 2
            BY <1>1, <1>2, <1>9
        <3> QED
            BY <1>9, <2>1, <2>9, <3>1, SubSeqGrow
    <2>11. bytes = Append(q, c) /\ c \in Byte
        <3>1. n \in 1..Len(bytes)
            BY <1>1, <1>2, <1>9
        <3>2. SubSeq(bytes, 1, n) = bytes
            BY <1>1, SubSeqFull
        <3> QED
            BY <1>1, <1>2, <2>9, <3>1, <3>2, SubSeqGrow
    <2>12. Len(q) \in 2..Longest
        <3>1. Len(q) = Len(p) + 1
            BY <1>5, <2>8, <2>10, AppendProperties
        <3> QED
            BY <1>9, <2>8, <3>1
    <2>13. QuietPath(InText, q, MaybeEnd(q))
        <3>1. Len(p) \in 2..(Longest - 1)
            BY <1>9, <2>8
        <3>2. QuietPath(Sub(p), <<IAC>>, MaybeEnd(q))
            BY <1>5, <2>8, <2>10, <3>1, SubSteps, QuietStep
        <3>3. Join(p, <<IAC>>) = q
            BY <1>5, <2>8, <2>10, JoinOne
        <3> QED
            BY <2>7, <3>2, <3>3, QuietJoin
    <2>14. PICK x : x = Step(MaybeEnd(q), c)
        OBVIOUS
    <2>15. /\ x \in Steps /\ x.from = MaybeEnd(q) /\ x.byte = c
           /\ (\A key : ~Hears(x, key)) /\ To(x) = InText
           /\ c # SE => Quiet(x)
           /\ c = SE => Whole(x) = bytes
        BY <1>9, <2>9, <2>10, <2>11, <2>12, <2>14, MaybeEndSteps
    <2>16. Quiet(x)
        <3>1. CASE c # SE
            BY <2>15, <3>1
        <3>2. CASE c = SE
            <4>1. bytes[3] # NAWS /\ bytes[3] # TERMINAL_TYPE
                BY <1>9, <2>9, <3>2
            <4>2. ~IsPrefix(IAC_SB_NAWS, bytes) /\ ~IsPrefix(IAC_SB_TERMINAL_TYPE_IS, bytes)
                BY <4>1, Kinds
            <4>3. ~IsPrefix(IAC_WILL_TERMINAL_TYPE, bytes)
                BY <4>1, Kinds
            <4> QED
                BY <2>15, <3>2, <4>2, <4>3 DEF Quiet, IsSize, IsWill, IsType
        <3> QED
            BY <3>1, <3>2
    <2>17. QuietPath(MaybeEnd(q), <<c>>, InText)
        BY <2>11, <2>14, <2>15, <2>16, QuietStep
    <2>18. Join(q, <<c>>) = bytes
        <3>1. q \in Seq(Byte) /\ c \in Byte
            BY <2>10, <2>11
        <3>2. Join(q, <<c>>) = Append(q, c)
            BY <3>1, JoinOne
        <3> QED
            BY <2>11, <3>2
    <2> QED
        BY <2>13, <2>17, <2>18, QuietJoin
<1> QED
    BY <1>3, <1>4, <1>7, <1>8, <1>9

\* A key is heard with the last byte of its sequence, or means nothing.
LEMMA KeyPath ==
    ASSUME NEW key \in Keys
    PROVE  \/ key.keys = <<>> /\ QuietPath(InText, key.bytes, InText)
           \/ \E name, x : /\ key.keys = <<name>> /\ Loud(key.bytes, x)
                           /\ ~Completes(x) /\ Hears(x, name)
<1>1. key.bytes \in Seq(Byte)
    BY InputAssumption DEF Byte
<1>2. Character(key) \/ Control(key) \/ Sequence(key) \/ Ignored(key)
    BY InputAssumption
<1>3. CASE Character(key)
    <2>1. PICK b \in 32..126 : key.bytes = <<b>> /\ key.keys = << <<"char", b>> >>
        BY <1>3 DEF Character
    <2>2. b \in Byte /\ b \notin {IAC, ESC}
        BY DEF Byte, IAC, ESC
    <2>3. Loud(<<b>>, Step(InText, b))
        BY <2>2, LoudByte
    <2>4. ~Completes(Step(InText, b)) /\ Hears(Step(InText, b), <<"char", b>>)
        BY <2>2, TextSteps
    <2> QED
        BY <2>1, <2>3, <2>4
<1>4. CASE Control(key)
    <2>1. PICK b, name : /\ key.bytes = <<b>> /\ key.keys = <<name>>
                         /\ \/ b = BS /\ name = <<"backspace", 0>>
                            \/ b = DEL /\ name = <<"delete", 0>>
        BY <1>4 DEF Control
    <2>2. b \in Byte /\ b \notin {IAC, ESC}
        BY <2>1 DEF Byte, IAC, ESC, BS, DEL
    <2>3. Loud(<<b>>, Step(InText, b))
        BY <2>2, LoudByte
    <2>4. ~Completes(Step(InText, b)) /\ Hears(Step(InText, b), name)
        BY <2>1, <2>2, TextSteps
    <2> QED
        BY <2>1, <2>3, <2>4
<1>5. CASE Sequence(key)
    BY <1>1, <1>5, LoudSequence
<1>6. CASE Ignored(key)
    BY <1>1, <1>6, QuietSkipped, QuietSequence, QuietTelnet DEF Ignored
<1> QED
    BY <1>2, <1>3, <1>4, <1>5, <1>6

-----------------------------------------------------------------------------
(* The invariants.  The bytes on their way are those of the steps st that   *)
(* process_input has still to make, from the state s it is in to TEXT; what *)
(* these steps will do is what the client meant.                            *)

Follows(s, st) == Path(s, st, InText) /\ Bytes(st) = wire /\ Now(s)

\* The keys not handled yet are heard at the steps that hear keys, in order.
Presses == {key.keys[1] : key \in Keys}
HeardAt(st, at) ==
    /\ at \in [1..Len(unheard) -> 1..Len(st)]
    /\ \A i \in 1..Len(unheard), j \in 1..Len(unheard) : i < j => at[i] < at[j]
    /\ \A j \in 1..Len(unheard) : Hears(st[at[j]], unheard[j])
    /\ \A k \in 1..Len(st) :
          (\E key : Hears(st[k], key)) => \E j \in 1..Len(unheard) : at[j] = k
KeysOf(st) ==
    /\ ~misheard /\ unheard \in Seq(Presses)
    /\ \E at : HeardAt(st, at)

\* The last window size on its way is the client's; without one, it is known.
SizeOf(x) == <<Width(Whole(x)), Height(Whole(x))>>
SizesOf(st) ==
    /\ window \in Word \X Word /\ size \in Word \X Word
    /\ \A k \in 1..Len(st) : IsSize(st[k]) => SizeOf(st[k]) \in Word \X Word
    /\ (\A k \in 1..Len(st) : ~IsSize(st[k])) => window = size
    /\ \A k \in 1..Len(st) :
          IsSize(st[k]) /\ (\A j \in 1..Len(st) : j > k => ~IsSize(st[j]))
             => SizeOf(st[k]) = size

\* The types are offered in the spelling that processTelnetCommand keeps.  When
\* it waits for more, it has been told the first n, and none ended the negotiation.
Ends(list, k) ==
    \/ IsPrefix(Vt100Name, Offered(list, k))
    \/ k > 1 /\ IsPrefix(Offered(list, k), Offered(list, k - 1))
Waiting(n) ==
    /\ askForTerminalType = TRUE
    /\ \A j \in 1..n : ~Ends(types, j)
    /\ lastTerminalRead = IF n = 0 THEN <<>> ELSE Offered(types, n)
Over ==
    \E k \in 1..Len(types) : /\ lastTerminalRead = Offered(types, k)
                             /\ \A j \in 1..(k - 1) : ~Ends(types, j)
                             /\ Ends(types, k) \/ k = Len(types)

Talks(x) == IsWill(x) \/ IsType(x)
Silent(st) == \A k \in 1..Len(st) : ~Talks(st[k])
Speaks(st, x) ==
    \E k \in 1..Len(st) : /\ st[k] = x /\ Talks(x)
                          /\ \A j \in 1..Len(st) : Talks(st[j]) => j = k

\* Where the negotiation is: the client has not agreed, its agreement is on its
\* way, it is asked for a type, its answer is on its way, or all is said.
Before(st) == ~agreed /\ requests = 0 /\ typeAt = 1 /\ Waiting(0) /\ Silent(st)
Agreeing(st) ==
    /\ agreed /\ requests = 0 /\ typeAt = 1 /\ Waiting(0)
    /\ \E x : IsWill(x) /\ Speaks(st, x)
Asked(st) ==
    /\ agreed /\ requests = 1 /\ Silent(st)
    /\ \E n \in 0..Len(types) : Waiting(n) /\ typeAt = n + 1
Answering(st) ==
    /\ agreed /\ requests = 0
    /\ \E n \in 0..Len(types) : \E x :
          /\ Waiting(n) /\ typeAt = (IF n = Len(types) THEN 1 ELSE n + 2)
          /\ IsType(x) /\ Speaks(st, x)
          /\ TerminalName(Whole(x)) = Offered(types, IF n = Len(types) THEN n ELSE n + 1)
Finished(st) ==
    agreed /\ requests = 0 /\ Silent(st) /\ Over
AsksOf(st) ==
    Before(st) \/ Agreeing(st) \/ Asked(st) \/ Answering(st) \/ Finished(st)

-----------------------------------------------------------------------------
(* How the steps to come change: the client adds some behind, all of them   *)
(* quiet or all but the last, and process_input makes the first.            *)

More(st, r) ==
    /\ r \in Seq(Steps) /\ Len(r) >= Len(st)
    /\ \A k \in 1..Len(st) : r[k] = st[k]
    /\ \A k \in 1..Len(r) : k > Len(st) => Quiet(r[k])
MoreWith(st, r, x) ==
    /\ r \in Seq(Steps) /\ Len(r) > Len(st) /\ r[Len(r)] = x
    /\ \A k \in 1..Len(st) : r[k] = st[k]
    /\ \A k \in 1..Len(r) : k > Len(st) /\ k < Len(r) => Quiet(r[k])
Less(st, r) ==
    /\ r \in Seq(Steps) /\ Len(st) = Len(r) + 1
    /\ \A k \in 1..Len(r) : r[k] = st[k + 1]

LEMMA JoinSteps ==
    ASSUME NEW p \in Seq(Steps), NEW q \in Seq(Steps)
    PROVE  /\ Join(p, q) \in Seq(Steps) /\ Len(Join(p, q)) = Len(p) + Len(q)
           /\ Len(p) \in Nat /\ Len(q) \in Nat
           /\ \A k \in 1..Len(p) : Join(p, q)[k] = p[k]
           /\ \A k \in (Len(p) + 1)..(Len(p) + Len(q)) : Join(p, q)[k] = q[k - Len(p)]
<1>1. PICK r : r = p \o q
    OBVIOUS
<1>2. /\ r \in Seq(Steps) /\ Len(r) = Len(p) + Len(q)
      /\ \A k \in 1..Len(p) : r[k] = p[k]
      /\ \A k \in (Len(p) + 1)..(Len(p) + Len(q)) : r[k] = q[k - Len(p)]
    BY <1>1, ConcatProperties
<1>3. Len(p) \in Nat /\ Len(q) \in Nat
    OBVIOUS
<1> QED
    BY <1>1, <1>2, <1>3 DEF Join

LEMMA Pushed ==
    ASSUME NEW s, NEW st, NEW p, Follows(s, st), Path(InText, p, InText),
           wire' = Join(wire, Bytes(p)), UNCHANGED conVars
    PROVE  Follows(s, Join(st, p))'
<1>1. PICK r : r = Join(st, p)
    OBVIOUS
<1>2. Path(s, r, InText) /\ Bytes(r) = Join(wire, Bytes(p))
    <2>1. Path(s, r, InText) /\ Bytes(r) = Join(Bytes(st), Bytes(p))
        BY <1>1, PathJoin DEF Follows
    <2> QED
        BY <2>1 DEF Follows
<1>3. Now(s)'
    BY DEF Follows, Now, conVars, telnetVars, vt100Vars
<1> QED
    BY <1>1, <1>2, <1>3 DEF Follows

LEMMA QuietPushed ==
    ASSUME NEW s, NEW st, NEW m, Follows(s, st), QuietPath(InText, m, InText),
           wire' = Join(wire, m), UNCHANGED conVars
    PROVE  \E r : Follows(s, r)' /\ More(st, r)
<1>1. PICK p : /\ Path(InText, p, InText) /\ Bytes(p) = m
               /\ \A k \in 1..Len(p) : Quiet(p[k])
    BY DEF QuietPath
<1>2. PICK r : r = Join(st, p)
    OBVIOUS
<1>3. Follows(s, r)'
    <2>1. wire' = Join(wire, Bytes(p))
        BY <1>1
    <2> QED
        BY <1>1, <1>2, <2>1, Pushed
<1>4. st \in Seq(Steps) /\ p \in Seq(Steps)
    BY <1>1 DEF Path, Follows
<1>5. /\ r \in Seq(Steps) /\ Len(r) = Len(st) + Len(p)
      /\ Len(st) \in Nat /\ Len(p) \in Nat
      /\ \A k \in 1..Len(st) : r[k] = st[k]
      /\ \A k \in (Len(st) + 1)..(Len(st) + Len(p)) : r[k] = p[k - Len(st)]
    BY <1>2, <1>4, JoinSteps
<1>6. ASSUME NEW k \in 1..Len(r), k > Len(st) PROVE Quiet(r[k])
    <2>1. k - Len(st) \in 1..Len(p) /\ r[k] = p[k - Len(st)]
        BY <1>5, <1>6
    <2> QED
        BY <1>1, <2>1
<1>7. Len(r) >= Len(st)
    BY <1>5
<1> QED
    BY <1>3, <1>5, <1>6, <1>7 DEF More

LEMMA LoudPushed ==
    ASSUME NEW s, NEW st, NEW m, NEW x, Follows(s, st), Loud(m, x),
           wire' = Join(wire, m), UNCHANGED conVars
    PROVE  \E r : Follows(s, r)' /\ MoreWith(st, r, x)
<1>1. /\ x \in Steps /\ To(x) = InText
      /\ \E pre : QuietPath(InText, pre, x.from) /\ m = Join(pre, <<x.byte>>)
    BY DEF Loud
<1>2. PICK pre : QuietPath(InText, pre, x.from) /\ m = Join(pre, <<x.byte>>)
    BY <1>1
<1>3. PICK q : /\ Path(InText, q, x.from) /\ Bytes(q) = pre
               /\ \A k \in 1..Len(q) : Quiet(q[k])
    BY <1>2 DEF QuietPath
<1>4. PICK e : e = <<x>>
    OBVIOUS
<1>5. Path(x.from, e, InText) /\ Bytes(e) = <<x.byte>> /\ Len(e) = 1 /\ e[1] = x
    <2>1. Path(x.from, <<x>>, To(x)) /\ Bytes(<<x>>) = <<x.byte>>
        BY <1>1, PathOne
    <2>2. Len(e) = 1 /\ e[1] = x
        BY <1>4
    <2> QED
        BY <1>1, <1>4, <2>1, <2>2
<1>6. PICK p : p = Join(q, e)
    OBVIOUS
<1>7. Path(InText, p, InText) /\ Bytes(p) = m
    <2>1. Path(InText, p, InText) /\ Bytes(p) = Join(Bytes(q), Bytes(e))
        BY <1>3, <1>5, <1>6, PathJoin
    <2> QED
        BY <1>2, <1>3, <1>5, <2>1
<1>8. PICK r : r = Join(st, p)
    OBVIOUS
<1>9. Follows(s, r)'
    <2>1. wire' = Join(wire, Bytes(p))
        BY <1>7
    <2> QED
        BY <1>7, <1>8, <2>1, Pushed
<1>10. st \in Seq(Steps) /\ p \in Seq(Steps) /\ q \in Seq(Steps) /\ e \in Seq(Steps)
    BY <1>3, <1>5, <1>7 DEF Path, Follows
<1>11. /\ Len(p) = Len(q) + 1 /\ Len(q) \in Nat
       /\ \A k \in 1..Len(q) : p[k] = q[k]
       /\ p[Len(q) + 1] = x
    <2>1. /\ Len(p) = Len(q) + Len(e) /\ Len(q) \in Nat
          /\ \A k \in 1..Len(q) : p[k] = q[k]
          /\ \A k \in (Len(q) + 1)..(Len(q) + Len(e)) : p[k] = e[k - Len(q)]
        BY ZenonT(60), <1>6, <1>10, JoinSteps
    <2>2. Len(q) + 1 \in (Len(q) + 1)..(Len(q) + Len(e)) /\ (Len(q) + 1) - Len(q) = 1
        BY <1>5, <2>1
    <2>3. p[Len(q) + 1] = x
        BY <1>5, <2>1, <2>2
    <2> QED
        BY <1>5, <2>1, <2>3
<1>12. /\ r \in Seq(Steps) /\ Len(r) = Len(st) + Len(p)
       /\ Len(st) \in Nat
       /\ \A k \in 1..Len(st) : r[k] = st[k]
       /\ \A k \in (Len(st) + 1)..(Len(st) + Len(p)) : r[k] = p[k - Len(st)]
    BY <1>8, <1>10, JoinSteps
<1>13. ASSUME NEW k \in 1..Len(r), k > Len(st), k < Len(r) PROVE Quiet(r[k])
    <2>1. k - Len(st) \in 1..Len(q) /\ r[k] = p[k - Len(st)]
        BY <1>11, <1>12, <1>13
    <2> QED
        BY <1>3, <1>11, <2>1
<1>14. Len(r) > Len(st) /\ r[Len(r)] = x
    <2>1. Len(r) - Len(st) = Len(q) + 1 /\ Len(r) \in (Len(st) + 1)..(Len(st) + Len(p))
        BY <1>11, <1>12
    <2> QED
        BY <1>11, <1>12, <2>1
<1> QED
    BY <1>9, <1>12, <1>13, <1>14 DEF MoreWith

\* process_input makes the first step.
LEMMA Popped ==
    ASSUME NEW s, NEW st, Follows(s, st), ProcessInput
    PROVE  /\ st \in Seq(Steps) /\ Len(st) >= 1 /\ st[1] \in Steps /\ Reads(st[1])
           /\ \E t, r : Follows(t, r)' /\ Less(st, r)
<1>1. wire # <<>> /\ wire' = Tail(wire)
    BY DEF ProcessInput
<1>2. Path(s, st, InText) /\ Bytes(st) = wire /\ Now(s) /\ st \in Seq(Steps)
    BY DEF Follows, Path
<1>3. st # <<>>
    <2>1. Bytes(<<>>) = <<>>
        BY DEF Bytes
    <2> QED
        BY <1>1, <1>2, <2>1
<1>4. Len(st) >= 1 /\ st[1] \in Steps /\ Len(st) \in Nat
    BY <1>2, <1>3, EmptySeq
<1>5. st[1].from = s /\ Head(wire) = st[1].byte
    BY <1>2, <1>3, PathRest DEF Path
<1>6. PICK x : x = st[1]
    OBVIOUS
<1>7. Reads(x)
    <2>1. x \in Steps /\ Now(x.from) /\ Head(wire) = x.byte
        BY <1>2, <1>4, <1>5, <1>6
    <2> QED
        BY <1>1, <2>1, ReadsOne
<1>8. PICK r : r = Tail(st)
    OBVIOUS
<1>9. Path(To(x), r, InText) /\ Bytes(r) = wire'
    BY <1>1, <1>2, <1>3, <1>6, <1>8, PathRest
<1>10. Follows(To(x), r)'
    BY <1>7, <1>9 DEF Follows, Reads
<1>11. /\ r \in Seq(Steps) /\ Len(r) = Len(st) - 1
       /\ \A k \in 1..Len(r) : r[k] = st[k + 1]
    BY <1>2, <1>3, <1>8, HeadTailProperties
<1>12. Less(st, r)
    BY <1>4, <1>11 DEF Less
<1> QED
    BY <1>2, <1>4, <1>6, <1>7, <1>10, <1>12

LEMMA WireBytes ==
    ASSUME NEW s, NEW st, Follows(s, st) PROVE wire \in Seq(Byte)
<1>1. st \in Seq(Steps) /\ Bytes(st) = wire
    BY DEF Follows, Path
<1>2. Len(st) \in Nat /\ \A k \in 1..Len(st) : st[k].byte \in Byte
    BY <1>1 DEF Steps
<1>3. Bytes(st) \in Seq(Byte)
    BY <1>2 DEF Bytes
<1> QED
    BY <1>1, <1>3

LEMMA KeyStep ==
    ASSUME NEW s, NEW st, NEW key \in Keys, Follows(s, st), ClientKey(key)
    PROVE  \E r : /\ Follows(s, r)'
                  /\ \/ More(st, r) /\ key.keys = <<>>
                     \/ \E name, x : /\ MoreWith(st, r, x) /\ key.keys = <<name>>
                                     /\ Hears(x, name) /\ ~Completes(x)
<1>1. wire' = Join(wire, key.bytes) /\ UNCHANGED conVars
    BY DEF ClientKey, Join
<1>2. CASE key.keys = <<>> /\ QuietPath(InText, key.bytes, InText)
    BY <1>1, <1>2, QuietPushed
<1>3. ASSUME NEW name, NEW x, key.keys = <<name>>, Loud(key.bytes, x),
             ~Completes(x), Hears(x, name)
      PROVE  \E r : Follows(s, r)' /\ MoreWith(st, r, x)
    BY <1>1, <1>3, LoudPushed
<1> QED
    BY <1>2, <1>3, KeyPath

LEMMA SizeBytes ==
    ASSUME NEW n \in Word
    PROVE  /\ n \div 256 \in Byte /\ n % 256 \in Byte
           /\ Two(n \div 256, n % 256) = n
<1>1. n \in Int /\ 0 <= n /\ n < 256 * 256
    <2>1. PICK m : m = 256 * 256 - 1
        OBVIOUS
    <2>2. m \in Int /\ m < 256 * 256
        BY <2>1
    <2>3. n \in 0..m
        BY <2>1 DEF Word
    <2>4. n \in Int /\ 0 <= n /\ n <= m
        BY <2>2, <2>3
    <2> QED
        BY <2>2, <2>4
<1>2. n \div 256 \in Int /\ n % 256 \in 0..255 /\ n = 256 * (n \div 256) + (n % 256)
    BY <1>1, SMTT(30)
<1> DEFINE q == n \div 256
           r == n % 256
<1>3. q \in Int /\ r \in 0..255 /\ n = 256 * q + r
    BY <1>2
<1> HIDE DEF q, r
<1>4. 0 <= q /\ q <= 255
    BY <1>1, <1>3
<1>5. q \in Byte /\ r \in Byte /\ Two(q, r) = n
    BY <1>3, <1>4 DEF Byte, Two
<1> QED
    BY <1>5 DEF q, r

LEMMA SizeWord ==
    \A a, b \in Byte : Two(a, b) \in Word
<1>1. PICK m : m = 256 * 256 - 1
    OBVIOUS
<1>2. m = 65535 /\ m \in Int
    BY <1>1
<1>3. \A a, b \in Byte : a * 256 + b >= 0 /\ a * 256 + b <= 65535 /\ a * 256 + b \in Int
    BY DEF Byte
<1>4. Word = 0..m
    BY <1>1 DEF Word
<1>5. m \in Int
    BY <1>2
<1>6. \A n \in Int : n >= 0 /\ n <= m => n \in Word
    BY <1>4, <1>5
<1> QED
    BY <1>2, <1>3, <1>6 DEF Two

LEMMA EscapedBytes == ASSUME NEW b \in Byte PROVE Escaped(b) \in Seq(Byte)
<1>1. IAC \in Byte
    BY DEF IAC, Byte
<1> QED
    BY <1>1 DEF Escaped

LEMMA FewBytes ==
    /\ IAC_SB_NAWS \in Seq(Byte) /\ IAC_WILL_TERMINAL_TYPE \in Seq(Byte)
    /\ IAC_SB_TERMINAL_TYPE_IS \in Seq(Byte) /\ <<IAC, SE>> \in Seq(Byte)
<1>1. {IAC, SB, NAWS, WILL, TERMINAL_TYPE, IS, SE} \subseteq Byte
    BY DEF IAC, SB, NAWS, WILL, TERMINAL_TYPE, IS, SE, Byte
<1>2. IAC_SB_NAWS \in Seq(Byte)
    BY <1>1 DEF IAC_SB_NAWS
<1>3. IAC_WILL_TERMINAL_TYPE \in Seq(Byte)
    BY <1>1 DEF IAC_WILL_TERMINAL_TYPE
<1>4. IAC_SB_TERMINAL_TYPE_IS \in Seq(Byte)
    BY <1>1 DEF IAC_SB_TERMINAL_TYPE_IS
<1>5. <<IAC, SE>> \in Seq(Byte)
    BY <1>1
<1> QED
    BY <1>2, <1>3, <1>4, <1>5

LEMMA JoinMany ==
    ASSUME NEW w \in Seq(Byte), NEW a \in Seq(Byte), NEW b \in Seq(Byte), NEW c \in Seq(Byte)
    PROVE  /\ Join(Join(Join(w, a), b), c) = Join(w, Join(Join(a, b), c))
           /\ Join(Join(a, b), c) \in Seq(Byte)
<1>1. PICK ab : ab = Join(a, b) /\ ab \in Seq(Byte)
    BY JoinAssociative
<1>2. Join(Join(w, a), b) = Join(w, ab)
    BY <1>1, JoinAssociative
<1>3. Join(Join(w, ab), c) = Join(w, Join(ab, c)) /\ Join(ab, c) \in Seq(Byte)
    BY <1>1, JoinAssociative
<1> QED
    BY <1>1, <1>2, <1>3

LEMMA ResizeStep ==
    ASSUME NEW s, NEW st, NEW z \in Sizes, Follows(s, st), ClientResize(z)
    PROVE  \E r, x : /\ Follows(s, r)' /\ MoreWith(st, r, x)
                     /\ IsSize(x) /\ (\A key : ~Hears(x, key)) /\ SizeOf(x) = z
<1>1. z \in Word \X Word
    BY InputAssumption
<1>2. z[1] \in Word /\ z[2] \in Word /\ z = <<z[1], z[2]>>
    BY <1>1
<1>3. PICK a \in Byte, b \in Byte, c \in Byte, d \in Byte :
         /\ a = z[1] \div 256 /\ b = z[1] % 256 /\ c = z[2] \div 256 /\ d = z[2] % 256
         /\ Two(a, b) = z[1] /\ Two(c, d) = z[2]
    BY <1>2, SizeBytes
<1>4. PICK w, n, ea, eb, ec, ed, e :
         /\ w = wire /\ n = IAC_SB_NAWS /\ e = <<IAC, SE>>
         /\ ea = Escaped(a) /\ eb = Escaped(b) /\ ec = Escaped(c) /\ ed = Escaped(d)
    OBVIOUS
<1>5. /\ w \in Seq(Byte) /\ n \in Seq(Byte) /\ e \in Seq(Byte)
      /\ ea \in Seq(Byte) /\ eb \in Seq(Byte) /\ ec \in Seq(Byte) /\ ed \in Seq(Byte)
    BY <1>4, WireBytes, FewBytes, EscapedBytes
<1>6. wire' = Join(Join(Join(Join(Join(Join(w, n), ea), eb), ec), ed), e)
    BY <1>3, <1>4 DEF ClientResize, Join
<1>7. PICK f : f = Join(Join(n, ea), eb)
    OBVIOUS
<1>8. Join(Join(Join(w, n), ea), eb) = Join(w, f) /\ f \in Seq(Byte)
    BY <1>5, <1>7, JoinMany
<1>9. PICK g : g = Join(Join(f, ec), ed)
    OBVIOUS
<1>10. Join(Join(Join(w, f), ec), ed) = Join(w, g) /\ g \in Seq(Byte)
    BY <1>5, <1>8, <1>9, JoinMany
<1>11. Join(Join(w, g), e) = Join(w, Join(g, e))
    BY <1>5, <1>10, JoinAssociative
<1>12. wire' = Join(wire, Join(g, e))
    BY <1>4, <1>6, <1>8, <1>10, <1>11
<1>13. Join(g, e) = SizeMessage(a, b, c, d)
    BY <1>4, <1>7, <1>9 DEF SizeMessage
<1>14. PICK x : /\ Loud(SizeMessage(a, b, c, d), x) /\ IsSize(x) /\ \A key : ~Hears(x, key)
                /\ Width(Whole(x)) = z[1] /\ Height(Whole(x)) = z[2]
    <2>1. a \in Byte /\ b \in Byte /\ c \in Byte /\ d \in Byte
        BY <1>3
    <2>2. Sized(SizeMessage(a, b, c, d), Two(a, b), Two(c, d))
        BY <2>1, LoudSize
    <2>3. Sized(SizeMessage(a, b, c, d), z[1], z[2])
        BY <1>3, <2>2
    <2> QED
        BY <2>3 DEF Sized
<1>15. SizeOf(x) = z
    BY <1>2, <1>3, <1>14 DEF SizeOf
<1>16. UNCHANGED conVars
    BY DEF ClientResize
<1>17. \E r : Follows(s, r)' /\ MoreWith(st, r, x)
    BY <1>12, <1>13, <1>14, <1>16, LoudPushed
<1> QED
    BY <1>14, <1>15, <1>17

LEMMA AgreeStep ==
    ASSUME NEW s, NEW st, Follows(s, st), ClientAgrees
    PROVE  \E r, x : /\ Follows(s, r)' /\ MoreWith(st, r, x)
                     /\ IsWill(x) /\ \A key : ~Hears(x, key)
<1>1. wire' = Join(wire, IAC_WILL_TERMINAL_TYPE) /\ UNCHANGED conVars
    BY DEF ClientAgrees, Join
<1>2. PICK x : Loud(IAC_WILL_TERMINAL_TYPE, x) /\ IsWill(x) /\ \A key : ~Hears(x, key)
    BY LoudWill
<1>3. \E r : Follows(s, r)' /\ MoreWith(st, r, x)
    BY <1>1, <1>2, LoudPushed
<1> QED
    BY <1>2, <1>3

\* A name that a client has for its terminal, as the proofs need it.
LEMMA NameBytes ==
    ASSUME NEW list \in TypeLists
    PROVE  /\ Len(list) \in Nat \ {0}
           /\ \A k \in 1..Len(list) : /\ list[k] \in Seq(Byte) /\ Len(list[k]) \in 1..(Longest - 5)
                                      /\ \A j \in 1..Len(list[k]) : list[k][j] \notin {IAC, 0}
<1>0. PICK T : T = 1..254
    OBVIOUS
<1>1. list # <<>> /\ list \in Seq(Seq(T)) /\ \A k \in DOMAIN list : Len(list[k]) \in 1..(Longest - 5)
    BY <1>0, InputAssumption
<1>2. Len(list) \in Nat \ {0} /\ DOMAIN list = 1..Len(list)
    BY <1>1, EmptySeq
<1>3. ASSUME NEW k \in 1..Len(list)
      PROVE  /\ list[k] \in Seq(Byte) /\ Len(list[k]) \in 1..(Longest - 5)
             /\ \A j \in 1..Len(list[k]) : list[k][j] \notin {IAC, 0}
    <2>1. PICK name : name = list[k]
        OBVIOUS
    <2>2. name \in Seq(T) /\ Len(name) \in 1..(Longest - 5)
        <3>1. PICK m \in Nat : m = Len(list)
            BY <1>2
        <3>2. k \in 1..m /\ k \in DOMAIN list
            BY <1>2, <3>1
        <3>3. list[k] \in Seq(T)
            BY <1>1, <3>1, <3>2, ElementOfSeq
        <3>4. Len(list[k]) \in 1..(Longest - 5)
            BY <1>1, <3>2
        <3> QED
            BY <2>1, <3>3, <3>4
    <2>3. T \subseteq Byte /\ IAC \notin T /\ 0 \notin T
        BY <1>0 DEF Byte, IAC
    <2>4. \A j \in 1..Len(name) : name[j] \in T
        BY <2>2
    <2>5. name \in Seq(Byte) /\ \A j \in 1..Len(name) : name[j] \notin {IAC, 0}
        BY <2>2, <2>3, <2>4
    <2> QED
        BY <2>1, <2>2, <2>5
<1> QED
    BY <1>2, <1>3

\* A client stays with its list of types, and with a place in it.
Offering == types \in TypeLists /\ typeAt \in 1..(Len(types) + 1)
Said == IF typeAt > Len(types) THEN Len(types) ELSE typeAt

LEMMA OfferingFirst == ASSUME Init PROVE Offering
<1>1. types \in TypeLists /\ typeAt = 1
    BY DEF Init
<1>2. Len(types) \in Nat
    BY <1>1, NameBytes
<1> QED
    BY <1>1, <1>2 DEF Offering

LEMMA OfferingStep == ASSUME Offering, [Next]_vars PROVE Offering'
<1>1. types \in TypeLists /\ typeAt \in 1..(Len(types) + 1)
    BY DEF Offering
<1>2. Len(types) \in Nat \ {0}
    BY <1>1, NameBytes
<1>3. CASE ClientAnswers
    <2>1. types' = types /\ typeAt' = IF typeAt > Len(types) THEN 1 ELSE typeAt + 1
        BY <1>3 DEF ClientAnswers
    <2> QED
        BY <1>1, <1>2, <2>1 DEF Offering
<1>4. CASE ~ClientAnswers
    <2>1. UNCHANGED <<types, typeAt>>
        BY <1>4 DEF Next, Client, ClientKey, ClientResize, ClientAgrees, ProcessInput,
                    clientVars, vars
    <2> QED
        BY <1>1, <2>1 DEF Offering
<1> QED
    BY <1>3, <1>4

LEMMA AnswerStep ==
    ASSUME NEW s, NEW st, Follows(s, st), ClientAnswers, Offering
    PROVE  \E r, x : /\ Follows(s, r)' /\ MoreWith(st, r, x)
                     /\ IsType(x) /\ (\A key : ~Hears(x, key))
                     /\ TerminalName(Whole(x)) = Offered(types, Said)
<1>1. PICK said, name : said = Said /\ name = types[said]
    OBVIOUS
<1>2. types \in TypeLists /\ Len(types) \in Nat \ {0} /\ said \in 1..Len(types)
    <2>1. types \in TypeLists /\ typeAt \in 1..(Len(types) + 1)
        BY DEF Offering
    <2>2. Len(types) \in Nat \ {0}
        BY <2>1, NameBytes
    <2> QED
        BY <1>1, <2>1, <2>2 DEF Said
<1>3. /\ name \in Seq(Byte) /\ Len(name) \in 1..(Longest - 5)
      /\ \A j \in 1..Len(name) : name[j] \notin {IAC, 0}
    BY <1>1, <1>2, NameBytes
<1>4. PICK w, n, e : w = wire /\ n = IAC_SB_TERMINAL_TYPE_IS /\ e = <<IAC, SE>>
    OBVIOUS
<1>5. w \in Seq(Byte) /\ n \in Seq(Byte) /\ e \in Seq(Byte)
    BY <1>4, WireBytes, FewBytes
<1>6. wire' = Join(Join(Join(w, n), name), e)
    BY <1>1, <1>4 DEF ClientAnswers, Join, Said
<1>7. wire' = Join(wire, TypeMessage(name))
    <2>1. Join(Join(Join(w, n), name), e) = Join(w, Join(Join(n, name), e))
        BY <1>3, <1>5, JoinMany
    <2>2. TypeMessage(name) = Join(Join(n, name), e)
        BY <1>4 DEF TypeMessage
    <2> QED
        BY <1>4, <1>6, <2>1, <2>2
<1>8. PICK x : /\ Loud(TypeMessage(name), x) /\ IsType(x) /\ \A key : ~Hears(x, key)
               /\ TerminalName(Whole(x)) = UpperCase(name)
    BY <1>3, LoudType
<1>9. UNCHANGED conVars
    BY DEF ClientAnswers
<1>10. \E r : Follows(s, r)' /\ MoreWith(st, r, x)
    BY <1>7, <1>8, <1>9, LoudPushed
<1> QED
    BY <1>1, <1>8, <1>10 DEF Offered

-----------------------------------------------------------------------------
(* The facts of every invariant: how it begins, what a step does.           *)

LEMMA AtFirst == ASSUME Init PROVE Follows(InText, <<>>)
<1>1. <<>> \in Seq(Steps) /\ Len(<<>>) = 0
    OBVIOUS
<1>2. Path(InText, <<>>, InText)
    BY <1>1 DEF Path
<1>3. Bytes(<<>>) = <<>>
    BY <1>1 DEF Bytes
<1>4. Now(InText)
    BY DEF Init, Now, InText, State, Telnets, Vt100s
<1> QED
    BY <1>2, <1>3, <1>4 DEF Init, Follows

LEMMA Stays ==
    ASSUME NEW s, NEW st, Follows(s, st), UNCHANGED <<wire, conVars>> PROVE Follows(s, st)'
BY DEF Follows, Now, conVars, telnetVars, vt100Vars

LEMMA AllRead ==
    ASSUME NEW s, NEW st, Follows(s, st), wire = <<>>
    PROVE  st = <<>> /\ Len(st) = 0 /\ s = InText
<1>1. st \in Seq(Steps) /\ Len(st) \in Nat /\ Bytes(st) = <<>>
    BY DEF Follows, Path
<1>2. Len(Bytes(st)) = Len(st)
    BY <1>1 DEF Bytes
<1>3. Len(<<>>) = 0
    OBVIOUS
<1>4. st = <<>>
    BY <1>1, <1>2, <1>3, EmptySeq
<1> QED
    BY <1>3, <1>4 DEF Follows, Path

LEMMA WholeBytes == ASSUME NEW x \in Steps PROVE Whole(x) \in Seq(Byte)
<1>1. x.from.bytes \in Seq(Byte) /\ x.byte \in Byte
    BY DEF Steps, States
<1> QED
    BY <1>1, AppendProperties DEF Whole

LEMMA StepKinds ==
    ASSUME NEW x \in Steps
    PROVE  /\ ~(IsSize(x) /\ IsWill(x)) /\ ~(IsSize(x) /\ IsType(x)) /\ ~(IsWill(x) /\ IsType(x))
BY WholeBytes, OneKind DEF IsSize, IsWill, IsType

\* What a step that completes a command makes of it.
LEMMA ReadsCommand ==
    ASSUME NEW x \in Steps, Reads(x)
    PROVE  /\ IsSize(x) => KeepWindow(Whole(x))
           /\ IsWill(x) => StartNegotiation
           /\ IsType(x) => KeepTerminalType(TerminalName(Whole(x))) /\ UNCHANGED window
           /\ ~IsSize(x) /\ ~IsWill(x) /\ ~IsType(x) => UNCHANGED <<typeVars, window>>
<1>1. PICK w : w = Whole(x) /\ w \in Seq(Byte)
    BY WholeBytes
<1>2. CASE Completes(x)
    <2>1. ProcessTelnetCommand(w)
        BY <1>1, <1>2 DEF Reads
    <2>2. /\ IsSize(x) <=> IsPrefix(IAC_SB_NAWS, w)
          /\ IsWill(x) <=> IsPrefix(IAC_WILL_TERMINAL_TYPE, w)
          /\ IsType(x) <=> IsPrefix(IAC_SB_TERMINAL_TYPE_IS, w)
        BY <1>1, <1>2 DEF IsSize, IsWill, IsType
    <2>3. /\ ~(IsPrefix(IAC_SB_NAWS, w) /\ IsPrefix(IAC_WILL_TERMINAL_TYPE, w))
          /\ ~(IsPrefix(IAC_SB_NAWS, w) /\ IsPrefix(IAC_SB_TERMINAL_TYPE_IS, w))
          /\ ~(IsPrefix(IAC_WILL_TERMINAL_TYPE, w) /\ IsPrefix(IAC_SB_TERMINAL_TYPE_IS, w))
        BY <1>1, OneKind
    <2> QED
        BY <1>1, <2>1, <2>2, <2>3 DEF ProcessTelnetCommand
<1>3. CASE ~Completes(x)
    BY <1>3 DEF Reads, IsSize, IsWill, IsType
<1> QED
    BY <1>2, <1>3

-----------------------------------------------------------------------------
(* The window.                                                              *)

LEMMA SizesKept ==
    ASSUME NEW st \in Seq(Steps), NEW r \in Seq(Steps), Len(r) >= Len(st),
           \A k \in 1..Len(st) : r[k] = st[k],
           \A k \in 1..Len(r) : k > Len(st) => ~IsSize(r[k]),
           SizesOf(st), UNCHANGED <<window, size>>
    PROVE  SizesOf(r)'
<1>1. Len(st) \in Nat /\ Len(r) \in Nat
    OBVIOUS
<1>2. ASSUME NEW k \in 1..Len(r), IsSize(r[k]) PROVE k \in 1..Len(st) /\ r[k] = st[k]
    BY <1>1, <1>2
<1>3. \A k \in 1..Len(st) : k \in 1..Len(r)
    BY <1>1
<1>4. \A k \in 1..Len(r) : IsSize(r[k]) => SizeOf(r[k]) \in Word \X Word
    BY <1>2 DEF SizesOf
<1>5. (\A k \in 1..Len(r) : ~IsSize(r[k])) => window' = size'
    BY <1>3 DEF SizesOf
<1>6. ASSUME NEW k \in 1..Len(r), IsSize(r[k]), \A j \in 1..Len(r) : j > k => ~IsSize(r[j])
      PROVE  SizeOf(r[k]) = size'
    <2>1. k \in 1..Len(st) /\ r[k] = st[k]
        BY <1>2, <1>6
    <2>2. \A j \in 1..Len(st) : j > k => ~IsSize(st[j])
        BY <1>3, <1>6
    <2> QED
        BY <1>6, <2>1, <2>2 DEF SizesOf
<1>7. window' \in Word \X Word /\ size' \in Word \X Word
    BY DEF SizesOf
<1> QED
    BY <1>4, <1>5, <1>6, <1>7 DEF SizesOf

LEMMA SizesLast ==
    ASSUME NEW st \in Seq(Steps), NEW r, NEW x, MoreWith(st, r, x), IsSize(x), SizesOf(st),
           UNCHANGED window, size' = SizeOf(x), size' \in Word \X Word
    PROVE  SizesOf(r)'
<1>1. /\ r \in Seq(Steps) /\ Len(st) \in Nat /\ Len(r) \in Nat /\ Len(r) > Len(st)
      /\ r[Len(r)] = x /\ Len(r) \in 1..Len(r)
    BY DEF MoreWith
<1>2. ASSUME NEW k \in 1..Len(r), IsSize(r[k])
      PROVE  (k \in 1..Len(st) /\ r[k] = st[k]) \/ k = Len(r)
    <2>1. CASE k > Len(st) /\ k < Len(r)
        BY <1>2, <2>1 DEF MoreWith, Quiet
    <2>2. CASE ~(k > Len(st) /\ k < Len(r))
        BY <1>1, <2>2 DEF MoreWith
    <2> QED
        BY <2>1, <2>2
<1>3. \A k \in 1..Len(r) : IsSize(r[k]) => SizeOf(r[k]) \in Word \X Word
    BY <1>1, <1>2 DEF SizesOf
<1>4. ~(\A k \in 1..Len(r) : ~IsSize(r[k]))
    BY <1>1
<1>5. ASSUME NEW k \in 1..Len(r), IsSize(r[k]), \A j \in 1..Len(r) : j > k => ~IsSize(r[j])
      PROVE  SizeOf(r[k]) = size'
    <2>1. k = Len(r)
        BY <1>1, <1>5
    <2> QED
        BY <1>1, <2>1
<1>6. window' \in Word \X Word
    BY DEF SizesOf
<1> QED
    BY <1>3, <1>4, <1>5, <1>6 DEF SizesOf

LEMMA SizesNext ==
    ASSUME NEW st \in Seq(Steps), Len(st) >= 1, st[1] \in Steps, Reads(st[1]),
           NEW r, Less(st, r), SizesOf(st), UNCHANGED size
    PROVE  SizesOf(r)'
<1>1. /\ r \in Seq(Steps) /\ Len(r) \in Nat /\ Len(st) \in Nat /\ Len(st) = Len(r) + 1
      /\ \A k \in 1..Len(r) : r[k] = st[k + 1] /\ k + 1 \in 1..Len(st)
      /\ 1 \in 1..Len(st)
    BY DEF Less
<1>2. \A k \in 1..Len(r) : IsSize(r[k]) => SizeOf(r[k]) \in Word \X Word
    BY <1>1 DEF SizesOf
<1>3. ASSUME NEW k \in 1..Len(r), IsSize(r[k]), \A j \in 1..Len(r) : j > k => ~IsSize(r[j])
      PROVE  SizeOf(r[k]) = size'
    <2>1. IsSize(st[k + 1]) /\ k + 1 \in 1..Len(st)
        BY <1>1, <1>3
    <2>2. ASSUME NEW j \in 1..Len(st), j > k + 1 PROVE ~IsSize(st[j])
        <3>1. j - 1 \in 1..Len(r) /\ j - 1 > k /\ (j - 1) + 1 = j
            BY <1>1, <2>2
        <3>2. r[j - 1] = st[j]
            BY <1>1, <3>1
        <3> QED
            BY <1>3, <3>1, <3>2
    <2>3. SizeOf(st[k + 1]) = size
        BY <2>1, <2>2 DEF SizesOf
    <2> QED
        BY <1>1, <2>3
<1>4. (\A k \in 1..Len(r) : ~IsSize(r[k])) => \A j \in 1..Len(st) : j > 1 => ~IsSize(st[j])
    <2> SUFFICES ASSUME \A k \in 1..Len(r) : ~IsSize(r[k]), NEW j \in 1..Len(st), j > 1
                 PROVE  ~IsSize(st[j])
        OBVIOUS
    <2>1. j - 1 \in 1..Len(r) /\ (j - 1) + 1 = j
        BY <1>1
    <2>2. r[j - 1] = st[j]
        BY <1>1, <2>1
    <2> QED
        BY <2>1, <2>2
<1>5. CASE IsSize(st[1])
    <2>1. window' = SizeOf(st[1])
        <3>1. KeepWindow(Whole(st[1]))
            BY <1>5, ReadsCommand
        <3> QED
            BY <3>1 DEF KeepWindow, SizeOf, Width, Height, Two
    <2>2. window' \in Word \X Word /\ size' \in Word \X Word
        BY <1>1, <1>5, <2>1 DEF SizesOf
    <2>3. (\A k \in 1..Len(r) : ~IsSize(r[k])) => window' = size'
        BY <1>1, <1>4, <1>5, <2>1 DEF SizesOf
    <2> QED
        BY <1>2, <1>3, <2>2, <2>3 DEF SizesOf
<1>6. CASE ~IsSize(st[1])
    <2>1. window' = window
        BY <1>6, ReadsCommand DEF StartNegotiation
    <2>2. window' \in Word \X Word /\ size' \in Word \X Word
        BY <2>1 DEF SizesOf
    <2>3. (\A k \in 1..Len(r) : ~IsSize(r[k])) => window' = size'
        <3> SUFFICES ASSUME \A k \in 1..Len(r) : ~IsSize(r[k]) PROVE window' = size'
            OBVIOUS
        <3>1. \A j \in 1..Len(st) : ~IsSize(st[j])
            <4> SUFFICES ASSUME NEW j \in 1..Len(st) PROVE ~IsSize(st[j])
                OBVIOUS
            <4>1. j = 1 \/ j > 1
                BY <1>1
            <4> QED
                BY <1>4, <1>6, <4>1
        <3> QED
            BY <2>1, <3>1 DEF SizesOf
    <2> QED
        BY <1>2, <1>3, <2>2, <2>3 DEF SizesOf
<1> QED
    BY <1>5, <1>6

\* Steps that the client adds and that are no sizes.
LEMMA SizesPushed ==
    ASSUME NEW st \in Seq(Steps), NEW r, SizesOf(st), UNCHANGED <<window, size>>,
           More(st, r) \/ \E x : MoreWith(st, r, x) /\ ~IsSize(x)
    PROVE  SizesOf(r)'
<1>1. /\ r \in Seq(Steps) /\ Len(r) >= Len(st) /\ Len(r) \in Nat /\ Len(st) \in Nat
      /\ \A k \in 1..Len(st) : r[k] = st[k]
    BY DEF More, MoreWith
<1>2. ASSUME NEW k \in 1..Len(r), k > Len(st) PROVE ~IsSize(r[k])
    <2>1. CASE More(st, r)
        BY <1>2, <2>1 DEF More, Quiet
    <2>2. ASSUME NEW x, MoreWith(st, r, x), ~IsSize(x) PROVE ~IsSize(r[k])
        <3>1. k = Len(r) \/ k < Len(r)
            BY <1>1
        <3> QED
            BY <1>2, <2>2, <3>1 DEF MoreWith, Quiet
    <2> QED
        BY <2>1, <2>2
<1> QED
    BY <1>1, <1>2, SizesKept

WindowInv == \E s, st : Follows(s, st) /\ SizesOf(st)

LEMMA WindowFirst == ASSUME Init PROVE WindowInv
<1>1. Len(<<>>) = 0 /\ 1..0 = {}
    OBVIOUS
<1>2. 0 \in Word
    BY DEF Word
<1>3. window = <<0, 0>> /\ size = <<0, 0>>
    BY DEF Init
<1>4. SizesOf(<<>>)
    BY <1>1, <1>2, <1>3 DEF SizesOf
<1> QED
    BY <1>4, AtFirst DEF WindowInv

LEMMA WindowStep == ASSUME WindowInv, Offering, [Next]_vars PROVE WindowInv'
<1>1. PICK s, st : Follows(s, st) /\ SizesOf(st)
    BY DEF WindowInv
<1>2. st \in Seq(Steps)
    BY <1>1 DEF Follows, Path
<1>3. SUFFICES \E t, r : Follows(t, r)' /\ SizesOf(r)'
    BY DEF WindowInv
<1>4. ASSUME NEW key \in Keys, ClientKey(key) PROVE \E t, r : Follows(t, r)' /\ SizesOf(r)'
    <2>1. UNCHANGED <<window, size>>
        BY <1>4 DEF ClientKey, conVars, clientVars
    <2>2. PICK r : /\ Follows(s, r)'
                   /\ \/ More(st, r) /\ key.keys = <<>>
                      \/ \E name, x : /\ MoreWith(st, r, x) /\ key.keys = <<name>>
                                      /\ Hears(x, name) /\ ~Completes(x)
        BY <1>1, <1>4, KeyStep
    <2>3. More(st, r) \/ \E x : MoreWith(st, r, x) /\ ~IsSize(x)
        BY <2>2 DEF IsSize
    <2> QED
        BY <1>1, <1>2, <2>1, <2>2, <2>3, SizesPushed
<1>5. ASSUME NEW z \in Sizes, ClientResize(z) PROVE \E t, r : Follows(t, r)' /\ SizesOf(r)'
    <2>1. PICK r, x : /\ Follows(s, r)' /\ MoreWith(st, r, x)
                      /\ IsSize(x) /\ (\A key : ~Hears(x, key)) /\ SizeOf(x) = z
        BY <1>1, <1>5, ResizeStep
    <2>2. UNCHANGED window /\ size' = SizeOf(x) /\ size' \in Word \X Word
        <3>1. UNCHANGED window /\ size' = z
            BY <1>5 DEF ClientResize, conVars
        <3>2. z \in Word \X Word
            BY InputAssumption
        <3> QED
            BY <2>1, <3>1, <3>2
    <2> QED
        BY <1>1, <1>2, <2>1, <2>2, SizesLast
<1>6. CASE ClientAgrees
    <2>1. UNCHANGED <<window, size>>
        BY <1>6 DEF ClientAgrees, conVars
    <2>2. PICK r, x : Follows(s, r)' /\ MoreWith(st, r, x) /\ IsWill(x)
        BY <1>1, <1>6, AgreeStep
    <2>3. x \in Steps
        BY <2>2 DEF MoreWith
    <2>4. ~IsSize(x)
        BY <2>2, <2>3, StepKinds
    <2> QED
        BY <1>1, <1>2, <2>1, <2>2, <2>4, SizesPushed
<1>7. CASE ClientAnswers
    <2>1. UNCHANGED <<window, size>>
        BY <1>7 DEF ClientAnswers, conVars
    <2>2. PICK r, x : Follows(s, r)' /\ MoreWith(st, r, x) /\ IsType(x)
        BY <1>1, <1>7, AnswerStep
    <2>3. x \in Steps
        BY <2>2 DEF MoreWith
    <2>4. ~IsSize(x)
        BY <2>2, <2>3, StepKinds
    <2> QED
        BY <1>1, <1>2, <2>1, <2>2, <2>4, SizesPushed
<1>8. CASE ProcessInput
    <2>1. /\ Len(st) >= 1 /\ st[1] \in Steps /\ Reads(st[1])
          /\ \E t, r : Follows(t, r)' /\ Less(st, r)
        BY <1>1, <1>8, Popped
    <2>2. UNCHANGED size
        BY <1>8 DEF ProcessInput, clientVars
    <2> QED
        BY <1>1, <1>2, <2>1, <2>2, SizesNext
<1>9. CASE UNCHANGED vars
    <2>1. UNCHANGED <<wire, conVars>> /\ UNCHANGED <<window, size>>
        BY <1>9 DEF vars, conVars, clientVars
    <2>2. Follows(s, st)' /\ SizesOf(st)'
        BY <1>1, <2>1, Stays DEF SizesOf
    <2> QED
        BY <2>2
<1> QED
    BY <1>4, <1>5, <1>6, <1>7, <1>8, <1>9 DEF Next, Client

\* When all bytes are read, win_w and win_h are the window the client has said
\* last (processTelnetCommand, hello.c): for any sizes and whatever is sent
\* between and behind them.
THEOREM WindowKept == Spec => []WindowKnown
<1>1. Init => WindowInv /\ Offering
    BY WindowFirst, OfferingFirst
<1>2. WindowInv /\ Offering /\ [Next]_vars => (WindowInv /\ Offering)'
    BY WindowStep, OfferingStep
<1>3. WindowInv => WindowKnown
    <2> SUFFICES ASSUME WindowInv, wire = <<>> PROVE window = size
        BY DEF WindowKnown
    <2>1. PICK s, st : Follows(s, st) /\ SizesOf(st)
        BY DEF WindowInv
    <2>2. Len(st) = 0
        BY <2>1, AllRead
    <2> QED
        BY <2>1, <2>2 DEF SizesOf
<1> QED
    BY <1>1, <1>2, <1>3, PTL DEF Spec

-----------------------------------------------------------------------------
(* The keys.                                                                *)

\* Steps that the client adds and that hear nothing.
LEMMA KeysKept ==
    ASSUME NEW st \in Seq(Steps), NEW r, KeysOf(st), UNCHANGED keyVars,
           More(st, r) \/ \E x : MoreWith(st, r, x) /\ \A key : ~Hears(x, key)
    PROVE  KeysOf(r)'
<1>1. /\ r \in Seq(Steps) /\ Len(r) >= Len(st) /\ Len(r) \in Nat /\ Len(st) \in Nat
      /\ \A k \in 1..Len(st) : r[k] = st[k]
    BY DEF More, MoreWith
<1>2. ASSUME NEW k \in 1..Len(r), k > Len(st), NEW key PROVE ~Hears(r[k], key)
    <2>1. CASE More(st, r)
        BY <1>2, <2>1 DEF More, Quiet
    <2>2. ASSUME NEW x, MoreWith(st, r, x), \A n : ~Hears(x, n) PROVE ~Hears(r[k], key)
        <3>1. k = Len(r) \/ k < Len(r)
            BY <1>1
        <3> QED
            BY <1>2, <2>2, <3>1 DEF MoreWith, Quiet
    <2> QED
        BY <2>1, <2>2
<1>3. PICK at : HeardAt(st, at)
    BY DEF KeysOf
<1>4. PICK u : u = unheard /\ u = unheard' /\ u \in Seq(Presses)
    BY DEF KeysOf, keyVars
<1>5. /\ at \in [1..Len(u) -> 1..Len(st)]
      /\ \A i \in 1..Len(u), j \in 1..Len(u) : i < j => at[i] < at[j]
      /\ \A j \in 1..Len(u) : Hears(st[at[j]], u[j])
      /\ \A k \in 1..Len(st) : (\E key : Hears(st[k], key)) => \E j \in 1..Len(u) : at[j] = k
    BY <1>3, <1>4 DEF HeardAt
<1>6. \A k \in 1..Len(st) : k \in 1..Len(r)
    BY <1>1
<1>7. at \in [1..Len(u) -> 1..Len(r)]
    BY <1>5, <1>6
<1>8. \A j \in 1..Len(u) : Hears(r[at[j]], u[j])
    BY <1>1, <1>5
<1>9. ASSUME NEW k \in 1..Len(r), NEW key, Hears(r[k], key) PROVE \E j \in 1..Len(u) : at[j] = k
    <2>1. k \in 1..Len(st) /\ r[k] = st[k]
        BY <1>1, <1>2, <1>9
    <2> QED
        BY <1>5, <1>9, <2>1
<1>10. HeardAt(r, at)'
    BY <1>4, <1>5, <1>7, <1>8, <1>9 DEF HeardAt
<1>11. ~misheard'
    BY DEF KeysOf, keyVars
<1> QED
    BY <1>4, <1>10, <1>11 DEF KeysOf

\* The steps of a key.
LEMMA KeysLast ==
    ASSUME NEW st \in Seq(Steps), NEW r, NEW x, NEW name \in Presses, KeysOf(st),
           MoreWith(st, r, x), Hears(x, name),
           unheard' = Append(unheard, name), UNCHANGED misheard
    PROVE  KeysOf(r)'
<1>1. /\ r \in Seq(Steps) /\ Len(st) \in Nat /\ Len(r) \in Nat /\ Len(r) > Len(st)
      /\ r[Len(r)] = x /\ Len(r) \in 1..Len(r)
      /\ \A k \in 1..Len(st) : r[k] = st[k] /\ k \in 1..Len(r)
    BY DEF MoreWith
<1>2. ASSUME NEW k \in 1..Len(r), NEW key, Hears(r[k], key) PROVE k \in 1..Len(st) \/ k = Len(r)
    <2>1. CASE k > Len(st) /\ k < Len(r)
        BY <1>2, <2>1 DEF MoreWith, Quiet
    <2>2. CASE ~(k > Len(st) /\ k < Len(r))
        BY <1>1, <2>2
    <2> QED
        BY <2>1, <2>2
<1>3. PICK at : HeardAt(st, at)
    BY DEF KeysOf
<1>4. PICK u, v, n : u = unheard /\ v = unheard' /\ n = Len(u) /\ u \in Seq(Presses)
    BY DEF KeysOf
<1>5. /\ n \in Nat /\ at \in [1..n -> 1..Len(st)]
      /\ \A i \in 1..n, j \in 1..n : i < j => at[i] < at[j]
      /\ \A j \in 1..n : Hears(st[at[j]], u[j])
      /\ \A k \in 1..Len(st) : (\E key : Hears(st[k], key)) => \E j \in 1..n : at[j] = k
    BY <1>3, <1>4 DEF HeardAt
<1>6. /\ v \in Seq(Presses) /\ Len(v) = n + 1 /\ v[n + 1] = name
      /\ \A j \in 1..n : v[j] = u[j]
    <2>1. v = Append(u, name)
        BY <1>4
    <2> QED
        BY <1>4, <2>1, AppendProperties
<1>7. PICK g : g = [j \in 1..(n + 1) |-> IF j = n + 1 THEN Len(r) ELSE at[j]]
    OBVIOUS
<1>8. g \in [1..Len(v) -> 1..Len(r)]
    <2>1. ASSUME NEW j \in 1..(n + 1) PROVE (IF j = n + 1 THEN Len(r) ELSE at[j]) \in 1..Len(r)
        <3>1. CASE j = n + 1
            BY <1>1, <3>1
        <3>2. CASE j # n + 1
            <4>1. j \in 1..n
                BY <1>5, <3>2
            <4>2. at[j] \in 1..Len(st)
                BY <1>5, <4>1
            <4> QED
                BY <1>1, <3>2, <4>2
        <3> QED
            BY <3>1, <3>2
    <2> QED
        BY <1>6, <1>7, <2>1
<1>9. /\ g[n + 1] = Len(r)
      /\ \A j \in 1..n : g[j] = at[j] /\ g[j] \in 1..Len(st)
    BY <1>5, <1>7
<1>10. \A j \in 1..(n + 1) : j = n + 1 \/ j \in 1..n
    BY <1>5
<1>11. ASSUME NEW i \in 1..(n + 1), NEW j \in 1..(n + 1), i < j PROVE g[i] < g[j]
    <2>1. i \in 1..n
        BY <1>5, <1>11
    <2>2. CASE j = n + 1
        <3>1. g[i] \in 1..Len(st) /\ g[j] = Len(r)
            BY <1>9, <2>1, <2>2
        <3> QED
            BY <1>1, <3>1
    <2>3. CASE j \in 1..n
        BY <1>5, <1>9, <1>11, <2>1, <2>3
    <2> QED
        BY <1>10, <2>2, <2>3
<1>12. ASSUME NEW j \in 1..(n + 1) PROVE Hears(r[g[j]], v[j])
    <2>1. CASE j = n + 1
        BY <1>1, <1>6, <1>9, <2>1
    <2>2. CASE j \in 1..n
        <3>1. r[g[j]] = st[at[j]] /\ v[j] = u[j]
            BY <1>1, <1>6, <1>9, <2>2
        <3> QED
            BY <1>5, <2>2, <3>1
    <2> QED
        BY <1>10, <2>1, <2>2
<1>13. ASSUME NEW k \in 1..Len(r), NEW key, Hears(r[k], key)
       PROVE  \E j \in 1..(n + 1) : g[j] = k
    <2>1. CASE k \in 1..Len(st)
        <3>1. PICK j \in 1..n : at[j] = k
            BY <1>1, <1>5, <1>13, <2>1
        <3>2. j \in 1..(n + 1) /\ g[j] = k
            BY <1>5, <1>9, <3>1
        <3> QED
            BY <3>2
    <2>2. CASE k = Len(r)
        <3>1. n + 1 \in 1..(n + 1)
            BY <1>5
        <3> QED
            BY <1>9, <2>2, <3>1
    <2> QED
        BY <1>2, <1>13, <2>1, <2>2
<1>14. HeardAt(r, g)'
    BY <1>4, <1>6, <1>8, <1>11, <1>12, <1>13 DEF HeardAt
<1> QED
    BY <1>4, <1>6, <1>14 DEF KeysOf

\* The first step is made: it hears the first key, or none.
LEMMA KeysNext ==
    ASSUME NEW st \in Seq(Steps), Len(st) >= 1, st[1] \in Steps, Reads(st[1]),
           NEW r, Less(st, r), KeysOf(st)
    PROVE  KeysOf(r)'
<1>1. /\ r \in Seq(Steps) /\ Len(r) \in Nat /\ Len(st) \in Nat /\ Len(st) = Len(r) + 1
      /\ \A k \in 1..Len(r) : r[k] = st[k + 1] /\ k + 1 \in 1..Len(st)
      /\ \A k \in 1..Len(st) : k = 1 \/ (k - 1 \in 1..Len(r) /\ r[k - 1] = st[k])
      /\ 1 \in 1..Len(st)
    <2>1. /\ r \in Seq(Steps) /\ Len(r) \in Nat /\ Len(st) \in Nat /\ Len(st) = Len(r) + 1
          /\ \A k \in 1..Len(r) : r[k] = st[k + 1]
        BY DEF Less
    <2>2. ASSUME NEW k \in 1..Len(st), k # 1 PROVE k - 1 \in 1..Len(r) /\ r[k - 1] = st[k]
        <3>1. k - 1 \in 1..Len(r) /\ (k - 1) + 1 = k
            BY <2>1, <2>2
        <3> QED
            BY <2>1, <3>1
    <2> QED
        BY <2>1, <2>2
<1>2. PICK at : HeardAt(st, at)
    BY DEF KeysOf
<1>3. PICK u, v, n : u = unheard /\ v = unheard' /\ n = Len(u) /\ u \in Seq(Presses)
    BY DEF KeysOf
<1>4. /\ n \in Nat /\ at \in [1..n -> 1..Len(st)]
      /\ \A i \in 1..n, j \in 1..n : i < j => at[i] < at[j]
      /\ \A j \in 1..n : Hears(st[at[j]], u[j])
      /\ \A k \in 1..Len(st) : (\E key : Hears(st[k], key)) => \E j \in 1..n : at[j] = k
    BY <1>2, <1>3 DEF HeardAt
<1>5. ~misheard
    BY DEF KeysOf
<1>6. CASE \A key : ~Hears(st[1], key)
    <2>1. v = u /\ misheard' = misheard
        BY <1>3, <1>6 DEF Reads, keyVars
    <2>2. \A j \in 1..n : at[j] \in 1..Len(st) /\ at[j] # 1
        BY <1>4, <1>6
    <2>3. PICK g : g = [j \in 1..n |-> at[j] - 1]
        OBVIOUS
    <2>4. \A j \in 1..n : g[j] = at[j] - 1 /\ g[j] \in 1..Len(r) /\ r[g[j]] = st[at[j]]
        BY <1>1, <2>2, <2>3
    <2>5. g \in [1..n -> 1..Len(r)]
        BY <2>3, <2>4
    <2>6. ASSUME NEW i \in 1..n, NEW j \in 1..n, i < j PROVE g[i] < g[j]
        <3>1. at[i] < at[j] /\ at[i] \in Int /\ at[j] \in Int
            BY <1>1, <1>4, <2>2, <2>6
        <3> QED
            BY <2>4, <3>1
    <2>7. \A j \in 1..n : Hears(r[g[j]], v[j])
        BY <1>4, <2>1, <2>4
    <2>8. ASSUME NEW k \in 1..Len(r), NEW key, Hears(r[k], key) PROVE \E j \in 1..n : g[j] = k
        <3>1. r[k] = st[k + 1] /\ k + 1 \in 1..Len(st)
            BY <1>1
        <3>2. PICK j \in 1..n : at[j] = k + 1
            BY <1>4, <2>8, <3>1
        <3>3. g[j] = k
            BY <1>1, <2>4, <3>2
        <3> QED
            BY <3>3
    <2>9. HeardAt(r, g)'
        BY <1>3, <2>1, <2>5, <2>6, <2>7, <2>8 DEF HeardAt
    <2> QED
        BY <1>3, <1>5, <2>1, <2>9 DEF KeysOf
<1>7. ASSUME NEW key, Hears(st[1], key) PROVE KeysOf(r)'
    <2>1. PICK i \in 1..n : at[i] = 1
        BY <1>1, <1>4, <1>7
    <2>2. 1 \in 1..n /\ at[1] = 1
        <3>1. 1 \in 1..n
            BY <1>4, <2>1
        <3>2. i = 1 \/ 1 < i
            BY <1>4, <2>1
        <3>3. at[1] \in 1..Len(st)
            BY <1>4, <3>1
        <3>4. 1 < i => at[1] < 1
            BY <1>4, <2>1, <3>1
        <3> QED
            BY <1>1, <2>1, <3>1, <3>2, <3>3, <3>4
    <2>3. Hear(u[1])
        BY <1>4, <2>2 DEF Reads
    <2>4. u # <<>> /\ Head(u) = u[1]
        BY <1>3, <1>4, <2>2, EmptySeq
    <2>5. ~misheard' /\ v = Tail(u)
        BY <1>3, <1>5, <2>3, <2>4 DEF Hear
    <2>6. /\ v \in Seq(Presses) /\ Len(v) = n - 1
          /\ \A j \in 1..(n - 1) : v[j] = u[j + 1]
        BY <1>3, <2>4, <2>5, HeadTailProperties
    <2>7. PICK m \in Nat : m = n - 1
        BY <1>4, <2>2
    <2>8. \A j \in 1..m : j + 1 \in 1..n
        BY <1>4, <2>7
    <2>9. ASSUME NEW j \in 1..m PROVE at[j + 1] \in 1..Len(st) /\ at[j + 1] # 1
        <3>1. j + 1 \in 1..n /\ 1 < j + 1
            BY <2>8
        <3>2. at[1] < at[j + 1]
            BY <1>4, <2>2, <3>1
        <3> QED
            BY <1>4, <2>2, <3>1, <3>2
    <2>10. PICK g : g = [j \in 1..m |-> at[j + 1] - 1]
        OBVIOUS
    <2>11. \A j \in 1..m : g[j] = at[j + 1] - 1 /\ g[j] \in 1..Len(r) /\ r[g[j]] = st[at[j + 1]]
        BY <1>1, <2>9, <2>10
    <2>12. g \in [1..m -> 1..Len(r)]
        BY <2>10, <2>11
    <2>13. ASSUME NEW j \in 1..m, NEW k \in 1..m, j < k PROVE g[j] < g[k]
        <3>1. j + 1 \in 1..n /\ k + 1 \in 1..n /\ j + 1 < k + 1
            BY <2>8, <2>13
        <3>2. at[j + 1] < at[k + 1]
            BY <1>4, <3>1
        <3>3. PICK c \in Int, d \in Int : c = at[j + 1] /\ d = at[k + 1]
            BY <1>1, <2>9
        <3>4. g[j] = c - 1 /\ g[k] = d - 1 /\ c < d
            BY <2>11, <3>2, <3>3
        <3> QED
            BY <3>4
    <2>14. ASSUME NEW j \in 1..m PROVE Hears(r[g[j]], v[j])
        <3>1. v[j] = u[j + 1] /\ r[g[j]] = st[at[j + 1]] /\ j + 1 \in 1..n
            BY <2>6, <2>7, <2>8, <2>11
        <3> QED
            BY <1>4, <3>1
    <2>15. ASSUME NEW k \in 1..Len(r), NEW name, Hears(r[k], name) PROVE \E j \in 1..m : g[j] = k
        <3>1. r[k] = st[k + 1] /\ k + 1 \in 1..Len(st)
            BY <1>1
        <3>2. PICK j \in 1..n : at[j] = k + 1
            BY <1>4, <2>15, <3>1
        <3>3. j # 1
            BY <1>1, <2>2, <3>2
        <3>4. j - 1 \in 1..m /\ (j - 1) + 1 = j
            BY <1>4, <2>7, <3>3
        <3>5. g[j - 1] = at[j] - 1
            BY <2>11, <3>4
        <3>6. g[j - 1] = k
            BY <1>1, <3>2, <3>5
        <3> QED
            BY <3>4, <3>6
    <2>16. HeardAt(r, g)'
        BY <1>3, <2>6, <2>7, <2>12, <2>13, <2>14, <2>15 DEF HeardAt
    <2> QED
        BY <1>3, <2>5, <2>6, <2>16 DEF KeysOf
<1> QED
    BY <1>6, <1>7

KeysInv == \E s, st : Follows(s, st) /\ KeysOf(st)

LEMMA KeysFirst == ASSUME Init PROVE KeysInv
<1>1. Len(<<>>) = 0 /\ 1..0 = {} /\ <<>> \in Seq(Presses)
    OBVIOUS
<1>2. unheard = <<>> /\ ~misheard
    BY DEF Init
<1>3. PICK at : at = [j \in 1..0 |-> 0]
    OBVIOUS
<1>4. at \in [1..0 -> 1..0]
    BY <1>1, <1>3
<1>5. HeardAt(<<>>, at)
    BY <1>1, <1>2, <1>4 DEF HeardAt
<1>6. KeysOf(<<>>)
    BY <1>1, <1>2, <1>5 DEF KeysOf
<1> QED
    BY <1>6, AtFirst DEF KeysInv

LEMMA KeysStep == ASSUME KeysInv, Offering, [Next]_vars PROVE KeysInv'
<1>1. PICK s, st : Follows(s, st) /\ KeysOf(st)
    BY DEF KeysInv
<1>2. st \in Seq(Steps)
    BY <1>1 DEF Follows, Path
<1>3. SUFFICES \E t, r : Follows(t, r)' /\ KeysOf(r)'
    BY DEF KeysInv
<1>4. ASSUME NEW key \in Keys, ClientKey(key) PROVE \E t, r : Follows(t, r)' /\ KeysOf(r)'
    <2>1. PICK r : /\ Follows(s, r)'
                   /\ \/ More(st, r) /\ key.keys = <<>>
                      \/ \E name, x : /\ MoreWith(st, r, x) /\ key.keys = <<name>>
                                      /\ Hears(x, name) /\ ~Completes(x)
        BY <1>1, <1>4, KeyStep
    <2>2. PICK u, v : u = unheard /\ v = unheard' /\ u \in Seq(Presses)
        BY <1>1 DEF KeysOf
    <2>3. v = u \o key.keys /\ UNCHANGED misheard
        BY <1>4, <2>2 DEF ClientKey
    <2>4. CASE More(st, r) /\ key.keys = <<>>
        <3>1. u \o <<>> = u
            BY <2>2
        <3>2. v = u
            BY <2>3, <2>4, <3>1
        <3>3. UNCHANGED keyVars
            BY <2>2, <2>3, <3>2 DEF keyVars
        <3> QED
            BY <1>1, <1>2, <2>1, <2>4, <3>3, KeysKept
    <2>5. ASSUME NEW name, NEW x, MoreWith(st, r, x), key.keys = <<name>>, Hears(x, name)
          PROVE  KeysOf(r)'
        <3>1. name = key.keys[1]
            BY <2>5
        <3>2. name \in Presses
            BY <3>1 DEF Presses
        <3>3. u \o <<name>> = Append(u, name)
            BY <2>2, <3>2
        <3>4. v = Append(u, name)
            BY <2>3, <2>5, <3>3
        <3>5. unheard' = Append(unheard, name)
            BY <2>2, <3>4
        <3> QED
            BY <1>1, <1>2, <2>3, <2>5, <3>2, <3>5, KeysLast
    <2> QED
        BY <2>1, <2>4, <2>5
<1>5. ASSUME NEW z \in Sizes, ClientResize(z) PROVE \E t, r : Follows(t, r)' /\ KeysOf(r)'
    <2>1. PICK r, x : Follows(s, r)' /\ MoreWith(st, r, x) /\ \A key : ~Hears(x, key)
        BY <1>1, <1>5, ResizeStep
    <2>2. UNCHANGED keyVars
        BY <1>5 DEF ClientResize
    <2> QED
        BY <1>1, <1>2, <2>1, <2>2, KeysKept
<1>6. CASE ClientAgrees
    <2>1. PICK r, x : Follows(s, r)' /\ MoreWith(st, r, x) /\ \A key : ~Hears(x, key)
        BY <1>1, <1>6, AgreeStep
    <2>2. UNCHANGED keyVars
        BY <1>6 DEF ClientAgrees
    <2> QED
        BY <1>1, <1>2, <2>1, <2>2, KeysKept
<1>7. CASE ClientAnswers
    <2>1. PICK r, x : Follows(s, r)' /\ MoreWith(st, r, x) /\ \A key : ~Hears(x, key)
        BY <1>1, <1>7, AnswerStep
    <2>2. UNCHANGED keyVars
        BY <1>7 DEF ClientAnswers
    <2> QED
        BY <1>1, <1>2, <2>1, <2>2, KeysKept
<1>8. CASE ProcessInput
    <2>1. /\ Len(st) >= 1 /\ st[1] \in Steps /\ Reads(st[1])
          /\ \E t, r : Follows(t, r)' /\ Less(st, r)
        BY <1>1, <1>8, Popped
    <2> QED
        BY <1>1, <1>2, <2>1, KeysNext
<1>9. CASE UNCHANGED vars
    <2>1. UNCHANGED <<wire, conVars>> /\ unheard' = unheard /\ misheard' = misheard
        BY <1>9 DEF vars, conVars, keyVars
    <2>2. KeysOf(st)'
        BY <1>1, <2>1 DEF KeysOf, HeardAt
    <2> QED
        BY <1>1, <2>1, <2>2, Stays
<1> QED
    BY <1>4, <1>5, <1>6, <1>7, <1>8, <1>9 DEF Next, Client

\* The keys that process_input hands to the line editor are those the user
\* pressed, each once and in order, for any keys of InputAssumption, however
\* they follow each other, sizes and answers of the client, and nothing is left
\* half understood when all bytes are read.
THEOREM KeysHeard == Spec => []KeysUnderstood
<1>1. Init => KeysInv /\ Offering
    BY KeysFirst, OfferingFirst
<1>2. KeysInv /\ Offering /\ [Next]_vars => (KeysInv /\ Offering)'
    BY KeysStep, OfferingStep
<1>3. KeysInv => KeysUnderstood
    <2> SUFFICES ASSUME KeysInv PROVE KeysUnderstood
        OBVIOUS
    <2>1. PICK s, st : Follows(s, st) /\ KeysOf(st)
        BY DEF KeysInv
    <2>2. ~misheard /\ unheard \in Seq(Presses)
        BY <2>1 DEF KeysOf
    <2>3. ASSUME wire = <<>> PROVE processingMode = "TEXT" /\ unheard = <<>>
        <3>1. Len(st) = 0 /\ s = InText
            BY <2>1, <2>3, AllRead
        <3>2. processingMode = "TEXT"
            BY <2>1, <3>1 DEF Follows, Now, InText, State
        <3>3. PICK at : at \in [1..Len(unheard) -> 1..Len(st)]
            BY <2>1 DEF KeysOf, HeardAt
        <3>4. PICK n \in Nat : n = Len(unheard)
            BY <2>2
        <3>5. ~(n >= 1)
            BY <3>1, <3>3, <3>4
        <3>6. unheard = <<>>
            BY <2>2, <3>4, <3>5, EmptySeq
        <3> QED
            BY <3>2, <3>6
    <2> QED
        BY <2>2, <2>3 DEF KeysUnderstood
<1> QED
    BY <1>1, <1>2, <1>3, PTL DEF Spec

-----------------------------------------------------------------------------
(* The terminal's type.                                                     *)

LEMMA SilentKept ==
    ASSUME NEW st \in Seq(Steps), NEW r,
           More(st, r) \/ \E x : MoreWith(st, r, x) /\ ~Talks(x)
    PROVE  /\ Silent(st) => Silent(r)
           /\ \A x : Speaks(st, x) => Speaks(r, x)
<1>1. /\ r \in Seq(Steps) /\ Len(r) >= Len(st) /\ Len(r) \in Nat /\ Len(st) \in Nat
      /\ \A k \in 1..Len(st) : r[k] = st[k] /\ k \in 1..Len(r)
    BY DEF More, MoreWith
<1>2. ASSUME NEW k \in 1..Len(r), Talks(r[k]) PROVE k \in 1..Len(st) /\ r[k] = st[k]
    <2>1. CASE k > Len(st) /\ More(st, r)
        BY <1>2, <2>1 DEF More, Quiet, Talks
    <2>2. ASSUME NEW x, MoreWith(st, r, x), ~Talks(x), k > Len(st) PROVE FALSE
        <3>1. k = Len(r) \/ k < Len(r)
            BY <1>1
        <3> QED
            BY <1>2, <2>2, <3>1 DEF MoreWith, Quiet, Talks
    <2> QED
        BY <1>1, <2>1, <2>2
<1>3. Silent(st) => Silent(r)
    BY <1>2 DEF Silent
<1>4. ASSUME NEW x, Speaks(st, x) PROVE Speaks(r, x)
    <2>1. PICK k \in 1..Len(st) : st[k] = x /\ Talks(x) /\ \A j \in 1..Len(st) : Talks(st[j]) => j = k
        BY <1>4 DEF Speaks
    <2>2. k \in 1..Len(r) /\ r[k] = x
        BY <1>1, <2>1
    <2>3. \A j \in 1..Len(r) : Talks(r[j]) => j = k
        BY <1>2, <2>1
    <2> QED
        BY <2>1, <2>2, <2>3 DEF Speaks
<1> QED
    BY <1>3, <1>4

LEMMA SpeaksLast ==
    ASSUME NEW st \in Seq(Steps), NEW r, NEW x, MoreWith(st, r, x), Silent(st), Talks(x)
    PROVE  Speaks(r, x)
<1>1. /\ r \in Seq(Steps) /\ Len(st) \in Nat /\ Len(r) \in Nat /\ Len(r) > Len(st)
      /\ r[Len(r)] = x /\ Len(r) \in 1..Len(r)
    BY DEF MoreWith
<1>2. ASSUME NEW k \in 1..Len(r), Talks(r[k]) PROVE k = Len(r)
    <2>1. CASE k > Len(st) /\ k < Len(r)
        BY <1>2, <2>1 DEF MoreWith, Quiet, Talks
    <2>2. CASE k <= Len(st)
        <3>1. k \in 1..Len(st) /\ r[k] = st[k]
            BY <1>1, <2>2 DEF MoreWith
        <3> QED
            BY <1>2, <3>1 DEF Silent
    <2> QED
        BY <1>1, <2>1, <2>2
<1> QED
    BY <1>1, <1>2 DEF Speaks

LEMMA TalksNext ==
    ASSUME NEW st \in Seq(Steps), Len(st) >= 1, NEW r, Less(st, r)
    PROVE  /\ Silent(st) => Silent(r) /\ ~Talks(st[1])
           /\ \A x : Speaks(st, x) => \/ st[1] = x /\ Silent(r)
                                      \/ ~Talks(st[1]) /\ Speaks(r, x)
<1>1. /\ r \in Seq(Steps) /\ Len(r) \in Nat /\ Len(st) \in Nat /\ Len(st) = Len(r) + 1
      /\ \A k \in 1..Len(r) : r[k] = st[k + 1] /\ k + 1 \in 1..Len(st)
      /\ 1 \in 1..Len(st)
    BY DEF Less
<1>2. Silent(st) => Silent(r) /\ ~Talks(st[1])
    BY <1>1 DEF Silent
<1>3. ASSUME NEW x, Speaks(st, x)
      PROVE  (st[1] = x /\ Silent(r)) \/ (~Talks(st[1]) /\ Speaks(r, x))
    <2>1. PICK k \in 1..Len(st) : st[k] = x /\ Talks(x) /\ \A j \in 1..Len(st) : Talks(st[j]) => j = k
        BY <1>3 DEF Speaks
    <2>2. CASE k = 1
        <3>1. ASSUME NEW j \in 1..Len(r) PROVE ~Talks(r[j])
            <4>1. j + 1 # 1 /\ r[j] = st[j + 1] /\ j + 1 \in 1..Len(st)
                BY <1>1
            <4> QED
                BY <2>1, <2>2, <4>1
        <3> QED
            BY <2>1, <2>2, <3>1 DEF Silent
    <2>3. CASE k # 1
        <3>1. ~Talks(st[1])
            BY <1>1, <2>1, <2>3
        <3>2. k - 1 \in 1..Len(r) /\ (k - 1) + 1 = k
            BY <1>1, <2>3
        <3>3. r[k - 1] = x
            BY <1>1, <2>1, <3>2
        <3>4. ASSUME NEW j \in 1..Len(r), Talks(r[j]) PROVE j = k - 1
            <4>1. r[j] = st[j + 1] /\ j + 1 \in 1..Len(st)
                BY <1>1
            <4>2. j + 1 = k
                BY <2>1, <3>4, <4>1
            <4> QED
                BY <1>1, <4>2
        <3>5. Speaks(r, x)
            BY <2>1, <3>2, <3>3, <3>4 DEF Speaks
        <3> QED
            BY <3>1, <3>5
    <2> QED
        BY <2>2, <2>3
<1> QED
    BY <1>2, <1>3

\* A step that nothing of the negotiation takes part in.
LEMMA AsksSame ==
    ASSUME NEW st, NEW r, AsksOf(st), UNCHANGED <<typeVars, agreed, types, typeAt>>,
           Silent(st) => Silent(r), \A x : Speaks(st, x) => Speaks(r, x)
    PROVE  AsksOf(r)'
<1>1. \A n : Waiting(n) => Waiting(n)'
    BY DEF Waiting, typeVars
<1>2. Over => Over'
    BY DEF Over, typeVars
<1>3. requests' = requests
    BY DEF typeVars
<1>4. Before(st) => Before(r)'
    BY <1>1, <1>3 DEF Before
<1>5. Agreeing(st) => Agreeing(r)'
    BY <1>1, <1>3 DEF Agreeing
<1>6. Asked(st) => Asked(r)'
    BY <1>1, <1>3 DEF Asked
<1>7. Answering(st) => Answering(r)'
    BY <1>1, <1>3 DEF Answering
<1>8. Finished(st) => Finished(r)'
    BY <1>2, <1>3 DEF Finished
<1> QED
    BY <1>4, <1>5, <1>6, <1>7, <1>8 DEF AsksOf

LEMMA OfferedBytes ==
    ASSUME NEW list \in TypeLists, NEW k \in 1..Len(list)
    PROVE  Offered(list, k) \in Seq(Byte) /\ Len(Offered(list, k)) \in 1..(Longest - 5)
<1>1. PICK name : name = list[k]
    OBVIOUS
<1>2. name \in Seq(Byte) /\ Len(name) \in 1..(Longest - 5)
    BY <1>1, NameBytes
<1>3. PICK n \in Nat : n = Len(name) /\ DOMAIN name = 1..n
    BY <1>2
<1>4. PICK f : f = UpperCase(name)
    OBVIOUS
<1>5. f = [j \in 1..n |-> IF name[j] \in 97..122 THEN name[j] - 32 ELSE name[j]]
    BY <1>3, <1>4 DEF UpperCase
<1>6. \A j \in 1..n : f[j] \in Byte
    <2> SUFFICES ASSUME NEW j \in 1..n PROVE f[j] \in Byte
        OBVIOUS
    <2>1. PICK b \in Byte : b = name[j]
        BY <1>2, <1>3
    <2>2. f[j] = IF b \in 97..122 THEN b - 32 ELSE b
        BY <1>5, <2>1
    <2>3. b \in 97..122 => b - 32 \in Byte
        BY DEF Byte
    <2> QED
        BY <2>2, <2>3
<1>7. f \in Seq(Byte) /\ Len(f) = n
    BY <1>5, <1>6
<1> QED
    BY <1>1, <1>2, <1>3, <1>4, <1>7 DEF Offered

LEMMA PrefixOfItself == ASSUME NEW s PROVE Len(s) \in Nat => IsPrefix(s, s)
BY DEF IsPrefix

LEMMA PrefixOfNothing == ASSUME NEW s, Len(s) \in 1..(Longest - 5) PROVE ~IsPrefix(s, <<>>)
<1>1. Len(<<>>) = 0
    OBVIOUS
<1>2. PICK n \in 1..(Longest - 5) : n = Len(s)
    OBVIOUS
<1>3. ~(n <= 0)
    OBVIOUS
<1> QED
    BY <1>1, <1>2, <1>3 DEF IsPrefix

\* A type has come that the server asked for: it asks for the next, or is done.
LEMMA KeepsType ==
    ASSUME NEW n \in 0..Len(types), NEW m, m = (IF n = Len(types) THEN n ELSE n + 1),
           types \in TypeLists, Waiting(n), requests = 0,
           typeAt = (IF n = Len(types) THEN 1 ELSE n + 2),
           KeepTerminalType(Offered(types, m)), UNCHANGED <<types, typeAt>>
    PROVE  \/ requests' = 1 /\ \E k \in 0..Len(types) : Waiting(k)' /\ typeAt' = k + 1
           \/ requests' = 0 /\ Over'
<1>1. PICK list, l : list = types /\ l = Len(list) /\ list = types' /\ list \in TypeLists
    OBVIOUS
<1>2. l \in Nat \ {0} /\ n \in 0..l /\ m = IF n = l THEN n ELSE n + 1
    BY <1>1, NameBytes
<1>3. m \in 1..l /\ m - 1 \in 0..n /\ \A j \in 1..(m - 1) : j \in 1..n
    BY <1>2
<1>4. \A j \in 1..n : ~Ends(list, j)
    BY <1>1 DEF Waiting
<1>5. PICK name, last : name = Offered(list, m) /\ last = lastTerminalRead
    OBVIOUS
<1>6. Len(name) \in 1..(Longest - 5)
    BY <1>1, <1>3, <1>5, OfferedBytes
<1>7. /\ lastTerminalRead' = name
      /\ IsPrefix(Vt100Name, name) => UNCHANGED <<askForTerminalType, requests>>
      /\ ~IsPrefix(Vt100Name, name) =>
            /\ askForTerminalType' = (askForTerminalType /\ ~IsPrefix(name, last))
            /\ AskForTerminalType(askForTerminalType')
    BY <1>1, <1>5 DEF KeepTerminalType
<1>8. ASSUME Ends(list, m) \/ m = l PROVE Over'
    <2>1. \A j \in 1..(m - 1) : ~Ends(list, j)
        BY <1>3, <1>4
    <2> QED
        BY <1>1, <1>3, <1>5, <1>7, <1>8, <2>1 DEF Over
<1>9. CASE IsPrefix(Vt100Name, name)
    <2>1. Ends(list, m)
        BY <1>5, <1>9 DEF Ends
    <2>2. requests' = 0
        BY <1>7, <1>9
    <2> QED
        BY <1>8, <2>1, <2>2
<1>10. CASE ~IsPrefix(Vt100Name, name) /\ IsPrefix(name, last)
    <2>1. askForTerminalType' = FALSE
        BY <1>7, <1>10
    <2>2. requests' = 0
        BY <1>7, <1>10, <2>1 DEF AskForTerminalType
    <2>3. CASE n = l
        BY <1>2, <1>8, <2>2, <2>3
    <2>4. CASE n # l
        <3>1. n # 0
            <4>1. ~IsPrefix(name, <<>>)
                BY <1>6, PrefixOfNothing
            <4>2. n = 0 => last = <<>>
                BY <1>5 DEF Waiting
            <4> QED
                BY <1>10, <4>1, <4>2
        <3>2. last = Offered(list, n) /\ m = n + 1 /\ m - 1 = n /\ m > 1
            BY <1>1, <1>2, <1>5, <2>4, <3>1 DEF Waiting
        <3>3. Ends(list, m)
            BY <1>5, <1>10, <3>2 DEF Ends
        <3> QED
            BY <1>8, <2>2, <3>3
    <2> QED
        BY <2>3, <2>4
<1>11. CASE ~IsPrefix(Vt100Name, name) /\ ~IsPrefix(name, last)
    <2>1. askForTerminalType' = TRUE
        BY <1>7, <1>11 DEF Waiting
    <2>2. requests' = 1
        BY <1>7, <1>11, <2>1 DEF AskForTerminalType
    <2>3. n # l
        <3>1. ASSUME n = l PROVE last = name
            <4>1. m = n /\ n # 0
                BY <1>2, <3>1
            <4> QED
                BY <1>1, <1>5, <4>1 DEF Waiting
        <3>2. IsPrefix(name, name)
            BY <1>6, PrefixOfItself
        <3> QED
            BY <1>11, <3>1, <3>2
    <2>4. m = n + 1 /\ m \in 0..l
        BY <1>2, <2>3
    <2>5. ~Ends(list, m)
        <3>1. m > 1 => last = Offered(list, m - 1)
            <4>1. m - 1 = n
                BY <1>2, <2>4
            <4> QED
                BY <1>1, <1>2, <1>5, <2>4, <4>1 DEF Waiting
        <3> QED
            BY <1>5, <1>11, <3>1 DEF Ends
    <2>6. \A j \in 1..m : ~Ends(list, j)
        <3>1. \A j \in 1..m : j = m \/ j \in 1..n
            BY <1>2, <2>4
        <3> QED
            BY <1>4, <2>5, <3>1
    <2>7. Waiting(m)'
        BY <1>1, <1>3, <1>5, <1>7, <2>1, <2>6 DEF Waiting
    <2>8. typeAt' = m + 1
        BY <1>1, <1>2, <2>3, <2>4
    <2> QED
        BY <1>1, <2>2, <2>4, <2>7, <2>8
<1> QED
    BY <1>9, <1>10, <1>11

\* process_input completes the client's WILL, or its answer, or neither.
LEMMA AsksNext ==
    ASSUME NEW st \in Seq(Steps), Len(st) >= 1, st[1] \in Steps, Reads(st[1]),
           NEW r, Less(st, r), AsksOf(st), Offering, UNCHANGED <<agreed, types, typeAt>>
    PROVE  AsksOf(r)'
<1>1. PICK y : y = st[1] /\ y \in Steps /\ Reads(y)
    OBVIOUS
<1>2. /\ Silent(st) => Silent(r) /\ ~Talks(y)
      /\ \A x : Speaks(st, x) => (y = x /\ Silent(r)) \/ (~Talks(y) /\ Speaks(r, x))
    BY <1>1, TalksNext
<1>3. /\ IsSize(y) => KeepWindow(Whole(y))
      /\ IsWill(y) => StartNegotiation
      /\ IsType(y) => KeepTerminalType(TerminalName(Whole(y)))
      /\ ~IsSize(y) /\ ~IsWill(y) /\ ~IsType(y) => UNCHANGED <<typeVars, window>>
    BY <1>1, ReadsCommand
<1>4. CASE ~Talks(y)
    <2>1. UNCHANGED typeVars
        BY <1>3, <1>4 DEF Talks, KeepWindow
    <2>2. \A x : Speaks(st, x) => Speaks(r, x)
        BY <1>2, <1>4 DEF Speaks
    <2> QED
        BY <1>2, <2>1, <2>2, AsksSame
<1>5. CASE Talks(y)
    <2>1. Agreeing(st) \/ Answering(st)
        BY <1>2, <1>5 DEF AsksOf, Before, Asked, Finished
    <2>2. CASE Agreeing(st)
        <3>1. PICK x : IsWill(x) /\ Speaks(st, x)
            BY <2>2 DEF Agreeing
        <3>2. IsWill(y) /\ Silent(r)
            BY <1>2, <1>5, <3>1
        <3>3. StartNegotiation /\ Waiting(0) /\ requests = 0 /\ typeAt = 1 /\ agreed
            BY <1>3, <2>2, <3>2 DEF Agreeing
        <3>4. requests' = 1 /\ UNCHANGED <<askForTerminalType, lastTerminalRead>>
            BY <3>3 DEF StartNegotiation, AskForTerminalType, Waiting
        <3>5. Waiting(0)'
            BY <3>3, <3>4 DEF Waiting
        <3>6. 0 \in 0..Len(types') /\ typeAt' = 0 + 1
            <4>1. Len(types) \in Nat
                BY NameBytes DEF Offering
            <4> QED
                BY <3>3, <4>1
        <3>7. Asked(r)'
            BY <3>2, <3>3, <3>4, <3>5, <3>6 DEF Asked
        <3> QED
            BY <3>7 DEF AsksOf
    <2>3. CASE Answering(st)
        <3>0. PICK n \in 0..Len(types) : \E x :
                 /\ Waiting(n) /\ typeAt = (IF n = Len(types) THEN 1 ELSE n + 2)
                 /\ IsType(x) /\ Speaks(st, x)
                 /\ TerminalName(Whole(x)) = Offered(types, IF n = Len(types) THEN n ELSE n + 1)
            BY <2>3 DEF Answering
        <3>1. PICK x :
                 /\ Waiting(n) /\ typeAt = (IF n = Len(types) THEN 1 ELSE n + 2)
                 /\ IsType(x) /\ Speaks(st, x)
                 /\ TerminalName(Whole(x)) = Offered(types, IF n = Len(types) THEN n ELSE n + 1)
            BY <3>0
        <3>2. y = x /\ Silent(r)
            BY <1>2, <1>5, <3>1
        <3>3. PICK m : m = (IF n = Len(types) THEN n ELSE n + 1)
            OBVIOUS
        <3>4. KeepTerminalType(Offered(types, m))
            BY <1>3, <3>1, <3>2, <3>3
        <3>5. requests = 0 /\ agreed /\ types \in TypeLists
            BY <2>3 DEF Answering, Offering
        <3>6. \/ requests' = 1 /\ \E k \in 0..Len(types) : Waiting(k)' /\ typeAt' = k + 1
              \/ requests' = 0 /\ Over'
            BY <3>1, <3>3, <3>4, <3>5, KeepsType
        <3>7. Asked(r)' \/ Finished(r)'
            BY <3>2, <3>5, <3>6 DEF Asked, Finished
        <3> QED
            BY <3>7 DEF AsksOf
    <2> QED
        BY <2>1, <2>2, <2>3
<1> QED
    BY <1>4, <1>5

LEMMA AsksAgree ==
    ASSUME NEW st \in Seq(Steps), NEW r, NEW x, MoreWith(st, r, x), IsWill(x),
           AsksOf(st), ClientAgrees
    PROVE  AsksOf(r)'
<1>1. Before(st)
    BY DEF ClientAgrees, AsksOf, Agreeing, Asked, Answering, Finished
<1>2. Speaks(r, x)
    BY <1>1, SpeaksLast DEF Before, Talks
<1>3. agreed' /\ UNCHANGED <<typeVars, types, typeAt>>
    BY DEF ClientAgrees
<1>4. Waiting(0)' /\ requests' = 0
    BY <1>1, <1>3 DEF Before, Waiting, typeVars
<1>5. Agreeing(r)'
    BY <1>1, <1>2, <1>3, <1>4 DEF Before, Agreeing
<1> QED
    BY <1>5 DEF AsksOf

LEMMA AsksAnswer ==
    ASSUME NEW st \in Seq(Steps), NEW r, NEW x, MoreWith(st, r, x), IsType(x),
           TerminalName(Whole(x)) = Offered(types, Said),
           AsksOf(st), Offering, ClientAnswers
    PROVE  AsksOf(r)'
<1>1. Asked(st)
    BY DEF ClientAnswers, AsksOf, Before, Agreeing, Answering, Finished
<1>2. Speaks(r, x)
    BY <1>1, SpeaksLast DEF Asked, Talks
<1>3. PICK n \in 0..Len(types) : Waiting(n) /\ typeAt = n + 1
    BY <1>1 DEF Asked
<1>4. Len(types) \in Nat
    BY NameBytes DEF Offering
<1>5. Said = IF n = Len(types) THEN n ELSE n + 1
    BY <1>3, <1>4 DEF Said
<1>6. /\ UNCHANGED <<askForTerminalType, lastTerminalRead, agreed, types>>
      /\ requests' = requests - 1
      /\ typeAt' = IF typeAt > Len(types) THEN 1 ELSE typeAt + 1
    BY DEF ClientAnswers
<1>7. typeAt' = IF n = Len(types) THEN 1 ELSE n + 2
    BY <1>3, <1>4, <1>6
<1>8. requests' = 0 /\ agreed'
    BY <1>1, <1>6 DEF Asked
<1>9. Waiting(n)'
    BY <1>3, <1>6 DEF Waiting
<1>10. Answering(r)'
    BY <1>2, <1>3, <1>5, <1>6, <1>7, <1>8, <1>9 DEF Answering
<1> QED
    BY <1>10 DEF AsksOf

AsksInv == \E s, st : Follows(s, st) /\ AsksOf(st)

LEMMA AsksFirst == ASSUME Init PROVE AsksInv
<1>1. Len(<<>>) = 0 /\ 1..0 = {}
    OBVIOUS
<1>2. Silent(<<>>)
    BY <1>1 DEF Silent
<1>3. Waiting(0)
    BY <1>1 DEF Waiting, Init
<1>4. AsksOf(<<>>)
    BY <1>2, <1>3 DEF Init, Before, AsksOf
<1> QED
    BY <1>4, AtFirst DEF AsksInv

LEMMA AsksStep == ASSUME AsksInv, Offering, [Next]_vars PROVE AsksInv'
<1>1. PICK s, st : Follows(s, st) /\ AsksOf(st)
    BY DEF AsksInv
<1>2. st \in Seq(Steps)
    BY <1>1 DEF Follows, Path
<1>3. SUFFICES \E t, r : Follows(t, r)' /\ AsksOf(r)'
    BY DEF AsksInv
<1>4. ASSUME NEW key \in Keys, ClientKey(key) PROVE \E t, r : Follows(t, r)' /\ AsksOf(r)'
    <2>1. UNCHANGED <<typeVars, agreed, types, typeAt>>
        BY <1>4 DEF ClientKey, clientVars
    <2>2. PICK r : /\ Follows(s, r)'
                   /\ \/ More(st, r) /\ key.keys = <<>>
                      \/ \E name, x : /\ MoreWith(st, r, x) /\ key.keys = <<name>>
                                      /\ Hears(x, name) /\ ~Completes(x)
        BY <1>1, <1>4, KeyStep
    <2>3. More(st, r) \/ \E x : MoreWith(st, r, x) /\ ~Talks(x)
        BY <2>2 DEF Talks, IsWill, IsType
    <2> QED
        BY <1>1, <1>2, <2>1, <2>2, <2>3, SilentKept, AsksSame
<1>5. ASSUME NEW z \in Sizes, ClientResize(z) PROVE \E t, r : Follows(t, r)' /\ AsksOf(r)'
    <2>1. UNCHANGED <<typeVars, agreed, types, typeAt>>
        BY <1>5 DEF ClientResize
    <2>2. PICK r, x : Follows(s, r)' /\ MoreWith(st, r, x) /\ IsSize(x)
        BY <1>1, <1>5, ResizeStep
    <2>3. x \in Steps
        BY <2>2 DEF MoreWith
    <2>4. ~Talks(x)
        BY <2>2, <2>3, StepKinds DEF Talks
    <2> QED
        BY <1>1, <1>2, <2>1, <2>2, <2>4, SilentKept, AsksSame
<1>6. CASE ClientAgrees
    <2>1. PICK r, x : Follows(s, r)' /\ MoreWith(st, r, x) /\ IsWill(x)
        BY <1>1, <1>6, AgreeStep
    <2> QED
        BY <1>1, <1>2, <1>6, <2>1, AsksAgree
<1>7. CASE ClientAnswers
    <2>1. PICK r, x : /\ Follows(s, r)' /\ MoreWith(st, r, x) /\ IsType(x)
                      /\ TerminalName(Whole(x)) = Offered(types, Said)
        BY <1>1, <1>7, AnswerStep
    <2> QED
        BY <1>1, <1>2, <1>7, <2>1, AsksAnswer
<1>8. CASE ProcessInput
    <2>1. /\ Len(st) >= 1 /\ st[1] \in Steps /\ Reads(st[1])
          /\ \E t, r : Follows(t, r)' /\ Less(st, r)
        BY <1>1, <1>8, Popped
    <2>2. UNCHANGED <<agreed, types, typeAt>>
        BY <1>8 DEF ProcessInput, clientVars
    <2> QED
        BY <1>1, <1>2, <2>1, <2>2, AsksNext
<1>9. CASE UNCHANGED vars
    <2>1. UNCHANGED <<wire, conVars>> /\ UNCHANGED <<typeVars, agreed, types, typeAt>>
        BY <1>9 DEF vars, clientVars
    <2> QED
        BY <1>1, <2>1, Stays, AsksSame
<1> QED
    BY <1>4, <1>5, <1>6, <1>7, <1>8, <1>9 DEF Next, Client

\* When the server has stopped asking, the type it holds is the first VT100 the
\* client offers, or else the last of its types: for lists of any length in which no
\* type is the beginning of the one before it, whatever keys and sizes come between
\* the answers (processTelnetCommand).
THEOREM TypeFound == Spec => []WantedFound
<1>1. Init => AsksInv /\ Offering
    BY AsksFirst, OfferingFirst
<1>2. AsksInv /\ Offering /\ [Next]_vars => (AsksInv /\ Offering)'
    BY AsksStep, OfferingStep
<1>3. AsksInv /\ Offering => WantedFound
    <2> DEFINE Hides(k) == IsPrefix(Offered(types, k), Offered(types, k - 1))
    <2> SUFFICES ASSUME AsksInv, Offering, NegotiationOver,
                        \A k \in 2..Len(types) : ~Hides(k)
                 PROVE  \E k \in DOMAIN types :
                           /\ lastTerminalRead = Offered(types, k)
                           /\ \A j \in 1..(k - 1) : ~IsVt100(j)
                           /\ IsVt100(k) \/ k = Len(types)
        BY DEF WantedFound
    <2>1. PICK s, st : Follows(s, st) /\ AsksOf(st)
        BY DEF AsksInv
    <2>2. Len(st) = 0 /\ agreed /\ requests = 0
        BY <2>1, AllRead DEF NegotiationOver
    <2>3. Finished(st)
        BY <2>1, <2>2 DEF AsksOf, Before, Agreeing, Asked, Answering, Speaks
    <2>4. PICK k \in 1..Len(types) : /\ lastTerminalRead = Offered(types, k)
                                     /\ \A j \in 1..(k - 1) : ~Ends(types, j)
                                     /\ Ends(types, k) \/ k = Len(types)
        BY <2>3 DEF Finished, Over
    <2>5. DOMAIN types = 1..Len(types)
        <3>1. \E T : types \in Seq(T)
            BY InputAssumption DEF Offering
        <3> QED
            BY <3>1
    <2>6. \A j \in 1..(k - 1) : ~IsVt100(j)
        BY <2>4 DEF Ends, IsVt100
    <2>7. Ends(types, k) => IsVt100(k)
        <3>1. k > 1 => k \in 2..Len(types)
            BY <2>4
        <3> QED
            BY <3>1 DEF Ends, IsVt100
    <2> QED
        BY <2>4, <2>5, <2>6, <2>7
<1> QED
    BY <1>1, <1>2, <1>3, PTL DEF Spec

-----------------------------------------------------------------------------
(* Types.                                                                   *)

Flags == agreed \in BOOLEAN /\ misheard \in BOOLEAN /\ askForTerminalType \in BOOLEAN

LEMMA HearsFlag == ASSUME NEW key, Hear(key) PROVE misheard' \in BOOLEAN
BY DEF Hear

LEMMA KeepsFlag ==
    ASSUME NEW name, KeepTerminalType(name), askForTerminalType \in BOOLEAN
    PROVE  askForTerminalType' \in BOOLEAN
<1>1. CASE IsPrefix(Vt100Name, name)
    BY <1>1 DEF KeepTerminalType
<1>2. CASE ~IsPrefix(Vt100Name, name)
    <2>1. askForTerminalType' = (askForTerminalType /\ ~IsPrefix(name, lastTerminalRead))
        BY <1>2 DEF KeepTerminalType
    <2> QED
        BY <2>1
<1> QED
    BY <1>1, <1>2

LEMMA FlagsStep == ASSUME Flags, KeysInv, [Next]_vars PROVE Flags'
<1>1. agreed' = agreed \/ agreed' = TRUE
    BY DEF Next, Client, ClientKey, ClientResize, ClientAgrees, ClientAnswers, ProcessInput,
           clientVars, vars
<1>2. CASE ProcessInput
    <2>1. PICK s, st : Follows(s, st)
        BY DEF KeysInv
    <2>2. PICK x : x \in Steps /\ Reads(x)
        BY <1>2, <2>1, Popped
    <2>3. misheard' \in BOOLEAN
        BY <2>2, HearsFlag DEF Reads, keyVars, Flags
    <2>4. askForTerminalType' \in BOOLEAN
        <3>1. CASE IsType(x)
            BY <2>2, <3>1, ReadsCommand, KeepsFlag DEF Flags
        <3>2. CASE ~IsType(x)
            <4>1. askForTerminalType' = askForTerminalType
                BY <2>2, <3>2, ReadsCommand DEF StartNegotiation, KeepWindow, typeVars
            <4> QED
                BY <4>1 DEF Flags
        <3> QED
            BY <3>1, <3>2
    <2> QED
        BY <1>1, <2>3, <2>4 DEF Flags
<1>3. CASE ~ProcessInput
    <2>1. misheard' = misheard /\ askForTerminalType' = askForTerminalType
        BY <1>3 DEF Next, Client, ClientKey, ClientResize, ClientAgrees, ClientAnswers,
                    typeVars, keyVars, vars
    <2> QED
        BY <1>1, <2>1 DEF Flags
<1> QED
    BY <1>2, <1>3

LEMMA Where ==
    ASSUME NEW s, NEW st, Follows(s, st) PROVE s \in States /\ Collected(s)
<1>1. Path(s, st, InText) /\ st \in Seq(Steps)
    BY DEF Follows, Path
<1>2. CASE st = <<>>
    <2>1. s = InText
        BY <1>1, <1>2 DEF Path
    <2>2. <<>> \in Seq(Byte)
        OBVIOUS
    <2> QED
        BY <2>1, <2>2 DEF InText, State, States, Telnets, Vt100s, Collected
<1>3. CASE st # <<>>
    <2>1. Len(st) >= 1
        BY <1>1, <1>3, EmptySeq
    <2>2. st[1] \in Steps /\ st[1].from = s
        BY <1>1, <1>3, <2>1 DEF Path
    <2> QED
        BY <2>2 DEF Steps
<1> QED
    BY <1>2, <1>3

LEMMA MachineTypes ==
    ASSUME NEW s, NEW st, Follows(s, st)
    PROVE  /\ processingMode \in {"TEXT", "TELNET", "VT100"}
           /\ telnetState \in {"NONE", "START", "COMMAND", "SUBCOMMAND", "MAYBE_END"}
           /\ vt100State \in {"NONE", "ESC", "ESC_BRAC", "DEL", "HOME", "END"}
           /\ telnetCommand \in Seq(Byte) /\ Len(telnetCommand) <= Longest
           /\ vt100Command \in Seq(Byte) /\ Len(vt100Command) <= 3
<1>1. s \in States /\ Collected(s) /\ Now(s)
    BY Where DEF Follows
<1>2. /\ s.at \in {"TEXT"} \union Telnets \union Vt100s
      /\ s.bytes \in Seq(Byte) /\ <<>> \in Seq(Byte) /\ Len(<<>>) = 0
    BY <1>1 DEF States
<1>3. processingMode \in {"TEXT", "TELNET", "VT100"}
    BY <1>1 DEF Now
<1>4. telnetState \in {"NONE", "START", "COMMAND", "SUBCOMMAND", "MAYBE_END"}
    BY <1>1 DEF Now, Telnets
<1>5. vt100State \in {"NONE", "ESC", "ESC_BRAC", "DEL", "HOME", "END"}
    BY <1>1 DEF Now, Vt100s
<1>6. s.at \in Telnets => Len(s.bytes) <= Longest
    <2>1. s.at = "START" => Len(s.bytes) = 1
        BY <1>1 DEF Collected
    <2>2. s.at = "COMMAND" => Len(s.bytes) = 2
        BY <1>1 DEF Collected
    <2>3. s.at \in {"SUBCOMMAND", "MAYBE_END"} => Len(s.bytes) \in 2..Longest
        BY <1>1 DEF Collected
    <2>4. PICK n \in Nat : n = Len(s.bytes)
        BY <1>2
    <2>5. n = 1 \/ n = 2 \/ n \in 2..Longest => n <= Longest
        OBVIOUS
    <2> QED
        BY <2>1, <2>2, <2>3, <2>4, <2>5 DEF Telnets
<1>7. s.at \in Vt100s => Len(s.bytes) <= 3
    <2>1. s.at = "ESC" => Len(s.bytes) = 1
        BY <1>1 DEF Collected
    <2>2. s.at = "ESC_BRAC" => Len(s.bytes) = 2
        BY <1>1 DEF Collected
    <2>3. s.at \in {"DEL", "HOME", "END"} => Len(s.bytes) = 3
        <3>1. PICK d : d = Digit(s.at)
            OBVIOUS
        <3>2. s.at \in {"DEL", "HOME", "END"} => s.bytes = <<ESC, BRACKET, d>>
            BY <1>1, <3>1 DEF Collected
        <3>3. Len(<<ESC, BRACKET, d>>) = 3
            OBVIOUS
        <3> QED
            BY <3>2, <3>3
    <2>4. PICK n \in Nat : n = Len(s.bytes)
        BY <1>2
    <2>5. n = 1 \/ n = 2 \/ n = 3 => n <= 3
        OBVIOUS
    <2> QED
        BY <2>1, <2>2, <2>3, <2>4, <2>5 DEF Vt100s
<1>8. telnetCommand \in Seq(Byte) /\ Len(telnetCommand) <= Longest
    <2>1. CASE s.at \in Telnets
        BY <1>1, <1>2, <1>6, <2>1 DEF Now
    <2>2. CASE s.at \notin Telnets
        BY <1>1, <1>2, <2>2 DEF Now
    <2> QED
        BY <2>1, <2>2
<1>9. vt100Command \in Seq(Byte) /\ Len(vt100Command) <= 3
    <2>1. CASE s.at \in Vt100s
        BY <1>1, <1>2, <1>7, <2>1 DEF Now
    <2>2. CASE s.at \notin Vt100s
        BY <1>1, <1>2, <2>2 DEF Now
    <2> QED
        BY <2>1, <2>2
<1> QED
    BY <1>3, <1>4, <1>5, <1>8, <1>9

LEMMA AsksTypes ==
    ASSUME NEW st, AsksOf(st), types \in TypeLists
    PROVE  requests \in {0, 1} /\ lastTerminalRead \in Seq(Byte)
<1>1. requests \in {0, 1}
    BY DEF AsksOf, Before, Agreeing, Asked, Answering, Finished
<1>2. <<>> \in Seq(Byte)
    OBVIOUS
<1>3. PICK l \in Nat : l = Len(types) /\ \A k \in 1..l : Offered(types, k) \in Seq(Byte)
    BY NameBytes, OfferedBytes
<1>4. ASSUME NEW n \in 0..l, Waiting(n) PROVE lastTerminalRead \in Seq(Byte)
    <2>1. n = 0 \/ n \in 1..l
        OBVIOUS
    <2> QED
        BY <1>2, <1>3, <1>4, <2>1 DEF Waiting
<1>5. Over => lastTerminalRead \in Seq(Byte)
    BY <1>3 DEF Over
<1>6. 0 \in 0..l
    OBVIOUS
<1>7. (\E n \in 0..l : Waiting(n)) \/ Over
    BY <1>3, <1>6 DEF AsksOf, Before, Agreeing, Asked, Answering, Finished
<1> QED
    BY <1>1, <1>4, <1>5, <1>7

\* Every variable has its type, and the bytes of a sequence are collected anew each
\* time: in no reachable state does telnetCommand hold more than the longest single
\* command, or vt100Command more than three bytes, however many sequences come,
\* whole or broken off, and however they are cut into reads.
THEOREM InputTypeCorrect == Spec => []TypeOK
<1> DEFINE Inv == Offering /\ WindowInv /\ KeysInv /\ AsksInv /\ Flags
<1>1. Init => Inv
    <2>1. Init => Flags
        BY DEF Init, Flags
    <2> QED
        BY <2>1, OfferingFirst, WindowFirst, KeysFirst, AsksFirst
<1>2. Inv /\ [Next]_vars => Inv'
    BY OfferingStep, WindowStep, KeysStep, AsksStep, FlagsStep
<1>3. Inv => TypeOK
    <2> SUFFICES ASSUME Inv PROVE TypeOK
        OBVIOUS
    <2>1. PICK s, st : Follows(s, st) /\ AsksOf(st)
        BY DEF AsksInv
    <2>2. wire \in Seq(Byte)
        BY <2>1, WireBytes
    <2>3. window \in Word \X Word /\ size \in Word \X Word
        BY DEF WindowInv, SizesOf
    <2>4. types \in TypeLists /\ typeAt \in 1..(Len(types) + 1)
        BY DEF Offering
    <2>5. requests \in Nat /\ lastTerminalRead \in Seq(Byte)
        BY <2>1, <2>4, AsksTypes
    <2>6. /\ processingMode \in {"TEXT", "TELNET", "VT100"}
          /\ telnetState \in {"NONE", "START", "COMMAND", "SUBCOMMAND", "MAYBE_END"}
          /\ vt100State \in {"NONE", "ESC", "ESC_BRAC", "DEL", "HOME", "END"}
          /\ telnetCommand \in Seq(Byte) /\ Len(telnetCommand) <= Longest
          /\ vt100Command \in Seq(Byte) /\ Len(vt100Command) <= 3
        BY <2>1, MachineTypes
    <2> HIDE DEF Inv
    <2>7. Seq(Byte) = Seq(0..255)
        BY DEF Byte
    <2>8. Flags
        BY DEF Inv
    <2> QED
        BY <2>2, <2>3, <2>4, <2>5, <2>6, <2>7, <2>8 DEF TypeOK, Flags
<1> QED
    BY <1>1, <1>2, <1>3, PTL DEF Spec
=============================================================================
