-------------------------- MODULE LineEditorProofs --------------------------
(***************************************************************************)
(* Proofs about LineEditor for any keyboard, window and buffer: the cursor *)
(* stays in the text, the buffers hold it, the line shows it, and it is    *)
(* split into its commands.                                                *)
(***************************************************************************)
EXTENDS LineEditor, TextLemmas, FiniteSetTheorems

-----------------------------------------------------------------------------
(* Sequences.                                                              *)

LEMMA InsertFacts ==
    ASSUME NEW T, NEW s \in Seq(T), NEW p \in Nat, p <= Len(s), NEW x \in T
    PROVE  /\ InsertAt(s, p + 1, x) \in Seq(T)
           /\ Len(InsertAt(s, p + 1, x)) = Len(s) + 1
<1> DEFINE n == Len(s)
           a == SubSeq(s, 1, p)
           b == <<x>>
           c == SubSeq(s, p + 1, n)
<1>1. n \in Nat /\ n = Len(s)
    OBVIOUS
<1>2. a \in Seq(T) /\ Len(a) = p
    BY SliceFacts, <1>1
<1>3. b \in Seq(T) /\ Len(b) = 1
    OBVIOUS
<1>4. c \in Seq(T) /\ Len(c) = n - p
    OBVIOUS
<1>5. InsertAt(s, p + 1, x) = (a \o b) \o c
    <2>1. (p + 1) - 1 = p
        OBVIOUS
    <2> QED
        BY <2>1 DEF InsertAt
<1> HIDE DEF a, b, c, n
<1> DEFINE d == a \o b
           e == d \o c
<1>6. d \in Seq(T) /\ Len(d) = Len(a) + Len(b)
    BY <1>2, <1>3, ConcatFacts
<1> HIDE DEF d
<1>7. e \in Seq(T) /\ Len(e) = Len(d) + Len(c)
    BY <1>4, <1>6, ConcatFacts
<1>8. InsertAt(s, p + 1, x) = e
    BY <1>5 DEF d
<1> HIDE DEF e
<1> QED
    BY <1>1, <1>2, <1>3, <1>4, <1>6, <1>7, <1>8

LEMMA RemoveFacts ==
    ASSUME NEW T, NEW s \in Seq(T), NEW p \in Nat, p < Len(s)
    PROVE  /\ RemoveAt(s, p + 1) \in Seq(T)
           /\ Len(RemoveAt(s, p + 1)) = Len(s) - 1
<1> DEFINE n == Len(s)
           a == SubSeq(s, 1, p)
           c == SubSeq(s, p + 2, n)
<1>1. n \in Nat /\ n = Len(s) /\ p < n
    OBVIOUS
<1>2. a \in Seq(T) /\ Len(a) = p
    BY SliceFacts, <1>1
<1>4. c \in Seq(T) /\ Len(c) = n - p - 1
    <2>1. p + 2 \in Nat \ {0} /\ p + 2 <= n + 1 /\ n - (p + 2) + 1 = (n - p) - 1
        BY <1>1
    <2>2. n \in Nat /\ n <= Len(s)
        BY <1>1
    <2> HIDE DEF n
    <2>3. c \in Seq(T) /\ Len(c) = n - (p + 2) + 1
        BY <2>1, <2>2, SliceFacts
    <2> QED
        BY <2>1, <2>3
<1>5. RemoveAt(s, p + 1) = a \o c
    <2>1. (p + 1) - 1 = p /\ (p + 1) + 1 = p + 2
        OBVIOUS
    <2> QED
        BY <2>1 DEF RemoveAt
<1> HIDE DEF a, c, n
<1> DEFINE e == a \o c
<1>7. e \in Seq(T) /\ Len(e) = Len(a) + Len(c)
    BY <1>2, <1>4, ConcatFacts
<1>8. RemoveAt(s, p + 1) = e
    BY <1>5
<1> HIDE DEF e
<1> QED
    BY <1>1, <1>2, <1>4, <1>7, <1>8

LEMMA RestFacts ==
    ASSUME NEW T, NEW s \in Seq(T), NEW c \in 0..Len(s)
    PROVE  /\ SubSeq(s, c + 1, Len(s)) \in Seq(T)
           /\ Len(SubSeq(s, c + 1, Len(s))) = Len(s) - c
           /\ \A k \in 1..(Len(s) - c) : SubSeq(s, c + 1, Len(s))[k] = s[c + k]
OBVIOUS

-----------------------------------------------------------------------------
(* Types.                                                                  *)

Letters == {Upper(char) : char \in Chars} \union Chars

EditTypes ==
    /\ raw \in Seq(Chars) /\ rawSize \in Nat /\ pos \in Nat
    /\ line \in Seq(Letters) /\ lineSize \in Nat /\ linePos \in Nat
    /\ winW \in Nat
    /\ pc \in {"idle", "scan", "draw", "queue"} /\ i \in Nat
    /\ mode \in {"plain", "quoted", "escape"}
    /\ edited \in Seq(Chars)

LEMMA TypesInit == Init => EditTypes
<1>1. <<>> \in Seq(Chars) /\ <<>> \in Seq(Letters)
    OBVIOUS
<1> QED
    BY <1>1, EditorAssumption DEF Init, EditTypes

-----------------------------------------------------------------------------
(* Lengths and cursors: the inductive invariant of the buffers.            *)

BufferInv ==
    /\ pos <= Len(raw) /\ Len(raw) <= rawSize /\ lineSize = rawSize
    /\ pc = "idle" => Len(line) = Len(raw) /\ linePos = pos
    /\ pc = "scan" => Len(line) = i /\ linePos = i /\ i <= Len(raw)
    /\ pc \in {"draw", "queue"} =>
          Len(line) = i + 1 /\ linePos = i + 1 /\ i < Len(raw)

LEMMA BufferInit == Init => BufferInv
<1>1. Len(<<>>) = 0
    OBVIOUS
<1> QED
    BY <1>1, EditorAssumption DEF Init, BufferInv

USE DEF InLoop

\* The loop ends with its variable at the end of the text, not behind it.
LEMMA LoopEnds ==
    ASSUME EditTypes, BufferInv, pc = "scan", ~InLoop
    PROVE  i = Len(raw)
<1>1. i \in Nat /\ i <= Len(raw) /\ ~(i < Len(raw)) /\ Len(raw) \in Nat
    BY DEF EditTypes, BufferInv
<1> QED
    BY <1>1

LEMMA UpperLetter == \A char \in Chars : Upper(char) \in Letters /\ char \in Letters
BY DEF Letters

\* The end of every key that edits: what StartScan adds to a new raw text.
LEMMA StartStep ==
    ASSUME EditTypes, StartScan, raw' \in Seq(Chars), rawSize' \in Nat, pos' \in Nat,
           pos' <= Len(raw'), Len(raw') <= rawSize'
    PROVE  EditTypes' /\ BufferInv'
<1>1. <<>> \in Seq(Letters) /\ Len(<<>>) = 0
    OBVIOUS
<1>2. Len(raw') \in Nat
    OBVIOUS
<1>3. /\ line' = <<>> /\ linePos' = 0 /\ lineSize' = rawSize' /\ pc' = "scan"
      /\ i' = 0 /\ mode' = "plain" /\ edited' = raw' /\ winW' = winW
    BY DEF StartScan, termVars
<1>4. EditTypes'
    BY <1>1, <1>3 DEF EditTypes
<1>5. BufferInv'
    BY <1>1, <1>2, <1>3 DEF BufferInv
<1> QED
    BY <1>4, <1>5

LEMMA EditStep ==
    ASSUME EditTypes, BufferInv, 
           (\E char \in Chars : AddChar(char)) \/ Backspace \/ Delete
    PROVE  EditTypes' /\ BufferInv'
<1> DEFINE n == Len(raw)
<1>0. /\ raw \in Seq(Chars) /\ rawSize \in Nat /\ pos \in Nat
      /\ n \in Nat /\ n = Len(raw) /\ pos <= n /\ n <= rawSize
    BY DEF EditTypes, BufferInv
<1> HIDE DEF n
<1>1. ASSUME NEW char \in Chars, AddChar(char) PROVE EditTypes' /\ BufferInv'
    <2>1. /\ rawSize' = IF n >= rawSize THEN rawSize + LineBufferExtent ELSE rawSize
          /\ raw' = InsertAt(raw, pos + 1, char) /\ pos' = pos + 1 /\ StartScan
        BY <1>0, <1>1 DEF AddChar
    <2>2. raw' \in Seq(Chars) /\ Len(raw') = n + 1
        BY <1>0, <2>1, InsertFacts
    <2>3. rawSize' \in Nat /\ n + 1 <= rawSize' /\ pos + 1 \in Nat /\ pos + 1 <= n + 1
        BY <1>0, <2>1, EditorAssumption
    <2> QED
        BY <2>1, <2>2, <2>3, StartStep
<1>2. CASE Backspace
    <2>1. /\ pos > 0 /\ raw' = RemoveAt(raw, pos) /\ pos' = pos - 1
          /\ rawSize' = rawSize /\ StartScan
        BY <1>2 DEF Backspace
    <2>2. pos - 1 \in Nat /\ pos - 1 < n /\ (pos - 1) + 1 = pos /\ pos - 1 <= n - 1
          /\ n - 1 <= rawSize
        BY <1>0, <2>1
    <2>3. raw' \in Seq(Chars) /\ Len(raw') = n - 1
        <3> DEFINE p == pos - 1
        <3>1. p \in Nat /\ p < Len(raw) /\ p + 1 = pos
            BY <1>0, <2>2
        <3> HIDE DEF p
        <3>2. RemoveAt(raw, p + 1) \in Seq(Chars) /\ Len(RemoveAt(raw, p + 1)) = Len(raw) - 1
            BY <1>0, <3>1, RemoveFacts
        <3> QED
            BY <1>0, <2>1, <3>1, <3>2
    <2> QED
        BY <1>0, <2>1, <2>2, <2>3, StartStep
<1>3. CASE Delete
    <2>1. /\ pos # n /\ raw' = RemoveAt(raw, pos + 1) /\ pos' = pos
          /\ rawSize' = rawSize /\ StartScan
        BY <1>0, <1>3 DEF Delete
    <2>2. pos < n /\ pos <= n - 1 /\ n - 1 <= rawSize
        BY <1>0, <2>1
    <2>3. raw' \in Seq(Chars) /\ Len(raw') = n - 1
        BY <1>0, <2>1, <2>2, RemoveFacts
    <2> QED
        BY <1>0, <2>1, <2>2, <2>3, StartStep
<1> QED
    BY <1>1, <1>2, <1>3

\* A character of the raw text is shown behind the others.
LEMMA ScanStep ==
    ASSUME EditTypes, BufferInv, pc = "scan", i < Len(raw), NEW shown \in Letters,
           Append1(shown), UNCHANGED <<raw, rawSize, pos, lineSize, winW, edited>>,
           mode' \in {"plain", "quoted", "escape"},
           \/ pc' = "scan" /\ i' = i + 1
           \/ pc' = "draw" /\ i' = i
    PROVE  EditTypes' /\ BufferInv'
<1> DEFINE n == Len(raw)
           s == Append(line, shown)
<1>0. /\ line \in Seq(Letters) /\ Len(line) = i /\ linePos = i /\ i \in Nat
      /\ n \in Nat /\ n = Len(raw) /\ i < n
    BY DEF EditTypes, BufferInv
<1>1. s \in Seq(Letters) /\ Len(s) = Len(line) + 1
    BY <1>0, AppendFacts
<1>2. line' = s /\ linePos' = linePos + 1
    BY DEF Append1
<1> HIDE DEF s, n
<1>3. i + 1 \in Nat /\ i + 1 <= n
    BY <1>0
<1>4. EditTypes'
    BY <1>0, <1>1, <1>2, <1>3 DEF EditTypes
<1>5. BufferInv'
    BY <1>0, <1>1, <1>2, <1>3 DEF BufferInv
<1> QED
    BY <1>4, <1>5

LEMMA ParseStep ==
    ASSUME EditTypes, BufferInv, PreParse
    PROVE  EditTypes' /\ BufferInv'
<1>1. CASE ScanChar
    <2> DEFINE char == raw[i + 1]
               shown == IF mode = "plain" THEN Upper(char) ELSE char
    <2>1. char \in Chars
        <3>1. raw \in Seq(Chars) /\ i \in Nat /\ i < Len(raw) /\ Len(raw) \in Nat
            BY <1>1 DEF ScanChar, EditTypes
        <3>2. i + 1 \in 1..Len(raw)
            BY <3>1
        <3> QED
            BY <3>1, <3>2
    <2>2. shown \in Letters
        BY <2>1, UpperLetter
    <2>3. /\ pc = "scan" /\ i < Len(raw) /\ pc' = "scan" /\ i' = i + 1
          /\ UNCHANGED <<raw, rawSize, pos, lineSize, winW, edited>>
          /\ mode' \in {"plain", "quoted", "escape"}
          /\ Append1(shown)
        BY <1>1 DEF ScanChar, rawVars, termVars, keyVars, EditTypes
    <2> HIDE DEF shown
    <2> QED
        BY <2>2, <2>3, ScanStep
<1>2. CASE ParseCommand
    <2>1. /\ pc = "scan" /\ i < Len(raw) /\ pc' = "draw" /\ i' = i
          /\ UNCHANGED <<raw, rawSize, pos, lineSize, winW, edited>>
          /\ mode' = mode /\ raw[i + 1] = Semicolon /\ Append1(Semicolon)
        BY <1>2 DEF ParseCommand, rawVars, termVars, keyVars
    <2>2. Semicolon \in Letters
        <3>1. raw \in Seq(Chars) /\ i \in Nat /\ i < Len(raw) /\ Len(raw) \in Nat
            BY <2>1 DEF EditTypes
        <3>2. i + 1 \in 1..Len(raw)
            BY <3>1
        <3>3. raw[i + 1] \in Chars
            BY <3>1, <3>2
        <3> QED
            BY <2>1, <3>3, UpperLetter
    <2>3. mode' \in {"plain", "quoted", "escape"}
        BY <2>1 DEF EditTypes
    <2> QED
        BY <2>1, <2>2, <2>3, ScanStep
<1>3. CASE DrawCommand
    <2>1. /\ pc = "draw" /\ pc' = "queue"
          /\ UNCHANGED <<raw, rawSize, pos, line, lineSize, linePos, i, mode, winW, edited>>
        BY <1>3 DEF DrawCommand, rawVars, lineVars, keyVars
    <2> QED
        BY <2>1 DEF EditTypes, BufferInv
<1>4. CASE CompleteCommand
    <2> DEFINE n == Len(raw)
               rest == SubSeq(raw, i + 2, n)
    <2>1. /\ pc = "queue" /\ pc' = "scan" /\ line' = <<>> /\ linePos' = 0
          /\ raw' = rest /\ pos' = 0 /\ i' = 0
          /\ UNCHANGED <<rawSize, lineSize, mode, winW, edited>>
        BY <1>4 DEF CompleteCommand
    <2>2. /\ raw \in Seq(Chars) /\ n \in Nat /\ i \in Nat /\ i < n
          /\ n <= rawSize /\ rawSize \in Nat /\ lineSize = rawSize
        BY <2>1 DEF EditTypes, BufferInv
    <2>3. rest \in Seq(Chars) /\ Len(rest) = n - (i + 1)
        <3> DEFINE c == i + 1
        <3>1. c \in 0..Len(raw) /\ i + 2 = c + 1
            BY <2>2
        <3> HIDE DEF c
        <3>2. rest = SubSeq(raw, c + 1, Len(raw))
            BY <3>1
        <3> HIDE DEF rest
        <3>3. rest \in Seq(Chars) /\ Len(rest) = Len(raw) - c
            BY <2>2, <3>1, <3>2, RestFacts
        <3> QED
            BY <3>3 DEF c
    <2>4. n - (i + 1) \in Nat /\ n - (i + 1) <= rawSize
        <3> HIDE DEF n
        <3> QED
            BY <2>2
    <2>5. <<>> \in Seq(Letters) /\ Len(<<>>) = 0
        OBVIOUS
    <2> HIDE DEF rest, n
    <2>6. EditTypes'
        BY <2>1, <2>3, <2>5 DEF EditTypes
    <2>7. BufferInv'
        BY <2>1, <2>2, <2>3, <2>4, <2>5 DEF BufferInv
    <2> QED
        BY <2>6, <2>7
<1>5. CASE HangInSplit
    BY <1>5 DEF HangInSplit, rawVars, lineVars, scanVars, termVars, keyVars,
                EditTypes, BufferInv
<1>6. CASE Redraw
    <2>1. /\ pc = "scan" /\ pc' = "idle" /\ i = Len(raw) /\ linePos' = pos
          /\ UNCHANGED <<raw, rawSize, pos, line, lineSize, i, mode, winW, edited>>
        BY <1>6, LoopEnds DEF Redraw, rawVars, keyVars
    <2> QED
        BY <2>1 DEF EditTypes, BufferInv
<1> QED
    BY <1>1, <1>2, <1>3, <1>4, <1>5, <1>6 DEF PreParse

LEMMA CursorStep ==
    ASSUME EditTypes, BufferInv, NEW key \in Keys, MoveCursor(key) \/ DivideByWidth(key)
    PROVE  EditTypes' /\ BufferInv'
<1>1. CASE DivideByWidth(key)
    BY <1>1 DEF DivideByWidth, rawVars, lineVars, scanVars, termVars, keyVars,
                EditTypes, BufferInv
<1>2. CASE MoveCursor(key)
    <2> DEFINE n == Len(raw)
               to == Target(key)
    <2>1. /\ pc = "idle" /\ Moves(key) /\ pos' = to /\ linePos' = to
          /\ UNCHANGED <<raw, rawSize, line, lineSize, pc, i, mode, winW, edited>>
        BY <1>2 DEF MoveCursor, Idle, scanVars, keyVars
    <2>2. pos \in Nat /\ pos <= n /\ n \in Nat /\ winW \in Nat
        BY DEF EditTypes, BufferInv
    <2>3. to \in Nat /\ to <= n
        <3>1. CASE key = "left"
            BY <2>1, <2>2, <3>1 DEF Moves, Target
        <3>2. CASE key = "right"
            BY <2>1, <2>2, <3>2 DEF Moves, Target
        <3>3. CASE key = "up"
            BY <2>1, <2>2, <3>3 DEF Moves, Target
        <3>4. CASE key = "down"
            BY <2>1, <2>2, <3>4 DEF Moves, Target
        <3>5. CASE key = "home"
            BY <2>1, <2>2, <3>5 DEF Moves, Target
        <3>6. CASE key = "end"
            BY <2>1, <2>2, <3>6 DEF Moves, Target
        <3> QED
            BY <3>1, <3>2, <3>3, <3>4, <3>5, <3>6 DEF Keys
    <2> HIDE DEF to
    <2> QED
        BY <2>1, <2>3 DEF EditTypes, BufferInv
<1> QED
    BY <1>1, <1>2

LEMMA BufferNext == EditTypes /\ BufferInv /\ [Next]_vars => EditTypes' /\ BufferInv'
<1> SUFFICES ASSUME EditTypes, BufferInv, [Next]_vars PROVE EditTypes' /\ BufferInv'
    OBVIOUS
<1>1. CASE WriteResponse
    BY <1>1 DEF WriteResponse, rawVars, lineVars, scanVars, keyVars, EditTypes, BufferInv
<1>2. ASSUME NEW w \in Widths, WindowSize(w) PROVE EditTypes' /\ BufferInv'
    <2>1. /\ winW' \in Nat
          /\ UNCHANGED <<raw, rawSize, pos, line, lineSize, linePos, pc, i, mode, edited>>
        BY <1>2, EditorAssumption DEF WindowSize, rawVars, lineVars, scanVars, keyVars
    <2> QED
        BY <2>1 DEF EditTypes, BufferInv
<1>3. CASE UNCHANGED vars
    BY <1>3 DEF vars, rawVars, lineVars, scanVars, termVars, keyVars, EditTypes, BufferInv
<1> QED
    BY <1>1, <1>2, <1>3, EditStep, ParseStep, CursorStep DEF Next

LEMMA BufferInvariant == Spec => [](EditTypes /\ BufferInv)
BY TypesInit, BufferInit, BufferNext, PTL DEF Spec

\* The cursor never leaves the text, by whatever keys it got there: memmove is
\* never given a negative length (hello.c:323, 354, 385, 518-538).
THEOREM CursorKept == Spec => []CursorInRange
<1>1. EditTypes /\ BufferInv => CursorInRange
    <2> SUFFICES ASSUME EditTypes, BufferInv PROVE CursorInRange
        OBVIOUS
    <2> DEFINE n == Len(raw)
    <2>1. n \in Nat /\ i \in Nat
        BY DEF EditTypes
    <2>2. i < n => i + 1 <= n
        BY <2>1
    <2> QED
        BY <2>2 DEF EditTypes, BufferInv, CursorInRange
<1> QED
    BY <1>1, BufferInvariant, PTL

\* No buffer is written past its end: appendToLineBuffer, which does not test, is
\* never given more than the raw buffer was extended for (hello.c:212, 379-391).
THEOREM BuffersKept == Spec => []BuffersFit
<1>1. EditTypes /\ BufferInv => BuffersFit
    <2> SUFFICES ASSUME EditTypes, BufferInv PROVE BuffersFit
        OBVIOUS
    <2> DEFINE n == Len(raw)
    <2>1. n \in Nat /\ i \in Nat /\ n <= rawSize /\ rawSize \in Nat /\ lineSize = rawSize
        BY DEF EditTypes, BufferInv
    <2>2. Len(line) = n \/ (Len(line) = i /\ i <= n) \/ (Len(line) = i + 1 /\ i < n)
        BY DEF EditTypes, BufferInv
    <2> HIDE DEF n
    <2>3. Len(line) <= rawSize
        BY <2>1, <2>2
    <2> QED
        BY <2>1, <2>3 DEF BuffersFit, n
<1> QED
    BY <1>1, BufferInvariant, PTL

-----------------------------------------------------------------------------
(* The scan ends.                                                          *)

\* What is left in each place of the scan, in numbers alone.
LEMMA LeftNat ==
    ASSUME EditTypes, BufferInv, pc # "idle", NEW n, n = Len(raw)
    PROVE  /\ n \in Nat /\ i \in Nat /\ i <= n
           /\ pc \in {"draw", "queue"} => i < n
           /\ Left = CASE pc = "scan"  -> 3 * (n - i) + 1
                       [] pc = "draw"  -> 3 * (n - i)
                       [] pc = "queue" -> 3 * (n - i) - 1
<1>1. n \in Nat /\ i \in Nat /\ pc \in {"scan", "draw", "queue"}
    BY DEF EditTypes
<1>2. (pc = "scan" => i <= n) /\ (pc \in {"draw", "queue"} => i < n)
    BY DEF BufferInv
<1>3. i <= n
    BY <1>1, <1>2
<1> QED
    BY <1>1, <1>2, <1>3 DEF Left

\* The loop of pre_parseInput, which sets its own variable back and shortens the
\* text it runs over at every command, comes nearer to its end at every step,
\* unless splitLines hangs in it, whatever the text (hello.c:214, 253-263).
THEOREM ScanEnds == Spec => ScanShrinks
<1>1. ASSUME EditTypes, EditTypes', BufferInv, BufferInv', Next, pc # "idle"
      PROVE  Left' < Left \/ dead' = "hung"
    <2> DEFINE n == Len(raw)
    <2>0. /\ n \in Nat /\ i \in Nat /\ i <= n /\ n = Len(raw)
          /\ pc \in {"draw", "queue"} => i < n
          /\ Left = CASE pc = "scan"  -> 3 * (n - i) + 1
                      [] pc = "draw"  -> 3 * (n - i)
                      [] pc = "queue" -> 3 * (n - i) - 1
        BY <1>1, LeftNat
    <2> HIDE DEF n
    <2>1. CASE ScanChar
        <3>1. pc = "scan" /\ pc' = "scan" /\ i < n /\ i' = i + 1 /\ raw' = raw
            BY <2>0, <2>1 DEF ScanChar, rawVars
        <3>2. Left' = 3 * (n - (i + 1)) + 1
            BY <2>0, <3>1 DEF Left
        <3> QED
            BY <2>0, <3>1, <3>2
    <2>2. CASE ParseCommand
        <3>1. pc = "scan" /\ pc' = "draw" /\ i' = i /\ raw' = raw
            BY <2>2 DEF ParseCommand, rawVars
        <3>2. Left' = 3 * (n - i)
            BY <2>0, <3>1 DEF Left
        <3> QED
            BY <2>0, <3>1, <3>2
    <2>3. CASE DrawCommand
        <3>1. pc = "draw" /\ pc' = "queue" /\ i' = i /\ raw' = raw
            BY <2>3 DEF DrawCommand, rawVars
        <3>2. Left' = 3 * (n - i) - 1
            BY <2>0, <3>1 DEF Left
        <3> QED
            BY <2>0, <3>1, <3>2
    <2>4. CASE CompleteCommand
        <3>1. /\ pc = "queue" /\ pc' = "scan" /\ i' = 0
              /\ raw' = SubSeq(raw, i + 2, Len(raw))
            BY <2>4 DEF CompleteCommand
        <3>2. i < n /\ Left = 3 * (n - i) - 1
            BY <2>0, <3>1
        <3>3. Len(raw') = n - (i + 1)
            <4> DEFINE c == i + 1
            <4>1. c \in 0..n /\ i + 2 = c + 1
                BY <2>0, <3>2
            <4>2. raw \in Seq(Chars)
                BY <1>1 DEF EditTypes
            <4> HIDE DEF c
            <4>3. Len(SubSeq(raw, c + 1, Len(raw))) = Len(raw) - c
                BY <2>0, <4>1, <4>2, RestFacts
            <4> QED
                BY <2>0, <3>1, <4>1, <4>3 DEF c
        <3>4. Left' = 3 * (Len(raw') - 0) + 1
            BY <3>1 DEF Left
        <3>5. Left' = 3 * ((n - (i + 1)) - 0) + 1
            BY <3>3, <3>4
        <3>6. n \in Nat /\ i \in Nat
            BY <2>0
        <3> QED
            BY ONLY <3>2, <3>5, <3>6
    <2>5. CASE HangInSplit
        BY <2>5 DEF HangInSplit
    <2>6. CASE Redraw
        <3>1. pc = "scan" /\ pc' = "idle"
            BY <2>6 DEF Redraw
        <3>2. Left' = 0
            BY <3>1 DEF Left
        <3> QED
            BY <2>0, <3>1, <3>2
    <2>7. PreParse
        BY <1>1 DEF Next, AddChar, Backspace, Delete, MoveCursor, DivideByWidth,
                    WriteResponse, WindowSize, Idle
    <2> QED
        BY <2>1, <2>2, <2>3, <2>4, <2>5, <2>6, <2>7 DEF PreParse
<1>2. EditTypes /\ EditTypes' /\ BufferInv /\ BufferInv' /\ [Next]_vars
          => [pc # "idle" => Left' < Left \/ dead' = "hung"]_vars
    BY <1>1
<1> QED
    BY <1>2, BufferInvariant, PTL DEF Spec, ScanShrinks

-----------------------------------------------------------------------------
(* What is shown of each character, and where commands end.                *)

LEMMA ShownFacts ==
    ASSUME NEW text \in Seq(Chars), NEW k \in 1..Len(text)
    PROVE  /\ text[k] \in Chars
           /\ Shown(text)[k] = IF Modes(text)[k - 1] = "plain" THEN Upper(text[k])
                               ELSE text[k]
           /\ k \in Ends(text) <=> text[k] = Semicolon /\ Modes(text)[k - 1] = "plain"
           /\ Modes(text)[k] = NextMode(Modes(text)[k - 1], text[k])
<1>1. text[k] \in Chars
    OBVIOUS
<1>2. Modes(text)[k] = NextMode(Modes(text)[k - 1], text[k])
    BY ModesFacts
<1> QED
    BY <1>1, <1>2 DEF Shown, Ends

-----------------------------------------------------------------------------
(* What the scan has found so far: the inductive invariant of the line.    *)

ScanInv ==
    /\ pc = "scan" =>
          /\ mode = Modes(raw)[i]
          /\ \A k \in 1..i : line[k] = Shown(raw)[k] /\ k \notin Ends(raw)
    /\ pc \in {"draw", "queue"} =>
          /\ mode = "plain" /\ i + 1 \in Ends(raw)
          /\ \A k \in 1..(i + 1) : line[k] = Shown(raw)[k]
          /\ \A k \in 1..i : k \notin Ends(raw)
    /\ pc = "idle" => line = Shown(raw)

LEMMA ScanInit == Init => ScanInv
<1> SUFFICES ASSUME Init PROVE <<>> = Shown(<<>>)
    BY DEF Init, ScanInv
<1>1. Len(<<>>) = 0 /\ 1..0 = {}
    OBVIOUS
<1> QED
    BY <1>1 DEF Shown

\* Where a text begins to be scanned nothing has been found.
LEMMA ScanBegins ==
    ASSUME raw' \in Seq(Chars), pc' = "scan", i' = 0, mode' = "plain"
    PROVE  ScanInv'
<1>1. Modes(raw')[0] = "plain"
    BY ModesFacts
<1>2. 1..0 = {}
    OBVIOUS
<1> QED
    BY <1>1, <1>2 DEF ScanInv

LEMMA ScanStay ==
    ASSUME ScanInv, UNCHANGED <<raw, line, pc, i, mode>>
    PROVE  ScanInv'
BY DEF ScanInv

LEMMA ScanParse ==
    ASSUME EditTypes, EditTypes', BufferInv, ScanInv, PreParse
    PROVE  ScanInv'
<1> DEFINE n == Len(raw)
           char == raw[i + 1]
<1>0. raw \in Seq(Chars) /\ n \in Nat /\ n = Len(raw) /\ i \in Nat
      /\ mode \in {"plain", "quoted", "escape"} /\ line \in Seq(Letters)
    BY DEF EditTypes
<1> HIDE DEF n
<1>1. ASSUME pc = "scan", i < n, NEW shown \in Letters, Append1(shown)
      PROVE  /\ i + 1 \in 1..n /\ (i + 1) - 1 = i /\ mode = Modes(raw)[i]
             /\ \A k \in 1..i : line'[k] = Shown(raw)[k] /\ k \notin Ends(raw)
             /\ line'[i + 1] = shown
             /\ \A k \in 1..(i + 1) : k \in 1..i \/ k = i + 1
    <2>1. Len(line) = i
        BY <1>1 DEF BufferInv
    <2>2. (\A k \in 1..i : line'[k] = line[k]) /\ line'[i + 1] = shown
        BY <1>0, <1>1, <2>1, AppendFacts DEF Append1
    <2>3. i + 1 \in 1..n /\ (i + 1) - 1 = i /\ \A k \in 1..(i + 1) : k \in 1..i \/ k = i + 1
        BY <1>0, <1>1
    <2> QED
        BY <1>1, <2>2, <2>3 DEF ScanInv
<1>2. CASE ScanChar
    <2> DEFINE shown == IF mode = "plain" THEN Upper(char) ELSE char
    <2>1. /\ pc = "scan" /\ i < n /\ pc' = "scan" /\ i' = i + 1 /\ raw' = raw
          /\ ~(char = Semicolon /\ mode = "plain") /\ Append1(shown)
          /\ mode' = IF char = Quote /\ mode = "plain" THEN "quoted"
                     ELSE IF char = Quote /\ mode = "quoted" THEN "plain"
                     ELSE IF char = Backslash /\ mode = "quoted" THEN "escape"
                     ELSE IF mode = "escape" THEN "quoted" ELSE mode
        BY <1>0, <1>2 DEF ScanChar, rawVars
    <2>2. i + 1 \in 1..n
        BY <1>0, <2>1
    <2>3. shown \in Letters
        BY <1>0, <2>2, UpperLetter
    <2> HIDE DEF shown, char
    <2>4. /\ (i + 1) - 1 = i /\ mode = Modes(raw)[i]
          /\ \A k \in 1..i : line'[k] = Shown(raw)[k] /\ k \notin Ends(raw)
          /\ line'[i + 1] = shown
          /\ \A k \in 1..(i + 1) : k \in 1..i \/ k = i + 1
        BY <1>1, <2>1, <2>3
    <2>5. /\ Shown(raw)[i + 1] = shown /\ i + 1 \notin Ends(raw)
          /\ Modes(raw)[i + 1] = NextMode(mode, char)
        BY <1>0, <2>1, <2>2, <2>4, ShownFacts DEF shown, char
    <2>6. mode' = NextMode(mode, char)
        BY <1>0, <2>1 DEF NextMode, Quote, Backslash
    <2> QED
        BY <2>1, <2>4, <2>5, <2>6 DEF ScanInv
<1>3. CASE ParseCommand
    <2>1. /\ pc = "scan" /\ i < n /\ pc' = "draw" /\ i' = i /\ raw' = raw
          /\ char = Semicolon /\ mode = "plain" /\ Append1(Semicolon) /\ mode' = mode
        BY <1>0, <1>3 DEF ParseCommand, rawVars
    <2>2. i + 1 \in 1..n
        BY <1>0, <2>1
    <2>3. Semicolon \in Letters
        BY <1>0, <2>1, <2>2, UpperLetter
    <2> HIDE DEF char
    <2>4. /\ (i + 1) - 1 = i /\ mode = Modes(raw)[i]
          /\ \A k \in 1..i : line'[k] = Shown(raw)[k] /\ k \notin Ends(raw)
          /\ line'[i + 1] = Semicolon
          /\ \A k \in 1..(i + 1) : k \in 1..i \/ k = i + 1
        BY <1>1, <2>1, <2>3
    <2>5. Shown(raw)[i + 1] = Upper(Semicolon) /\ i + 1 \in Ends(raw)
        BY <1>0, <2>1, <2>2, <2>4, ShownFacts DEF char
    <2>6. Upper(Semicolon) = Semicolon
        BY DEF Upper, Semicolon
    <2> QED
        BY <2>1, <2>4, <2>5, <2>6 DEF ScanInv
<1>4. CASE DrawCommand
    BY <1>4 DEF DrawCommand, rawVars, lineVars, ScanInv
<1>5. CASE CompleteCommand
    <2>1. mode' = "plain"
        BY <1>5 DEF CompleteCommand, ScanInv
    <2>2. raw' \in Seq(Chars) /\ pc' = "scan" /\ i' = 0
        BY <1>5 DEF CompleteCommand, EditTypes
    <2> QED
        BY <2>1, <2>2, ScanBegins
<1>6. CASE HangInSplit
    BY <1>6, ScanStay DEF HangInSplit, rawVars, lineVars, scanVars
<1>7. CASE Redraw
    <2>1. pc = "scan" /\ pc' = "idle" /\ i = n /\ raw' = raw /\ line' = line
        BY <1>0, <1>7, LoopEnds DEF Redraw, rawVars
    <2>2. Len(line) = n /\ \A k \in 1..n : line[k] = Shown(raw)[k]
        BY <2>1 DEF BufferInv, ScanInv
    <2>3. line = [k \in 1..n |-> line[k]]
        BY <1>0, <2>2
    <2>4. Shown(raw) = [k \in 1..n |-> Shown(raw)[k]]
        BY <1>0 DEF Shown
    <2>5. line = Shown(raw)
        BY <2>2, <2>3, <2>4
    <2> QED
        BY <2>1, <2>5 DEF ScanInv
<1> QED
    BY <1>2, <1>3, <1>4, <1>5, <1>6, <1>7 DEF PreParse

LEMMA ScanNext ==
    EditTypes /\ EditTypes' /\ BufferInv /\ ScanInv /\ [Next]_vars => ScanInv'
<1> SUFFICES ASSUME EditTypes, EditTypes', BufferInv, ScanInv, [Next]_vars PROVE ScanInv'
    OBVIOUS
<1>1. CASE StartScan
    BY <1>1, ScanBegins DEF StartScan, EditTypes
<1>2. CASE \/ \E key \in Keys : MoveCursor(key) \/ DivideByWidth(key)
           \/ WriteResponse
           \/ \E w \in Widths : WindowSize(w)
           \/ UNCHANGED vars
    <2>1. UNCHANGED <<raw, line, pc, i, mode>>
        BY <1>2 DEF MoveCursor, DivideByWidth, WriteResponse, WindowSize, rawVars,
                    lineVars, scanVars, vars
    <2> QED
        BY <2>1, ScanStay
<1>3. (\E char \in Chars : AddChar(char)) \/ Backspace \/ Delete => StartScan
    BY DEF AddChar, Backspace, Delete
<1> QED
    BY <1>1, <1>2, <1>3, ScanParse DEF Next

LEMMA ScanInvariant == Spec => [](EditTypes /\ BufferInv /\ ScanInv)
<1>1. Init => EditTypes /\ BufferInv /\ ScanInv
    BY TypesInit, BufferInit, ScanInit
<1>2. EditTypes /\ BufferInv /\ ScanInv /\ [Next]_vars
          => EditTypes' /\ BufferInv' /\ ScanInv'
    BY BufferNext, ScanNext
<1> QED
    BY <1>1, <1>2, PTL DEF Spec

\* Between two keys the line shows the raw text, in upper case outside quotations,
\* with the cursor in its place (hello.c:207-275, 330-332, 359-361, 395-397, 540).
THEOREM LineKept == Spec => []LineShown
<1>1. BufferInv /\ ScanInv => LineShown
    BY DEF BufferInv, ScanInv, LineShown, Idle
<1> QED
    BY <1>1, ScanInvariant, PTL

-----------------------------------------------------------------------------
(* The commands of a text, and what a scan of its rest finds.              *)

\* What follows the first c characters of e, where a command ends, is scanned as
\* if it stood alone.
LEMMA RestModes ==
    ASSUME NEW e \in Seq(Chars), NEW c \in 0..Len(e), Modes(e)[c] = "plain",
           NEW r, r = SubSeq(e, c + 1, Len(e))
    PROVE  \A k \in 0..Len(r) : Modes(r)[k] = Modes(e)[c + k]
<1> DEFINE n == Len(e)
           m == Len(r)
           S == {k \in 0..m : Modes(r)[k] # Modes(e)[c + k]}
<1>1. /\ r \in Seq(Chars) /\ m = n - c
      /\ \A k \in 1..(n - c) : r[k] = e[c + k]
    BY RestFacts
<1>2. n \in Nat /\ c \in 0..n /\ n = Len(e) /\ m = Len(r)
    OBVIOUS
<1> HIDE DEF n, m
<1>3. m \in Nat /\ S \subseteq Nat
    BY <1>1, <1>2
<1>4. ASSUME S # {} PROVE FALSE
    <2>1. PICK k \in S : \A y \in S : k <= y
        <3> HIDE DEF S
        <3> QED
            BY <1>3, <1>4, LeastNat
    <2>2. k \in 0..m /\ Modes(r)[k] # Modes(e)[c + k]
        OBVIOUS
    <2>3. CASE k = 0
        <3>1. c + 0 = c
            BY <1>2
        <3>2. Modes(r)[0] = "plain"
            BY <1>1, ModesFacts
        <3> QED
            BY <2>2, <2>3, <3>1, <3>2
    <2>4. CASE k # 0
        <3> DEFINE j == k - 1
                   q == c + k
        <3>1. /\ j \in 0..m /\ ~(k <= j) /\ k \in 1..m /\ q \in 1..n /\ q - 1 = c + j
              /\ k \in 1..(n - c)
            BY <1>1, <1>2, <2>2, <2>4
        <3>2. j \notin S
            BY <2>1, <3>1
        <3>3. Modes(r)[j] = Modes(e)[c + j]
            BY <3>1, <3>2
        <3>4. r[k] = e[q]
            BY <1>1, <3>1
        <3>5. Modes(r)[k] = NextMode(Modes(r)[j], r[k])
            BY <1>1, <1>2, <3>1, ModesFacts
        <3> HIDE DEF j, q
        <3>6. Modes(e)[q] = NextMode(Modes(e)[c + j], e[q])
            <4>1. \A x \in 1..n : Modes(e)[x] = NextMode(Modes(e)[x - 1], e[x])
                BY <1>2, ModesFacts
            <4>2. Modes(e)[q] = NextMode(Modes(e)[q - 1], e[q])
                BY <3>1, <4>1
            <4> QED
                BY <3>1, <4>2
        <3> QED
            BY <2>2, <3>3, <3>4, <3>5, <3>6 DEF q
    <2> QED
        BY <2>3, <2>4
<1> QED
    BY <1>2, <1>4

\* Where a command ends the text goes on plainly.
LEMMA EndIsPlain ==
    ASSUME NEW e \in Seq(Chars), NEW c, c = 0 \/ c \in Ends(e)
    PROVE  c \in 0..Len(e) /\ Modes(e)[c] = "plain"
<1> DEFINE n == Len(e)
<1>1. n \in Nat
    OBVIOUS
<1>2. CASE c = 0
    BY <1>1, <1>2, ModesFacts
<1>3. CASE c \in Ends(e)
    <2>1. c \in 1..n /\ e[c] = Semicolon /\ Modes(e)[c - 1] = "plain"
        BY <1>3 DEF Ends
    <2>2. Modes(e)[c] = NextMode("plain", Semicolon)
        BY <2>1, ModesFacts
    <2>3. NextMode("plain", Semicolon) = "plain"
        BY DEF NextMode, Semicolon, Quote
    <2> QED
        BY <1>1, <2>1, <2>2, <2>3
<1> QED
    BY <1>2, <1>3

\* The text r is e behind c, position by position.
BehindIs(e, c, r) ==
    /\ c \in Nat /\ r \in Seq(Chars) /\ Len(r) \in Nat
    /\ Len(e) = c + Len(r)
    /\ \A k \in 1..Len(r) :
          /\ Shown(r)[k] = Shown(e)[c + k]
          /\ k \in Ends(r) <=> c + k \in Ends(e)

LEMMA RestShown ==
    ASSUME NEW e \in Seq(Chars), NEW c, c = 0 \/ c \in Ends(e),
           NEW r, r = SubSeq(e, c + 1, Len(e))
    PROVE  BehindIs(e, c, r)
<1> DEFINE n == Len(e)
           m == Len(r)
<1>1. c \in 0..n /\ Modes(e)[c] = "plain" /\ n \in Nat
    BY EndIsPlain
<1>2. /\ r \in Seq(Chars) /\ m = n - c
      /\ \A k \in 1..(n - c) : r[k] = e[c + k]
    BY <1>1, RestFacts
<1>3. \A k \in 0..m : Modes(r)[k] = Modes(e)[c + k]
    BY <1>1, RestModes
<1>4. m \in Nat /\ c \in Nat /\ n = c + m
    <2> HIDE DEF n, m
    <2> QED
        BY <1>1, <1>2
<1>5. ASSUME NEW k \in 1..m
      PROVE  /\ Shown(r)[k] = Shown(e)[c + k]
             /\ k \in Ends(r) <=> c + k \in Ends(e)
    <2> DEFINE q == c + k
               j == k - 1
    <2>1. q \in 1..n /\ q - 1 = c + j /\ j \in 0..m /\ k \in 1..(n - c)
        <3> HIDE DEF n, m
        <3> QED
            BY <1>4, <1>5
    <2>2. r[k] = e[q] /\ Modes(r)[j] = Modes(e)[q - 1]
        BY <1>2, <1>3, <2>1
    <2>3. /\ Shown(r)[k] = IF Modes(r)[j] = "plain" THEN Upper(r[k]) ELSE r[k]
          /\ k \in Ends(r) <=> r[k] = Semicolon /\ Modes(r)[j] = "plain"
        BY <1>2, <1>5, ShownFacts
    <2> HIDE DEF q, j
    <2>4. /\ Shown(e)[q] = IF Modes(e)[q - 1] = "plain" THEN Upper(e[q]) ELSE e[q]
          /\ q \in Ends(e) <=> e[q] = Semicolon /\ Modes(e)[q - 1] = "plain"
        BY <2>1, ShownFacts
    <2> QED
        BY <2>2, <2>3, <2>4 DEF q
<1> QED
    BY <1>2, <1>4, <1>5 DEF BehindIs

\* The ends of commands up to c, and the nth end, as in CommandsOf.
EndsTo(e, c) == {j \in Ends(e) : j <= c}
Nth(e, n) == IF n = 0 THEN 0
             ELSE CHOOSE k \in Ends(e) : Cardinality({j \in Ends(e) : j <= k}) = n
Command(e, n) == SubSeq(Shown(e), Nth(e, n - 1) + 1, Nth(e, n))

LEMMA CommandsAre ==
    \A e : CommandsOf(e) = [n \in 1..Cardinality(Ends(e)) |-> Command(e, n)]
BY DEF CommandsOf, Command, Nth

LEMMA EndsFinite ==
    ASSUME NEW e \in Seq(Chars)
    PROVE  /\ Ends(e) \subseteq 1..Len(e) /\ Len(e) \in Nat /\ IsFiniteSet(Ends(e))
           /\ \A c : IsFiniteSet(EndsTo(e, c)) /\ Cardinality(EndsTo(e, c)) \in Nat
<1>1. Len(e) \in Nat
    OBVIOUS
<1>2. Ends(e) \subseteq 1..Len(e)
    BY DEF Ends
<1>3. IsFiniteSet(1..Len(e))
    BY <1>1, FS_Interval
<1>4. IsFiniteSet(Ends(e))
    BY <1>2, <1>3, FS_Subset
<1>5. \A c : EndsTo(e, c) \in SUBSET Ends(e)
    BY DEF EndsTo
<1>6. \A c : IsFiniteSet(EndsTo(e, c))
    BY <1>4, <1>5, FS_Subset
<1>7. \A c : Cardinality(EndsTo(e, c)) \in Nat
    BY <1>6, FS_CardinalityType
<1> QED
    BY <1>1, <1>2, <1>4, <1>6, <1>7

LEMMA NthIs ==
    ASSUME NEW e \in Seq(Chars), NEW c, c = 0 \/ c \in Ends(e)
    PROVE  Nth(e, Cardinality(EndsTo(e, c))) = c
<1>1. CASE c = 0
    <2>1. EndsTo(e, 0) = {}
        BY EndsFinite DEF EndsTo
    <2> QED
        BY <1>1, <2>1, FS_EmptySet DEF Nth
<1>2. CASE c \in Ends(e)
    <2> DEFINE n == Cardinality(EndsTo(e, c))
    <2>0. Ends(e) \subseteq Nat
        BY EndsFinite
    <2>1. c \in EndsTo(e, c)
        BY <1>2, <2>0 DEF EndsTo
    <2>2. n # 0
        BY <2>1, EndsFinite, FS_EmptySet
    <2>3. ASSUME NEW k \in Ends(e), NEW d \in Ends(e), k < d,
                 Cardinality(EndsTo(e, k)) = Cardinality(EndsTo(e, d))
          PROVE  FALSE
        <3>1. EndsTo(e, k) \in SUBSET EndsTo(e, d)
            BY <2>0, <2>3 DEF EndsTo
        <3>2. EndsTo(e, d) = EndsTo(e, k)
            BY <2>3, <3>1, EndsFinite, FS_Subset
        <3>3. d \in EndsTo(e, d) /\ d \notin EndsTo(e, k)
            BY <2>0, <2>3 DEF EndsTo
        <3> QED
            BY <3>2, <3>3
    <2>4. \A k \in Ends(e) : Cardinality(EndsTo(e, k)) = n => k = c
        <3> SUFFICES ASSUME NEW k \in Ends(e), Cardinality(EndsTo(e, k)) = n PROVE k = c
            OBVIOUS
        <3>1. ~(k < c) /\ ~(c < k)
            BY <1>2, <2>3
        <3> QED
            BY <1>2, <2>0, <3>1
    <2>5. Nth(e, n) = CHOOSE k \in Ends(e) : Cardinality(EndsTo(e, k)) = n
        BY <2>2 DEF Nth, EndsTo
    <2> HIDE DEF n
    <2>6. (CHOOSE k \in Ends(e) : Cardinality(EndsTo(e, k)) = n) = c
        BY <1>2, <2>4 DEF n
    <2> QED
        BY <2>5, <2>6 DEF n
<1> QED
    BY <1>1, <1>2

LEMMA RestOfRest ==
    ASSUME NEW T, NEW s \in Seq(T), NEW a \in Nat, NEW b \in Nat, a + b <= Len(s),
           NEW r, r = SubSeq(s, a + 1, Len(s))
    PROVE  SubSeq(r, b + 1, Len(r)) = SubSeq(s, (a + b) + 1, Len(s))
<1> DEFINE n == Len(s)
           m == Len(r)
           d == a + b
           x == SubSeq(r, b + 1, m)
           y == SubSeq(s, d + 1, n)
<1>0. n \in Nat /\ n = Len(s)
    OBVIOUS
<1>1. r \in Seq(T) /\ m = n - a /\ \A k \in 1..(n - a) : r[k] = s[a + k]
    <2>1. a \in 0..Len(s)
        BY <1>0
    <2> QED
        BY <2>1, RestFacts
<1>2. y \in Seq(T) /\ Len(y) = n - d /\ \A k \in 1..(n - d) : y[k] = s[d + k]
    <2>1. d \in 0..Len(s)
        BY <1>0
    <2> HIDE DEF d
    <2> QED
        BY <2>1, RestFacts
<1>3. x \in Seq(T) /\ Len(x) = m - b /\ \A k \in 1..(m - b) : x[k] = r[b + k]
    <2>1. b \in 0..m
        <3> HIDE DEF n, m
        <3> QED
            BY <1>0, <1>1
    <2>2. b \in 0..Len(r)
        BY <2>1
    <2> QED
        BY <1>1, <2>2, RestFacts
<1> HIDE DEF x, y, n, m
<1>4. m - b = n - d
    BY <1>0, <1>1
<1>5. \A k \in 1..(n - d) : x[k] = y[k]
    <2> SUFFICES ASSUME NEW k \in 1..(n - d) PROVE x[k] = y[k]
        OBVIOUS
    <2>1. b + k \in 1..(n - a) /\ a + (b + k) = d + k
        BY <1>0
    <2> QED
        BY <1>1, <1>2, <1>3, <1>4, <2>1
<1>6. x = [k \in 1..(n - d) |-> x[k]] /\ y = [k \in 1..(n - d) |-> y[k]]
    BY <1>2, <1>3, <1>4
<1>7. x = y
    BY <1>5, <1>6
<1> QED
    BY <1>7 DEF x, y, m, n, d

LEMMA AppendNext ==
    ASSUME NEW K \in Nat, NEW T, NEW t \in [1..(K + 1) -> T],
           NEW s, s = [n \in 1..K |-> t[n]]
    PROVE  Append(s, t[K + 1]) = t
<1>1. 1..K \subseteq 1..(K + 1) /\ K + 1 \in 1..(K + 1)
      /\ \A n \in 1..(K + 1) : n \in 1..K \/ n = K + 1
    OBVIOUS
<1>2. s \in Seq(T) /\ Len(s) = K
    BY <1>1
<1>3. /\ Append(s, t[K + 1]) \in Seq(T) /\ Len(Append(s, t[K + 1])) = K + 1
      /\ \A n \in 1..K : Append(s, t[K + 1])[n] = s[n]
      /\ Append(s, t[K + 1])[K + 1] = t[K + 1]
    BY <1>1, <1>2, AppendFacts
<1> DEFINE u == Append(s, t[K + 1])
<1> HIDE DEF u
<1>4. u \in Seq(T) /\ Len(u) = K + 1 /\ \A n \in 1..(K + 1) : u[n] = t[n]
    BY <1>1, <1>3 DEF u
<1>5. u = [n \in 1..(K + 1) |-> u[n]] /\ t = [n \in 1..(K + 1) |-> t[n]]
    BY <1>4
<1>6. u = t
    BY <1>4, <1>5
<1> QED
    BY <1>6 DEF u

-----------------------------------------------------------------------------
(* The commands cut off so far: the inductive invariant of the split.      *)

\* Of the text e the first c characters have been cut into the commands s, and
\* r is the rest.
SplitAt(c, e, r, s) ==
    /\ c = 0 \/ c \in Ends(e)
    /\ r = SubSeq(e, c + 1, Len(e))
    /\ s = [n \in 1..Cardinality(EndsTo(e, c)) |-> Command(e, n)]

LEMMA SplitStart ==
    ASSUME NEW e \in Seq(Chars)
    PROVE  SplitAt(0, e, e, <<>>)
<1>1. EndsTo(e, 0) = {}
    BY EndsFinite DEF EndsTo
<1>2. Cardinality(EndsTo(e, 0)) = 0
    BY <1>1, FS_EmptySet
<1>3. <<>> = [n \in 1..Cardinality(EndsTo(e, 0)) |-> Command(e, n)]
    BY <1>2
<1>4. e = SubSeq(e, 0 + 1, Len(e))
    OBVIOUS
<1> QED
    BY <1>3, <1>4 DEF SplitAt

LEMMA SplitEnd ==
    ASSUME NEW e \in Seq(Chars), NEW c, NEW r, NEW s, SplitAt(c, e, r, s),
           \A k \in 1..Len(r) : k \notin Ends(r)
    PROVE  s = CommandsOf(e) /\ r = RestOf(e)
<1>1. (c = 0 \/ c \in Ends(e)) /\ r = SubSeq(e, c + 1, Len(e))
    BY DEF SplitAt
<1>2. /\ c \in Nat /\ Len(r) \in Nat /\ Len(e) = c + Len(r)
      /\ \A k \in 1..Len(r) : k \in Ends(r) <=> c + k \in Ends(e)
    <2>1. BehindIs(e, c, r)
        BY <1>1, RestShown
    <2> QED
        BY <2>1 DEF BehindIs
<1>3. Ends(e) \subseteq 1..Len(e)
    BY EndsFinite
<1> DEFINE m == Len(r)
<1>4. ASSUME NEW j \in Ends(e) PROVE j <= c
    <2>1. SUFFICES ASSUME ~(j <= c) PROVE FALSE
        OBVIOUS
    <2> DEFINE k == j - c
    <2>2. j \in 1..(c + m)
        BY <1>2, <1>3
    <2> HIDE DEF m
    <2>3. k \in 1..m /\ c + k = j
        BY <1>2, <2>1, <2>2 DEF m
    <2> HIDE DEF k
    <2> QED
        BY <1>2, <2>3 DEF m
<1>5. EndsTo(e, c) = Ends(e)
    BY <1>4 DEF EndsTo
<1>6. s = CommandsOf(e)
    BY <1>5, CommandsAre DEF SplitAt
<1> DEFINE last == CHOOSE k \in Ends(e) \union {0} : \A j \in Ends(e) : j <= k
<1>7. last = c
    <2>1. \A k \in Ends(e) \union {0} : k \in Nat
        BY <1>3
    <2>2. c \in Ends(e) \union {0} /\ \A j \in Ends(e) : j <= c
        BY <1>1, <1>4
    <2>3. ASSUME NEW k \in Ends(e) \union {0}, \A j \in Ends(e) : j <= k
          PROVE  k = c
        <3>1. c <= k
            BY <1>1, <2>1, <2>3
        <3>2. k <= c
            BY <1>2, <1>4
        <3> QED
            BY <1>2, <2>1, <3>1, <3>2
    <2> QED
        BY <2>2, <2>3
<1>8. r = RestOf(e)
    BY <1>1, <1>7 DEF RestOf
<1> QED
    BY <1>6, <1>8

\* The next command ends with the first b characters of the rest.
LEMMA SplitCut ==
    ASSUME NEW e \in Seq(Chars), NEW c, NEW r, NEW s, SplitAt(c, e, r, s),
           NEW b \in 1..Len(r), b \in Ends(r), \A k \in 1..(b - 1) : k \notin Ends(r),
           NEW l \in Seq(Letters), Len(l) = b, \A k \in 1..b : l[k] = Shown(r)[k]
    PROVE  SplitAt(c + b, e, SubSeq(r, b + 1, Len(r)), Append(s, l))
<1> DEFINE d == c + b
           n == Len(e)
           m == Len(r)
           K == Cardinality(EndsTo(e, c))
<1>1. (c = 0 \/ c \in Ends(e)) /\ r = SubSeq(e, c + 1, Len(e))
      /\ s = [k \in 1..K |-> Command(e, k)]
    BY DEF SplitAt
<1>2. /\ c \in Nat /\ r \in Seq(Chars) /\ m \in Nat /\ n = c + m
      /\ \A k \in 1..m :
            /\ Shown(r)[k] = Shown(e)[c + k]
            /\ k \in Ends(r) <=> c + k \in Ends(e)
    <2>1. BehindIs(e, c, r)
        BY <1>1, RestShown
    <2> QED
        BY <2>1 DEF BehindIs
<1>3. Ends(e) \subseteq 1..n /\ n \in Nat /\ IsFiniteSet(EndsTo(e, c)) /\ K \in Nat
    BY EndsFinite
<1>4. b \in Nat /\ b \in 1..m /\ d \in Nat /\ d <= n /\ ~(d <= c) /\ c <= d
    <2>1. b \in 1..m /\ m \in Nat
        BY <1>2
    <2> HIDE DEF n, m
    <2> QED
        BY <1>2, <2>1
<1>5. d \in Ends(e)
    BY <1>2, <1>4
<1>6. EndsTo(e, d) = EndsTo(e, c) \union {d}
    <2>1. ASSUME NEW j \in Ends(e), j <= d, ~(j <= c) PROVE j = d
        <3> DEFINE k == j - c
        <3>1. j \in Nat
            BY <1>3
        <3>2. k \in 1..b /\ c + k = j
            BY <1>2, <1>4, <2>1, <3>1
        <3>3. k \in 1..m
            <4> HIDE DEF m, k
            <4> QED
                BY <1>2, <1>4, <3>2
        <3> HIDE DEF k
        <3>4. k \in Ends(r)
            BY <1>2, <2>1, <3>2, <3>3
        <3>5. k \notin 1..(b - 1)
            BY <3>4
        <3>6. k = b
            BY <1>4, <3>2, <3>5
        <3> QED
            BY <3>2, <3>6
    <2>2. ASSUME NEW j \in Ends(e), j <= c PROVE j <= d
        <3>1. j \in Nat
            BY <1>3
        <3> HIDE DEF d
        <3> QED
            BY <1>2, <1>4, <2>2, <3>1
    <2>3. d <= d
        BY <1>4
    <2> HIDE DEF d
    <2> QED
        BY <1>5, <2>1, <2>2, <2>3 DEF EndsTo
<1>7. d \notin EndsTo(e, c)
    BY <1>4 DEF EndsTo
<1>8. Cardinality(EndsTo(e, d)) = K + 1
    <2> HIDE DEF d
    <2> QED
        BY <1>3, <1>6, <1>7, FS_AddElement
<1>9. Nth(e, K) = c /\ Nth(e, K + 1) = d
    <2>1. Nth(e, K) = c
        BY <1>1, NthIs
    <2>2. Nth(e, Cardinality(EndsTo(e, d))) = d
        BY <1>5, NthIs
    <2> QED
        BY <1>8, <2>1, <2>2
<1>10. Command(e, K + 1) = SubSeq(Shown(e), c + 1, d)
    <2>1. (K + 1) - 1 = K
        BY <1>3
    <2> HIDE DEF K, d
    <2> QED
        BY <1>9, <2>1 DEF Command
<1>11. l = SubSeq(Shown(e), c + 1, d)
    <2> DEFINE u == Shown(e)
               x == SubSeq(u, c + 1, d)
    <2>1. u \in Seq(Letters) /\ Len(u) = n
        <3>1. \A k \in 1..n : u[k] \in Letters
            <4> SUFFICES ASSUME NEW k \in 1..n PROVE u[k] \in Letters
                OBVIOUS
            <4>1. e[k] \in Chars /\ u[k] = IF Modes(e)[k - 1] = "plain" THEN Upper(e[k]) ELSE e[k]
                BY ShownFacts
            <4> QED
                BY <4>1, UpperLetter
        <3>2. u = [k \in 1..n |-> u[k]]
            BY DEF Shown
        <3> HIDE DEF u, n
        <3> QED
            BY SMTT(30), <1>3, <3>1, <3>2
    <2> HIDE DEF u
    <2>2. c + 1 \in Nat \ {0} /\ d <= Len(u) /\ c + 1 <= d + 1 /\ d - (c + 1) + 1 = b
        BY SMTT(30), <1>2, <1>4, <2>1
    <2> HIDE DEF d, n
    <2>3. /\ x \in Seq(Letters) /\ Len(x) = d - (c + 1) + 1
          /\ \A k \in 1..(d - (c + 1) + 1) : x[k] = u[(c + 1) + k - 1]
        BY <1>4, <2>1, <2>2, SliceFacts
    <2> HIDE DEF x
    <2>4. \A k \in 1..b : x[k] = l[k]
        <3> SUFFICES ASSUME NEW k \in 1..b PROVE x[k] = l[k]
            OBVIOUS
        <3>1. (c + 1) + k - 1 = c + k
            BY <1>2
        <3>2. k \in 1..m
            <4> HIDE DEF m
            <4> QED
                BY <1>2, <1>4
        <3>3. Shown(r)[k] = u[c + k]
            BY <1>2, <3>2 DEF u
        <3> QED
            BY <2>2, <2>3, <3>1, <3>3
    <2>5. l = [k \in 1..b |-> l[k]] /\ x = [k \in 1..b |-> x[k]]
        BY <2>2, <2>3
    <2>6. l = x
        BY <2>4, <2>5
    <2> QED
        BY <2>6 DEF x, u
<1>12. Append(s, l) = [k \in 1..(K + 1) |-> Command(e, k)]
    <2> DEFINE t == [k \in 1..(K + 1) |-> Command(e, k)]
               T == {Command(e, k) : k \in 1..(K + 1)}
    <2>1. t \in [1..(K + 1) -> T] /\ t[K + 1] = l
        <3>1. K + 1 \in 1..(K + 1)
            BY <1>3
        <3> HIDE DEF K, d
        <3> QED
            BY <1>10, <1>11, <3>1
    <2>2. s = [k \in 1..K |-> t[k]]
        <3>1. \A k \in 1..K : k \in 1..(K + 1)
            BY <1>3
        <3> HIDE DEF K
        <3> QED
            BY <1>1, <3>1
    <2> HIDE DEF t, T, K
    <2>3. Append(s, t[K + 1]) = t
        BY <1>3, <2>1, <2>2, AppendNext
    <2> QED
        BY <2>1, <2>3 DEF t
<1>13. SubSeq(r, b + 1, m) = SubSeq(e, d + 1, n)
    BY <1>1, <1>2, <1>4, RestOfRest
<1> HIDE DEF d, K, m, n
<1>14. SplitAt(d, e, SubSeq(r, b + 1, m), Append(s, l))
    BY <1>5, <1>8, <1>12, <1>13 DEF SplitAt, n
<1> QED
    BY <1>14 DEF d, m

SplitInv ==
    /\ pc # "idle" => \E c : SplitAt(c, edited, raw, sent)
    /\ pc = "idle" => sent = CommandsOf(edited) /\ raw = RestOf(edited)

LEMMA SplitInit == Init => SplitInv
<1> SUFFICES ASSUME Init PROVE SplitInv
    OBVIOUS
<1>1. raw = <<>> /\ edited = <<>> /\ sent = <<>> /\ pc = "idle"
    BY DEF Init
<1>2. <<>> \in Seq(Chars) /\ \A k \in 1..Len(<<>>) : FALSE
    OBVIOUS
<1> DEFINE e == <<>>
<1>3. e \in Seq(Chars) /\ \A k \in 1..Len(e) : k \notin Ends(e)
    BY <1>2
<1>4. e = <<>>
    OBVIOUS
<1> HIDE DEF e
<1>5. SplitAt(0, e, e, <<>>)
    BY <1>3, SplitStart
<1>6. <<>> = CommandsOf(e) /\ e = RestOf(e)
    BY <1>3, <1>5, SplitEnd
<1> QED
    BY <1>1, <1>4, <1>6 DEF SplitInv

LEMMA SplitStay ==
    ASSUME SplitInv, UNCHANGED <<raw, edited, sent>>, pc = "idle" <=> pc' = "idle"
    PROVE  SplitInv'
BY DEF SplitInv

LEMMA SplitNext ==
    EditTypes /\ EditTypes' /\ BufferInv /\ ScanInv /\ SplitInv /\ [Next]_vars => SplitInv'
<1> SUFFICES ASSUME EditTypes, EditTypes', BufferInv, ScanInv, SplitInv, [Next]_vars
             PROVE  SplitInv'
    OBVIOUS
<1>1. CASE StartScan
    <2>1. /\ raw' = edited' /\ sent' = <<>> /\ pc' # "idle" /\ edited' \in Seq(Chars)
        BY <1>1 DEF StartScan, EditTypes
    <2>2. SplitAt(0, edited', edited', <<>>)
        BY <2>1, SplitStart
    <2> QED
        BY <2>1, <2>2 DEF SplitInv
<1>2. CASE \/ ScanChar \/ ParseCommand \/ DrawCommand \/ HangInSplit
           \/ \E key \in Keys : MoveCursor(key) \/ DivideByWidth(key)
           \/ WriteResponse
           \/ \E w \in Widths : WindowSize(w)
           \/ UNCHANGED vars
    <2>1. UNCHANGED <<raw, edited, sent>> /\ (pc = "idle" <=> pc' = "idle")
        BY <1>2 DEF ScanChar, ParseCommand, DrawCommand, HangInSplit, MoveCursor,
                    DivideByWidth, WriteResponse, WindowSize, rawVars, lineVars,
                    scanVars, keyVars, vars
    <2> QED
        BY <2>1, SplitStay
<1>3. CASE CompleteCommand
    <2> DEFINE b == i + 1
    <2>1. /\ pc = "queue" /\ pc' = "scan" /\ edited' = edited
          /\ sent' = Append(sent, line) /\ raw' = SubSeq(raw, i + 2, Len(raw))
        BY <1>3 DEF CompleteCommand
    <2>2. PICK c : SplitAt(c, edited, raw, sent)
        BY <2>1 DEF SplitInv
    <2>3. /\ raw \in Seq(Chars) /\ edited \in Seq(Chars) /\ line \in Seq(Letters)
          /\ i \in Nat /\ Len(line) = b /\ i < Len(raw) /\ Len(raw) \in Nat
        BY <2>1 DEF EditTypes, BufferInv
    <2>4. b \in 1..Len(raw) /\ b - 1 = i /\ b + 1 = i + 2
        BY <2>3
    <2>5. /\ b \in Ends(raw) /\ \A k \in 1..(b - 1) : k \notin Ends(raw)
          /\ \A k \in 1..b : line[k] = Shown(raw)[k]
        BY <2>1, <2>4 DEF ScanInv
    <2> HIDE DEF b
    <2>6. SplitAt(c + b, edited, SubSeq(raw, b + 1, Len(raw)), Append(sent, line))
        BY <2>2, <2>3, <2>4, <2>5, SplitCut
    <2>7. SplitAt(c + b, edited', raw', sent')
        BY <2>1, <2>4, <2>6
    <2> QED
        BY <2>1, <2>7 DEF SplitInv
<1>4. CASE Redraw
    <2>1. /\ pc = "scan" /\ pc' = "idle" /\ i = Len(raw)
          /\ UNCHANGED <<raw, edited, sent>> /\ edited \in Seq(Chars)
        BY <1>4, LoopEnds DEF Redraw, rawVars, keyVars, EditTypes
    <2>2. PICK c : SplitAt(c, edited, raw, sent)
        BY <2>1 DEF SplitInv
    <2>3. \A k \in 1..Len(raw) : k \notin Ends(raw)
        BY <2>1 DEF ScanInv
    <2>4. sent = CommandsOf(edited) /\ raw = RestOf(edited)
        BY <2>1, <2>2, <2>3, SplitEnd
    <2> QED
        BY <2>1, <2>4 DEF SplitInv
<1>5. (\E char \in Chars : AddChar(char)) \/ Backspace \/ Delete => StartScan
    BY DEF AddChar, Backspace, Delete
<1> QED
    BY <1>1, <1>2, <1>3, <1>4, <1>5 DEF Next, PreParse

\* A key puts on the command queue exactly the commands its text completes, as
\* they are shown and in their order, and leaves the rest on the line, whatever
\* the text, quotations and escapes included (hello.c:207-275).
THEOREM SplitKept == Spec => []SplitsAsMeant
<1>1. Init => SplitInv
    BY SplitInit
<1>2. EditTypes /\ EditTypes' /\ BufferInv /\ ScanInv /\ SplitInv /\ [Next]_vars
          => SplitInv'
    BY SplitNext
<1>3. SplitInv => SplitsAsMeant
    BY DEF SplitInv, SplitsAsMeant, Idle
<1> QED
    BY <1>1, <1>2, <1>3, ScanInvariant, PTL DEF Spec
=============================================================================
