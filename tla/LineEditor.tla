----------------------------- MODULE LineEditor -----------------------------
(***************************************************************************)
(* The command line of one connection: the keys that edit the raw text,    *)
(* pre_parseInput, which turns it into the text shown and cuts complete    *)
(* commands off, and the rows of the terminal the text is drawn on.        *)
(*                                                                         *)
(* Every key is handled under line_buffer_mutex, so the steps of one key   *)
(* follow each other; pre_parseInput takes one step for each character.    *)
(* Of the terminal the rows from the prompt down are kept, and the cursor, *)
(* counted from the row of the prompt: see LineDrawing.  What the parser   *)
(* finds wrong with a command is any sequence of positions.                *)
(***************************************************************************)
EXTENDS Integers, Sequences, SequencesExt

CONSTANTS
    Chars,              \* the characters a user types
    MaxText,            \* bound: characters on the line
    MaxErrors,          \* bound: leaves of the error stack
    Widths,             \* the window widths a client may report
    LineBufferExtent,   \* globalConfig.lineBufferExtent
    PromptLen           \* globalConfig.promptLen

ASSUME EditorAssumption ==
    /\ MaxText \in Nat /\ MaxErrors \in Nat
    /\ Widths \subseteq Nat
    /\ LineBufferExtent \in Nat \ {0}
    /\ PromptLen = 1       \* init sets it to 1, the prompt being "<"

INSTANCE CommandText
INSTANCE LineDrawing

VARIABLES
    raw, rawSize, pos,          \* raw_line_buffer: text, size, current_pos
    line, lineSize, linePos,    \* line_buffer: the same
    winW,                       \* win_w: 0 until the client reports its window
    pc,                         \* "idle", or where pre_parseInput is: "scan", or
                                \* at a command to "draw" or to "queue"
    i, mode,                    \* its loop variable and its state
    errors,                     \* errorStack: the positions of its leaves
    screen,                     \* the terminal
    missed,                     \* rows by which the last clear missed the prompt
    dead,                       \* "no", "hung" in splitLines or "sigfpe"
    edited, sent                \* the text the last key made, and the commands
                                \* it put on the command queue

rawVars  == <<raw, rawSize, pos>>
lineVars == <<line, lineSize, linePos>>
scanVars == <<pc, i, mode>>
termVars == <<winW, screen, missed>>
keyVars  == <<edited, sent>>
vars == <<rawVars, lineVars, scanVars, errors, termVars, dead, keyVars>>

Idle == pc = "idle" /\ dead = "no"

\* errorStackInit: an error at position -1.
NoParseYet == <<-1>>

Init ==
    /\ raw = <<>> /\ rawSize = LineBufferExtent /\ pos = 0
    /\ line = <<>> /\ lineSize = LineBufferExtent /\ linePos = 0
    /\ winW = 0 /\ screen = Cleared /\ missed = 0
    /\ pc = "idle" /\ i = 0 /\ mode = "plain"
    /\ errors = NoParseYet
    /\ dead = "no"
    /\ edited = <<>> /\ sent = <<>>

-----------------------------------------------------------------------------
(* Keys that edit the text.                                                *)

\* pre_parseInput starts: the line is rebuilt in a buffer as large as the raw.
StartScan ==
    /\ line' = <<>> /\ linePos' = 0 /\ lineSize' = rawSize'
    /\ pc' = "scan" /\ i' = 0 /\ mode' = "plain"
    /\ edited' = raw' /\ sent' = <<>>
    /\ UNCHANGED <<errors, termVars, dead>>

\* Mutant of AddChar: the buffer is extended one character too late.
AddCharLate(char) ==
    /\ Idle
    /\ Len(raw) < MaxText
    /\ rawSize' = IF Len(raw) > rawSize THEN rawSize + LineBufferExtent
                  ELSE rawSize
    /\ raw' = InsertAt(raw, pos + 1, char)
    /\ pos' = pos + 1
    /\ StartScan

\* add_char_to_line_buf
AddChar(char) ==
    /\ Idle
    /\ Len(raw) < MaxText
    /\ rawSize' = IF Len(raw) >= rawSize THEN rawSize + LineBufferExtent
                  ELSE rawSize
    /\ raw' = InsertAt(raw, pos + 1, char)
    /\ pos' = pos + 1
    /\ StartScan

\* Mutant of Backspace: no early return at the beginning of the line.
BackspaceAnywhere ==
    /\ Idle
    /\ raw' = RemoveAt(raw, pos)
    /\ pos' = pos - 1
    /\ UNCHANGED rawSize
    /\ StartScan

\* handleBackspace
Backspace ==
    /\ Idle
    /\ pos > 0
    /\ raw' = RemoveAt(raw, pos)
    /\ pos' = pos - 1
    /\ UNCHANGED rawSize
    /\ StartScan

\* handleDelete
Delete ==
    /\ Idle
    /\ pos # Len(raw)
    /\ raw' = RemoveAt(raw, pos + 1)
    /\ UNCHANGED <<pos, rawSize>>
    /\ StartScan

-----------------------------------------------------------------------------
(* pre_parseInput.                                                         *)

\* clearTerminalLine goes up as many rows as it takes the cursor to be below
\* the prompt, given the line buffer's cursor at p: it misses the prompt's row
\* by the difference.
Clear(p) == missed' = IF winW = 0 THEN 0 ELSE screen.row - p \div winW

\* splitLines and positionTheCursor, with the cursor at p.
Draw(p, w) == screen' = positionTheCursor(splitLines(line, errors, w), line, p, w)

\* The condition of the loop.
InLoop == i < Len(raw)

\* appendToLineBuffer: the character goes to the line as it is shown.
Append1(char) ==
    /\ line' = Append(line, char)
    /\ linePos' = linePos + 1

ScanChar ==
    /\ pc = "scan" /\ dead = "no"
    /\ InLoop
    /\ LET char == raw[i + 1] IN
          /\ ~(char = Semicolon /\ mode = "plain")
          /\ mode' = IF char = Quote /\ mode = "plain" THEN "quoted"
                     ELSE IF char = Quote /\ mode = "quoted" THEN "plain"
                     ELSE IF char = Backslash /\ mode = "quoted" THEN "escape"
                     ELSE IF mode = "escape" THEN "quoted" ELSE mode
          /\ Append1(IF mode = "plain" THEN Upper(char) ELSE char)
    /\ i' = i + 1
    /\ UNCHANGED <<rawVars, lineSize, pc, errors, termVars, dead, keyVars>>

\* A ';' outside quotations: TL1CommandParse parses the raw text, with errors at
\* any places of it or none.  The place behind the ';' stands for all behind it.
ParseCommand ==
    /\ pc = "scan" /\ dead = "no"
    /\ InLoop
    /\ raw[i + 1] = Semicolon /\ mode = "plain"
    /\ Append1(Semicolon)
    /\ errors' \in BoundedSeq(0..i + 1, MaxErrors)
    /\ pc' = "draw"
    /\ UNCHANGED <<rawVars, lineSize, i, mode, termVars, dead, keyVars>>

\* The command is drawn as it is queued, without a cursor.
DrawCommand ==
    /\ pc = "draw" /\ dead = "no"
    /\ winW > 0
    /\ Clear(linePos)
    /\ screen' = splitLines(line, errors, winW)
    /\ pc' = "queue"
    /\ UNCHANGED <<rawVars, lineVars, i, mode, errors, winW, dead, keyVars>>

\* Mutant of CompleteCommand: the rest is moved from one character too far.
CompleteTooFar ==
    /\ pc = "queue"
    /\ screen' = Cleared
    /\ sent' = Append(sent, line)
    /\ line' = <<>> /\ linePos' = 0
    /\ errors' = NoParseYet
    /\ raw' = SubSeq(raw, i + 3, Len(raw))
    /\ pos' = 0
    /\ i' = 0
    /\ pc' = "scan"
    /\ UNCHANGED <<rawSize, lineSize, mode, winW, missed, dead, edited>>

\* Mutant of CompleteCommand: the error stack is kept.
CompleteWithErrors ==
    /\ pc = "queue"
    /\ screen' = Cleared
    /\ sent' = Append(sent, line)
    /\ line' = <<>> /\ linePos' = 0
    /\ raw' = SubSeq(raw, i + 2, Len(raw))
    /\ pos' = 0
    /\ i' = 0
    /\ pc' = "scan"
    /\ UNCHANGED <<rawSize, lineSize, mode, errors, winW, missed, dead, edited>>

\* Mutant of CompleteCommand: raw_line_buffer.len is kept.
CompleteSameLength ==
    /\ pc = "queue"
    /\ screen' = Cleared
    /\ sent' = Append(sent, line)
    /\ line' = <<>> /\ linePos' = 0
    /\ errors' = NoParseYet
    /\ raw' = SubSeq(raw, i + 2, Len(raw)) \o SubSeq(raw, Len(raw) - i, Len(raw))
    /\ pos' = 0
    /\ i' = 0
    /\ pc' = "scan"
    /\ UNCHANGED <<rawSize, lineSize, mode, winW, missed, dead, edited>>

\* A new row is begun, the command queued, and the rest of the raw text moved to
\* its beginning.
CompleteCommand ==
    /\ pc = "queue"
    /\ screen' = Cleared
    /\ sent' = Append(sent, line)
    /\ line' = <<>> /\ linePos' = 0
    /\ errors' = NoParseYet
    /\ raw' = SubSeq(raw, i + 2, Len(raw))
    /\ pos' = 0
    /\ i' = 0
    /\ pc' = "scan"
    /\ UNCHANGED <<rawSize, lineSize, mode, winW, missed, dead, edited>>

\* splitLines never ends when the width is 0: line * 0 is always small enough.
HangInSplit ==
    /\ dead = "no"
    /\ winW = 0
    /\ pc = "draw" \/ (pc = "scan" /\ ~InLoop)
    /\ dead' = "hung"
    /\ UNCHANGED <<rawVars, lineVars, scanVars, errors, termVars, keyVars>>

\* Mutant of Redraw: the cursor position is not restored.
RedrawAtEnd ==
    /\ pc = "scan" /\ dead = "no"
    /\ ~InLoop
    /\ winW > 0
    /\ Clear(linePos)
    /\ Draw(linePos, winW)
    /\ pc' = "idle"
    /\ UNCHANGED <<rawVars, line, linePos, lineSize, i, mode, errors, winW, dead, keyVars>>

\* The end of every editing key: restore the cursor, clear, draw, position.
Redraw ==
    /\ pc = "scan" /\ dead = "no"
    /\ ~InLoop
    /\ winW > 0
    /\ linePos' = pos
    /\ Clear(pos)
    /\ Draw(pos, winW)
    /\ pc' = "idle"
    /\ UNCHANGED <<rawVars, line, lineSize, i, mode, errors, winW, dead, keyVars>>

-----------------------------------------------------------------------------
(* Cursor keys, window size and responses.                                 *)

\* The guards of processVT100Command and the switch of moveCursor.
Target(key) ==
    CASE key = "left"  -> pos - 1
      [] key = "right" -> pos + 1
      [] key = "up"    -> pos - winW
      [] key = "down"  -> pos + winW
      [] key = "home"  -> 0
      [] key = "end"   -> Len(raw)
\* Mutant of Moves: "down" is allowed one character past the end.
MovesTooFar(key) ==
    CASE key \in {"left", "home"} -> pos > 0
      [] key \in {"right", "end"} -> pos < Len(raw)
      [] key = "up"               -> ~(pos < winW)
      [] key = "down"             -> ~(pos + winW > Len(raw) + 1)

Moves(key) ==
    CASE key \in {"left", "home"} -> pos > 0
      [] key \in {"right", "end"} -> pos < Len(raw)
      [] key = "up"               -> ~(pos < winW)
      [] key = "down"             -> ~(pos + winW > Len(raw))

\* Mutant of MoveCursor: the way up leaves the prompt out, as clearTerminalLine.
MoveWithoutPrompt(key) ==
    /\ Idle
    /\ Moves(key)
    /\ winW > 0
    /\ pos' = Target(key)
    /\ linePos' = pos'
    /\ screen' = moveCursor(screen, pos - PromptLen, pos', winW)
    /\ UNCHANGED <<raw, rawSize, line, lineSize, scanVars, errors, winW, missed,
                   dead, keyVars>>

MoveCursor(key) ==
    /\ Idle
    /\ Moves(key)
    /\ winW > 0
    /\ pos' = Target(key)
    /\ linePos' = pos'
    /\ screen' = moveCursor(screen, pos, pos', winW)
    /\ UNCHANGED <<raw, rawSize, line, lineSize, scanVars, errors, winW, missed,
                   dead, keyVars>>

\* moveCursor divides by the width.
DivideByWidth(key) ==
    /\ Idle
    /\ Moves(key)
    /\ winW = 0
    /\ dead' = "sigfpe"
    /\ UNCHANGED <<rawVars, lineVars, scanVars, errors, termVars, keyVars>>

\* processTelnetCommand, NAWS: clear with the old width, draw with the new one.
WindowSize(w) ==
    /\ Idle
    /\ Clear(linePos)
    /\ winW' = w
    /\ IF w > 0 THEN Draw(linePos, w) /\ UNCHANGED dead
                ELSE dead' = "hung" /\ UNCHANGED screen
    /\ UNCHANGED <<rawVars, lineVars, scanVars, errors, keyVars>>

\* rspClientLoop writes one element between two keys, on rows of its own, and
\* draws the line below it.
WriteResponse ==
    /\ Idle
    /\ Clear(linePos)
    /\ IF winW > 0 THEN Draw(linePos, winW) ELSE UNCHANGED screen
    /\ UNCHANGED <<rawVars, lineVars, scanVars, errors, winW, dead, keyVars>>

-----------------------------------------------------------------------------
Keys == {"left", "right", "up", "down", "home", "end"}

\* The steps of a key that edits, after the first.
PreParse ==
    ScanChar \/ ParseCommand \/ DrawCommand \/ CompleteCommand \/ HangInSplit \/ Redraw

Next ==
    \/ \E char \in Chars : AddChar(char)
    \/ Backspace \/ Delete
    \/ PreParse
    \/ \E key \in Keys : MoveCursor(key) \/ DivideByWidth(key)
    \/ WriteResponse
    \/ \E w \in Widths : WindowSize(w)

Spec == Init /\ [][Next]_vars

-----------------------------------------------------------------------------
(* Correctness.                                                            *)

\* Every variable has its type.
TypeOK ==
    /\ raw \in Seq(Chars) /\ rawSize \in Nat /\ pos \in Nat
    /\ line \in Seq({Upper(char) : char \in Chars} \union Chars)
    /\ lineSize \in Nat /\ linePos \in Nat
    /\ winW \in Widths \union {0}
    /\ pc \in {"idle", "scan", "draw", "queue"} /\ i \in Nat
    /\ mode \in {"plain", "quoted", "escape"}
    /\ errors \in Seq(0..MaxText) \union {NoParseYet}
    /\ screen.row \in Nat /\ screen.col \in Nat /\ missed \in Int
    /\ dead \in {"no", "hung", "sigfpe"}
    /\ edited \in Seq(Chars)
    /\ sent \in Seq(Seq({Upper(char) : char \in Chars} \union Chars))

\* The cursor never leaves the text, by whatever keys it got there: memmove is
\* never given a negative length (hello.c:323, 354, 385, 518-538).
CursorInRange == pos <= Len(raw) /\ linePos <= Len(raw)

\* Neither buffer is written past its end: the raw one grows in time, and the
\* line, which appendToLineBuffer writes without a test, never needs more
\* (hello.c:212, 379-391; Connection.c:110-112).
BuffersFit == Len(raw) <= rawSize /\ Len(line) <= lineSize

\* A key puts on the command queue exactly the commands its text completes, as
\* they are shown and in their order, and leaves the rest on the line: none is
\* cut in a quotation, none stays behind (hello.c:207-275).
SplitsAsMeant == Idle => sent = CommandsOf(edited) /\ raw = RestOf(edited)

\* Between two keys the line shows the raw text, with the cursor in its place
\* (hello.c:330-332, 359-361, 395-397, 540).
LineShown == Idle => line = Shown(raw) /\ linePos = pos

\* The terminal's cursor is where the text's cursor is drawn, after any mixture
\* of edits, moves, resizes and responses, which all move it from where they
\* take it to be (hello.c:282-309, 504-557).
CursorInPlace ==
    Idle /\ winW > 0 =>
        /\ screen.row = (pos + PromptLen) \div winW
        /\ screen.col = (pos + PromptLen) % winW

\* Between two keys the whole line is on the terminal, cut into rows at the width
\* it has now, each character once and none highlighted for the errors of a
\* command before it (hello.c:139-202, 251).
LineDrawn == Idle /\ winW > 0 => screen.rows = Picture(line, {}, winW)

\* A command is drawn with the characters at its errors highlighted, each once and
\* no other, in whatever order the walk of the error stack finds them, twice or
\* behind the command, and wherever the rows are cut (hello.c:108-137, tl_array.c:50).
CommandDrawn ==
    pc = "queue" =>
        screen.rows = Picture(line, {errors[k] : k \in DOMAIN errors}, winW)

\* The most steps pre_parseInput and the drawing behind it can still take.
Left == LET rest == Len(raw) - i IN
    CASE pc = "idle"  -> 0
      [] pc = "scan"  -> 3 * rest + 1
      [] pc = "draw"  -> 3 * rest
      [] pc = "queue" -> 3 * rest - 1

\* The loop of pre_parseInput, which sets its own variable back and shortens the
\* text it runs over at every command, comes nearer to its end at every step,
\* unless splitLines hangs in it: no text makes it cut commands off for ever
\* with line_buffer_mutex held (hello.c:214, 253-263).
ScanShrinks == [][pc # "idle" => Left' < Left \/ dead' = "hung"]_vars

\* "Move cursor to the first line of the command" (hello.c:71): the screen is
\* cleared from the prompt down, not from a row above or below it.
ClearsFromPrompt == missed = 0

\* "Nothing to do, the virtual screen hasn't been initialized yet"
\* (hello.c:56): a key typed before the window size is known does no harm.
ScreenNotNeeded == dead = "no"
=============================================================================
