----------------------------- MODULE LineDrawing -----------------------------
(***************************************************************************)
(* How a line is drawn on the terminal: the leaves of the error stack are  *)
(* sorted, the text is cut into rows as wide as the window behind a '<',   *)
(* and the characters at the errors are shown inverse.  Picture says what  *)
(* the drawing is meant to look like without saying how it is made.        *)
(*                                                                         *)
(* A terminal is [rows, row, col]: the rows from the one where the drawing *)
(* begins, which are sequences of cells, and its cursor.                   *)
(***************************************************************************)
EXTENDS Integers, Sequences, FiniteSets, SequencesExt

CONSTANT PromptLen          \* globalConfig.promptLen

Cell(char, inverse) == [char |-> char, inverse |-> inverse]
Prompt == <<Cell("<", FALSE)>>

\* Op(v), in a form that makes TLC evaluate v once.
With(v, Op(_)) == CHOOSE r \in {Op(x) : x \in {v}} : TRUE

-----------------------------------------------------------------------------
(* The terminal.                                                             *)

\* Cleared from the cursor on, which is in the first column.
Cleared == [rows |-> << <<>> >>, row |-> 0, col |-> 0]

\* Drawing goes on at the end of the last row.
CrLf(t) == [rows |-> Append(t.rows, <<>>), row |-> t.row + 1, col |-> 0]

\* What does not fit wraps to the next row; what just fits leaves the cursor
\* behind it on the same row.
Write(t, cells, w) ==
    LET row   == Last(t.rows) \o cells
        wraps == IF row = <<>> THEN 0 ELSE (Len(row) - 1) \div w
    IN  [rows |-> Front(t.rows) \o [n \in 1..wraps + 1 |->
                     SubSeq(row, (n - 1) * w + 1, Min({n * w, Len(row)}))],
         row  |-> t.row + wraps,
         col  |-> Len(row) - wraps * w]

\* VT100_CURSOR_TO_BEGIN, _DOWN and _RIGHT: up, to the first column, down, and
\* right as far as the window reaches.
Move(t, up, down, right, w) ==
    [t EXCEPT !.row = @ - up + down, !.col = Min({right, w - 1})]

-----------------------------------------------------------------------------
(* The positions of the errors.  Of the error stack its leaves are kept, in   *)
(* the order of the walk: <<>> when its error is PARSE_OK.                    *)

\* Mutant of addSorted_int: a smaller position goes behind the one it precedes.
AddBehind(array, c) ==
    LET at == SelectInSeq(array, LAMBDA d : d >= c)
    IN  IF at = 0 THEN Append(array, c)
        ELSE IF array[at] = c THEN array
        ELSE InsertAt(array, at + 1, c)

addSorted_int(array, c) ==
    LET at == SelectInSeq(array, LAMBDA d : d >= c)
    IN  IF at = 0 THEN Append(array, c)
        ELSE IF array[at] = c THEN array
        ELSE InsertAt(array, at, c)

errorStack_GetPositions(leaves) ==
    LET array[k \in 0..Len(leaves)] ==
          IF k = 0 THEN <<>>
          ELSE With(array[k - 1], LAMBDA a : addSorted_int(a, leaves[k]))
    IN  array[Len(leaves)]

-----------------------------------------------------------------------------
(* The drawing: state [term, cur], where cur is the next error, or one more   *)
(* than there are.                                                            *)

\* Characters start..end, counted from 0 as in the code.
Plain(line, start, end) ==
    [k \in 1..end - start + 1 |-> Cell(line[start + k], FALSE)]

\* Mutant of insertHighlight: the text goes on at the error, not behind it.
HighlightTwice(line, positions, s, start, end, w) ==
    LET from(k) == IF k = s.cur THEN start ELSE positions[k - 1]
        turn(k) == \A j \in s.cur..k : from(j) <= positions[j] /\ positions[j] <= end
        part(k) == Plain(line, from(k), positions[k] - 1)
                      \o <<Cell(line[positions[k] + 1], TRUE)>>
        draw(cur) ==
          With(FlattenSeq([n \in 1..cur - s.cur |-> part(s.cur + n - 1)]), LAMBDA cells :
             [term |-> Write(s.term, cells \o Plain(line, from(cur), end), w),
              cur  |-> cur])
    IN  With(s.cur + Cardinality({k \in s.cur..Len(positions) : turn(k)}), draw)

\* The loop takes a turn for each next error within what is left of the row: what
\* stands before it, then the character inverse.  The rest of the row follows.
insertHighlight(line, positions, s, start, end, w) ==
    LET from(k) == IF k = s.cur THEN start ELSE positions[k - 1] + 1
        turn(k) == \A j \in s.cur..k : from(j) <= positions[j] /\ positions[j] <= end
        part(k) == Plain(line, from(k), positions[k] - 1)
                      \o <<Cell(line[positions[k] + 1], TRUE)>>
        draw(cur) ==
          With(FlattenSeq([n \in 1..cur - s.cur |-> part(s.cur + n - 1)]), LAMBDA cells :
             [term |-> Write(s.term, cells \o Plain(line, from(cur), end), w),
              cur  |-> cur])
    IN  With(s.cur + Cardinality({k \in s.cur..Len(positions) : turn(k)}), draw)

\* The first position of a row, and as many full rows as fit, each with CRLF.
RowStart(n, w) == IF n = 1 THEN 0 ELSE (n - 1) * w - PromptLen

FullRows(line, positions, full, w) ==
    LET draw(s, n) == [insertHighlight(line, positions, s, RowStart(n, w),
                                       n * w - PromptLen - 1, w) EXCEPT !.term = CrLf(@)]
        after[n \in 0..full] ==
          IF n = 0 THEN [term |-> Write(Cleared, Prompt, w), cur |-> 1]
          ELSE With(after[n - 1], LAMBDA s : draw(s, n))
    IN  after[full]

splitLines(line, leaves, w) ==
    LET full == (Len(line) + PromptLen) \div w
        draw(positions) ==
          With(FullRows(line, positions, full, w), LAMBDA s :
             insertHighlight(line, positions, s, RowStart(full + 1, w), Len(line) - 1, w).term)
    IN  With(errorStack_GetPositions(leaves), draw)

\* The cursor of the text is at pos.  Without a text nothing is moved.
positionTheCursor(t, line, pos, w) ==
    IF line = <<>> THEN t
    ELSE Move(t, (Len(line) + PromptLen) \div w,
                 (pos + PromptLen) \div w, (pos + PromptLen) % w, w)

\* The cursor keys' way from one position to another.
moveCursor(t, from, to, w) ==
    Move(t, (from + PromptLen) \div w, (to + PromptLen) \div w, (to + PromptLen) % w, w)

-----------------------------------------------------------------------------
\* What a line is meant to look like: behind the prompt, w characters to a row,
\* those at the errors inverse; a full row is followed by another.
Picture(line, errors, w) ==
    LET cells == Prompt \o [k \in 1..Len(line) |-> Cell(line[k], k - 1 \in errors)]
    IN  [r \in 1..Len(cells) \div w + 1 |->
           SubSeq(cells, (r - 1) * w + 1, Min({r * w, Len(cells)}))]
=============================================================================
