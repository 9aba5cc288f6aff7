-------------------------- MODULE LineEditorScreen --------------------------
(***************************************************************************)
(* Proofs about what LineEditor draws, for any text, width, errors and     *)
(* keys.  The line behind its prompt is a sequence of cells, inverse at    *)
(* the errors; each piece that insertHighlight writes is a slice of it,    *)
(* and slices that meet join.  So splitLines lays the cells into rows, and *)
(* the screen is the picture of the line, with the cursor where every move *)
(* takes it to be.                                                         *)
(***************************************************************************)
EXTENDS LineEditorProofs

USE DEF InLoop

-----------------------------------------------------------------------------
(* Slices of a sequence.                                                   *)

\* One element before a sequence.
LEMMA JoinOne ==
    ASSUME NEW T, NEW r \in Seq(T), NEW s \in Seq(T), Len(r) = 1
    PROVE  /\ r \o s \in Seq(T) /\ Len(r \o s) = Len(s) + 1
           /\ (r \o s)[1] = r[1]
           /\ \A k \in 1..Len(s) : (r \o s)[k + 1] = s[k]
<1> DEFINE n == Len(s)
<1>1. r \o s \in Seq(T) /\ Len(r \o s) = 1 + n
    BY ZenonT(60), ConcatProperties
<1>2. \A k \in 1..(Len(r) + Len(s)) :
         (r \o s)[k] = IF k <= Len(r) THEN r[k] ELSE s[k - Len(r)]
    BY ConcatProperties
<1>3. \A k \in 1..n : /\ k + 1 \in 1..(Len(r) + Len(s)) /\ ~(k + 1 <= Len(r))
                      /\ (k + 1) - Len(r) = k
    OBVIOUS
<1>4. 1 \in 1..(Len(r) + Len(s)) /\ 1 <= Len(r)
    OBVIOUS
<1> DEFINE all == r \o s
<1> HIDE DEF all
<1>5. all[1] = r[1] /\ Len(all) = n + 1
    BY <1>1, <1>2, <1>4 DEF all
<1>6. \A k \in 1..n : all[k + 1] = s[k]
    BY <1>2, <1>3 DEF all
<1> QED
    BY <1>1, <1>5, <1>6 DEF all

\* A slice of one element.
LEMMA SliceOne ==
    ASSUME NEW T, NEW s \in Seq(T), NEW a \in 1..Len(s)
    PROVE  SubSeq(s, a, a) = <<s[a]>>
<1>1. SubSeq(s, a, a) \in Seq(T) /\ Len(SubSeq(s, a, a)) = 1
      /\ SubSeq(s, a, a)[1] = s[a]
    <2>1. a \in Nat \ {0} /\ a \in Nat /\ a <= Len(s) /\ a <= a + 1
          /\ a - a + 1 = 1 /\ 1 \in 1..(a - a + 1) /\ a + 1 - 1 = a
        OBVIOUS
    <2>2. /\ SubSeq(s, a, a) \in Seq(T)
          /\ Len(SubSeq(s, a, a)) = a - a + 1
          /\ \A k \in 1..(a - a + 1) : SubSeq(s, a, a)[k] = s[a + k - 1]
        BY <2>1, SliceFacts
    <2> QED
        BY <2>1, <2>2
<1> DEFINE x == SubSeq(s, a, a)
           y == <<s[a]>>
<1>2. y \in Seq(T) /\ Len(y) = 1 /\ y[1] = s[a]
    OBVIOUS
<1>3. x \in Seq(T) /\ Len(x) = 1 /\ x[1] = s[a]
    BY <1>1
<1> HIDE DEF x, y
<1>4. \A k \in 1..Len(x) : x[k] = y[k]
    BY <1>2, <1>3
<1>5. x = y
    BY <1>2, <1>3, <1>4, SeqEqual
<1> QED
    BY <1>5 DEF x, y

-----------------------------------------------------------------------------
(* The cells of a line.                                                    *)

Glyphs == [char : Letters \union {"<"}, inverse : BOOLEAN]

\* The prompt and the line behind it, inverse at the errors.
CellsOf(text, errs) == Prompt \o [k \in 1..Len(text) |-> Cell(text[k], k - 1 \in errs)]

\* The cells one by one.
LEMMA CellsAre ==
    ASSUME NEW text \in Seq(Letters), NEW errs
    PROVE  /\ CellsOf(text, errs) \in Seq(Glyphs)
           /\ Len(CellsOf(text, errs)) = Len(text) + 1
           /\ CellsOf(text, errs)[1] = Cell("<", FALSE)
           /\ \A k \in 1..Len(text) :
                 CellsOf(text, errs)[k + 1] = Cell(text[k], k - 1 \in errs)
<1> DEFINE n == Len(text)
           body == [k \in 1..n |-> Cell(text[k], k - 1 \in errs)]
           all == Prompt \o body
<1>1. n \in Nat
    OBVIOUS
<1>2. \A k \in 1..n : Cell(text[k], k - 1 \in errs) \in Glyphs
    <2> SUFFICES ASSUME NEW k \in 1..n PROVE Cell(text[k], k - 1 \in errs) \in Glyphs
        OBVIOUS
    <2>1. text[k] \in Letters
        OBVIOUS
    <2>2. (k - 1 \in errs) \in BOOLEAN
        OBVIOUS
    <2> QED
        BY <2>1, <2>2, Zenon DEF Cell, Glyphs
<1>3. body \in Seq(Glyphs) /\ Len(body) = n
    <2> HIDE DEF n
    <2>1. body \in [1..n -> Glyphs]
        BY <1>2
    <2> HIDE DEF body
    <2> QED
        BY <1>1, <2>1, IsASeq
<1>4. Prompt \in Seq(Glyphs) /\ Len(Prompt) = 1 /\ Prompt[1] = Cell("<", FALSE)
    <2> DEFINE x == Cell("<", FALSE)
    <2>1. x \in Glyphs
        BY DEF Cell, Glyphs
    <2> HIDE DEF x
    <2>2. <<x>> \in Seq(Glyphs) /\ Len(<<x>>) = 1 /\ <<x>>[1] = x
        BY <2>1
    <2>3. Prompt = <<x>>
        BY DEF Prompt, x
    <2> QED
        BY <2>2, <2>3 DEF x
<1>5. \A k \in 1..n : body[k] = Cell(text[k], k - 1 \in errs)
    OBVIOUS
<1> HIDE DEF n, body
<1>6. all \in Seq(Glyphs) /\ Len(all) = n + 1 /\ all[1] = Prompt[1]
      /\ \A k \in 1..n : all[k + 1] = body[k]
    <2> DEFINE p == Prompt
    <2>1. p \in Seq(Glyphs) /\ Len(p) = 1
        BY <1>4
    <2> HIDE DEF p
    <2>2. /\ p \o body \in Seq(Glyphs) /\ Len(p \o body) = n + 1
          /\ (p \o body)[1] = p[1]
          /\ \A k \in 1..n : (p \o body)[k + 1] = body[k]
        BY <1>1, <1>3, <2>1, JoinOne
    <2>3. all = p \o body
        BY DEF p
    <2> HIDE DEF all
    <2>4. /\ all \in Seq(Glyphs) /\ Len(all) = n + 1 /\ all[1] = p[1]
          /\ \A k \in 1..n : all[k + 1] = body[k]
        BY <2>2, <2>3
    <2> QED
        BY <2>4 DEF p
<1>7. CellsOf(text, errs) = all
    BY DEF CellsOf, all, body, n
<1> HIDE DEF all
<1> QED
    BY <1>4, <1>5, <1>6, <1>7 DEF n

\* Positions of the line, from 0, that are drawn as they are: a slice of the cells.
LEMMA PlainIsSlice ==
    ASSUME NEW text \in Seq(Letters), NEW errs, NEW start \in Nat, NEW end \in Int,
           start <= end + 1, end < Len(text), \A p \in start..end : p \notin errs
    PROVE  /\ Plain(text, start, end) = SubSeq(CellsOf(text, errs), start + 2, end + 2)
           /\ Plain(text, start, end) \in Seq(Glyphs)
<1> DEFINE C == CellsOf(text, errs)
           n == Len(text)
           m == end - start + 1
           p == Plain(text, start, end)
           s == SubSeq(C, start + 2, end + 2)
<1>0. C \in Seq(Glyphs) /\ Len(C) = n + 1
    BY CellsAre
<1>1. n \in Nat /\ m \in Nat /\ C \in Seq(Glyphs) /\ Len(C) = n + 1
    <2> HIDE DEF C
    <2> QED
        BY <1>0
<1>2. \A k \in 1..n : C[k + 1] = Cell(text[k], k - 1 \in errs)
    BY CellsAre
<1>3. p = [k \in 1..m |-> Cell(text[start + k], FALSE)]
    BY DEF Plain
<1>4. \A k \in 1..m : /\ start + k \in 1..n /\ (start + k) - 1 \in start..end
                      /\ (start + 2) + k - 1 = (start + k) + 1
    BY <1>1
<1> HIDE DEF C
<1>5. \A k \in 1..m : Cell(text[start + k], FALSE) = C[(start + k) + 1]
    <2> SUFFICES ASSUME NEW k \in 1..m
                 PROVE  Cell(text[start + k], FALSE) = C[(start + k) + 1]
        OBVIOUS
    <2>1. C[(start + k) + 1] = Cell(text[start + k], (start + k) - 1 \in errs)
        BY <1>2, <1>4
    <2>2. ((start + k) - 1 \in errs) = FALSE
        BY <1>4
    <2> QED
        BY <2>1, <2>2
<1>6. s \in Seq(Glyphs) /\ Len(s) = m
      /\ \A k \in 1..m : s[k] = C[(start + 2) + k - 1]
    <2>1. start + 2 \in Nat \ {0} /\ end + 2 \in Nat /\ end + 2 <= Len(C)
          /\ start + 2 <= (end + 2) + 1 /\ (end + 2) - (start + 2) + 1 = m
        BY <1>1
    <2> QED
        BY <1>1, <2>1, SliceFacts
<1> HIDE DEF s
<1>7. \A k \in 1..m : s[k] = Cell(text[start + k], FALSE)
    BY <1>4, <1>5, <1>6
<1>8. \A k \in 1..m : s[k] \in Glyphs
    BY <1>6
<1>9. p \in Seq(Glyphs) /\ Len(p) = m /\ \A k \in 1..m : p[k] = s[k]
    <2> HIDE DEF m
    <2>1. p \in [1..m -> Glyphs]
        BY <1>3, <1>7, <1>8
    <2>2. \A k \in 1..m : p[k] = s[k]
        BY <1>3, <1>7
    <2> HIDE DEF p
    <2> QED
        BY <1>1, <2>1, <2>2, IsASeq
<1> HIDE DEF p, m
<1>10. p = s
    BY <1>6, <1>9, SeqEqual
<1> QED
    BY <1>9, <1>10 DEF p, s, C

\* A position at an error: its cell is inverse.
LEMMA InverseIsSlice ==
    ASSUME NEW text \in Seq(Letters), NEW errs, NEW p \in errs, p \in Nat, p < Len(text)
    PROVE  <<Cell(text[p + 1], TRUE)>> = SubSeq(CellsOf(text, errs), p + 2, p + 2)
<1> DEFINE C == CellsOf(text, errs)
<1>1. Len(text) \in Nat /\ p + 1 \in 1..Len(text) /\ (p + 1) - 1 = p /\ (p + 1) + 1 = p + 2
    OBVIOUS
<1>2. C[p + 2] = Cell(text[p + 1], p \in errs)
    <2>1. C[(p + 1) + 1] = Cell(text[p + 1], (p + 1) - 1 \in errs)
        BY <1>1, CellsAre
    <2> QED
        BY <1>1, <2>1
<1>3. C \in Seq(Glyphs) /\ p + 2 \in 1..Len(C)
    <2>1. C \in Seq(Glyphs) /\ Len(C) = Len(text) + 1
        BY CellsAre
    <2> HIDE DEF C
    <2> QED
        BY <1>1, <2>1
<1> HIDE DEF C
<1>4. (p \in errs) = TRUE
    OBVIOUS
<1>5. C[p + 2] = Cell(text[p + 1], TRUE)
    BY <1>2, <1>4
<1> QED
    BY <1>3, <1>5, SliceOne DEF C

-----------------------------------------------------------------------------
(* The errors still to be highlighted.                                     *)

Elems(P) == {P[k] : k \in 1..Len(P)}
InOrder(P) == \A j, k \in 1..Len(P) : j < k => P[j] < P[k]

\* cur is the first position that is not before start; the one before the first
\* parse is never reached.
Ahead(P, cur, start) ==
    /\ cur \in 1..(Len(P) + 1)
    /\ \A j \in 1..Len(P) : j < cur <=> P[j] < start
Reached(P, cur, start) ==
    \/ P = NoParseYet /\ cur = 1
    \/ P \in Seq(Nat) /\ InOrder(P) /\ Ahead(P, cur, start)

\* The turns of insertHighlight.
From(P, cur, start, k) == IF k = cur THEN start ELSE P[k - 1] + 1
Turn(P, cur, start, end, k) ==
    \A j \in cur..k : From(P, cur, start, j) <= P[j] /\ P[j] <= end
Turns(P, cur, start, end) == {k \in cur..Len(P) : Turn(P, cur, start, end, k)}

\* The error to go on with behind the end.
LEMMA NextError ==
    ASSUME NEW P \in Seq(Nat), InOrder(P), NEW start \in Nat, NEW end \in Int,
           start <= end + 1, NEW cur, Ahead(P, cur, start)
    PROVE  \E c : c \in Nat /\ c >= cur /\ Ahead(P, c, end + 1)
<1> DEFINE n == Len(P)
           S == {k \in 1..(n + 1) : \A j \in 1..n : j >= k => P[j] > end}
<1>1. n \in Nat /\ \A j \in 1..n : P[j] \in Nat
    OBVIOUS
<1> HIDE DEF n
<1>2. n + 1 \in S
    BY <1>1
<1>3. PICK c \in S : \A k \in S : c <= k
    <2>1. S \subseteq Nat
        OBVIOUS
    <2> HIDE DEF S
    <2> QED
        BY <1>2, <2>1, LeastNat
<1>4. c \in 1..(n + 1) /\ \A j \in 1..n : j >= c => P[j] > end
    OBVIOUS
<1>5. ASSUME NEW j \in 1..n, j < c PROVE P[j] <= end
    <2>1. j \notin S /\ j \in 1..(n + 1)
        BY <1>1, <1>3, <1>4, <1>5
    <2>2. PICK l \in 1..n : l >= j /\ ~(P[l] > end)
        BY <2>1
    <2>3. l = j \/ P[j] < P[l]
        BY <1>1, <2>2 DEF InOrder, n
    <2> QED
        BY <1>1, <2>2, <2>3
<1>6. cur \in 1..(n + 1) /\ \A j \in 1..n : j < cur <=> P[j] < start
    BY DEF Ahead, n
<1>7. c >= cur
    <2> SUFFICES ASSUME c < cur PROVE FALSE
        BY <1>4, <1>6
    <2>1. c \in 1..n
        BY <1>1, <1>4, <1>6
    <2>2. P[c] > end /\ P[c] < start /\ P[c] \in Nat
        BY <1>1, <1>4, <1>6, <2>1
    <2> QED
        BY <2>2
<1>8. \A j \in 1..n : j < c <=> P[j] < end + 1
    <2> SUFFICES ASSUME NEW j \in 1..n PROVE j < c <=> P[j] < end + 1
        OBVIOUS
    <2>1. j < c => P[j] <= end
        BY <1>5
    <2>2. ~(j < c) => P[j] > end
        BY <1>4
    <2> QED
        BY <1>1, <2>1, <2>2
<1>9. c \in Nat
    BY <1>1, <1>4
<1> QED
    BY <1>4, <1>7, <1>8, <1>9 DEF Ahead, n

\* The loop takes its turns for the errors of the piece, each once and in their order,
\* and stops at the first one behind it.
LEMMA TurnsAre ==
    ASSUME NEW P, NEW start \in Nat, NEW end \in Int, start <= end + 1,
           NEW cur, Reached(P, cur, start)
    PROVE  LET m == Cardinality(Turns(P, cur, start, end))
           IN  /\ cur \in Nat /\ m \in Nat
               /\ Reached(P, cur + m, end + 1)
               /\ \A k \in cur..(cur + m - 1) : P[k] \in start..end
               /\ \A j, k \in cur..(cur + m - 1) : j < k => P[j] < P[k]
               /\ \A p \in (start..end) \intersect Elems(P) :
                     \E k \in cur..(cur + m - 1) : p = P[k]
<1> DEFINE m == Cardinality(Turns(P, cur, start, end))
<1>1. CASE P = NoParseYet /\ cur = 1
    <2>1. Len(P) = 1 /\ P[1] = -1
        BY <1>1 DEF NoParseYet
    <2>2. \A k \in 1..1 : ~Turn(P, cur, start, end, k)
        BY <1>1, <2>1 DEF Turn, From
    <2>3. Turns(P, cur, start, end) = {}
        BY <1>1, <2>1, <2>2 DEF Turns
    <2>4. m = 0
        BY <2>3, FS_EmptySet
    <2>5. Elems(P) = {-1}
        BY <2>1 DEF Elems
    <2>6. cur + m = 1 /\ cur..(cur + m - 1) = {}
        BY <1>1, <2>4
    <2>7. (start..end) \intersect Elems(P) = {}
        BY <2>5
    <2>8. Reached(P, cur + m, end + 1)
        BY <1>1, <2>6 DEF Reached
    <2> HIDE DEF m
    <2> QED
        BY <1>1, <2>4, <2>6, <2>7, <2>8 DEF m
<1>2. CASE P \in Seq(Nat) /\ InOrder(P) /\ Ahead(P, cur, start)
    <2> DEFINE n == Len(P)
    <2>1. n \in Nat /\ \A j \in 1..n : P[j] \in Nat
        BY <1>2
    <2>2. PICK c : c \in Nat /\ c >= cur /\ Ahead(P, c, end + 1)
        BY <1>2, NextError
    <2>3. /\ cur \in 1..(n + 1) /\ \A j \in 1..n : j < cur <=> P[j] < start
          /\ c \in 1..(n + 1) /\ \A j \in 1..n : j < c <=> P[j] < end + 1
        BY <1>2, <2>2 DEF Ahead
    <2>4. ASSUME NEW k \in cur..(c - 1)
          PROVE  /\ k \in 1..n /\ P[k] \in Nat /\ start <= P[k] /\ P[k] <= end
                 /\ k # cur => k - 1 \in cur..(c - 1) /\ k - 1 \in 1..n
                               /\ P[k - 1] \in Nat /\ P[k - 1] < P[k]
        <3> HIDE DEF n
        <3>1. k \in 1..n /\ k < c /\ ~(k < cur)
            BY <2>1, <2>3
        <3>2. P[k] \in Nat /\ start <= P[k] /\ P[k] <= end
            BY <2>1, <2>3, <3>1
        <3>3. ASSUME k # cur PROVE k - 1 \in cur..(c - 1) /\ k - 1 \in 1..n /\ k - 1 < k
            BY <2>1, <2>3, <3>1, <3>3
        <3>4. k # cur => P[k - 1] < P[k]
            BY <1>2, <3>1, <3>3 DEF InOrder, n
        <3> QED
            BY <2>1, <3>1, <3>2, <3>3, <3>4
    <2>5. ASSUME NEW k \in cur..(c - 1) PROVE Turn(P, cur, start, end, k)
        <3> SUFFICES ASSUME NEW j \in cur..k
                     PROVE  From(P, cur, start, j) <= P[j] /\ P[j] <= end
            BY DEF Turn
        <3>1. j \in cur..(c - 1)
            BY <2>2, <2>3
        <3>2. P[j] \in Nat /\ start <= P[j] /\ P[j] <= end
            BY <2>4, <3>1
        <3>3. j # cur => P[j - 1] \in Nat /\ P[j - 1] < P[j]
            BY <2>4, <3>1
        <3> QED
            BY <3>2, <3>3 DEF From
    <2>6. ASSUME NEW k \in cur..n, Turn(P, cur, start, end, k) PROVE k \in cur..(c - 1)
        <3> HIDE DEF n
        <3>1. k \in cur..k /\ k \in 1..n
            BY <2>1, <2>3
        <3>2. P[k] <= end
            BY <2>6, <3>1 DEF Turn
        <3>3. k < c
            BY <2>1, <2>3, <3>1, <3>2
        <3> QED
            BY <2>2, <2>3, <3>3
    <2>7. Turns(P, cur, start, end) = cur..(c - 1)
        <3>1. \A k \in cur..(c - 1) : k \in cur..n
            BY <2>1, <2>3
        <3> QED
            BY <2>5, <2>6, <3>1 DEF Turns
    <2>8. m = c - cur
        <3>1. cur \in Int /\ c - 1 \in Int /\ c \in Int /\ c >= cur
            BY <2>2, <2>3
        <3>2. Cardinality(cur..(c - 1)) = IF cur > c - 1 THEN 0 ELSE (c - 1) - cur + 1
            BY <3>1, FS_Interval
        <3>3. (cur > c - 1 => c - cur = 0) /\ (c - 1) - cur + 1 = c - cur
            BY <3>1
        <3> QED
            BY <2>7, <3>2, <3>3
    <2> HIDE DEF m
    <2>9. cur \in Nat /\ m \in Nat /\ cur + m = c
        BY <2>2, <2>3, <2>8
    <2>10. ASSUME NEW p \in (start..end) \intersect Elems(P)
           PROVE  \E k \in cur..(c - 1) : p = P[k]
        <3>1. PICK k \in 1..n : p = P[k]
            BY DEF Elems
        <3> HIDE DEF n
        <3>2. k < c /\ ~(k < cur)
            BY <2>1, <2>3, <3>1
        <3>3. k \in cur..(c - 1)
            BY <2>2, <2>3, <3>1, <3>2
        <3> QED
            BY <3>1, <3>3
    <2>11. Reached(P, cur + m, end + 1)
        BY <1>2, <2>2, <2>9 DEF Reached
    <2>12. \A k \in cur..(c - 1) : P[k] \in start..end
        BY <2>4
    <2>14. \A j, k \in cur..(c - 1) : j < k => P[j] < P[k]
        <3>1. \A k \in cur..(c - 1) : k \in 1..Len(P)
            BY <2>4
        <3> QED
            BY <1>2, <3>1 DEF InOrder
    <2>13. cur..(cur + m - 1) = cur..(c - 1)
        BY <2>9
    <2> QED
        BY <2>9, <2>10, <2>11, <2>12, <2>13, <2>14 DEF m
<1> QED
    BY <1>1, <1>2 DEF Reached

\* The characters of one turn: up to the error, and the error.
Part(text, P, cur, start, k) ==
    Plain(text, From(P, cur, start, k), P[k] - 1) \o <<Cell(text[P[k] + 1], TRUE)>>

\* insertHighlight with its local definitions written out.
LEMMA HighlightIs ==
    ASSUME NEW text, NEW P, NEW s, NEW start, NEW end, NEW w
    PROVE  LET c == s.cur + Cardinality(Turns(P, s.cur, start, end))
               cells == FlattenSeq([n \in 1..(c - s.cur) |->
                                       Part(text, P, s.cur, start, s.cur + n - 1)])
           IN  insertHighlight(text, P, s, start, end, w)
                  = [term |-> Write(s.term, cells \o Plain(text, From(P, s.cur, start, c), end), w),
                     cur  |-> c]
<1> DEFINE flat(x) == FlattenSeq([n \in 1..(x - s.cur) |->
                                     Part(text, P, s.cur, start, s.cur + n - 1)])
           drawn(x, cells) ==
              [term |-> Write(s.term, cells \o Plain(text, From(P, s.cur, start, x), end), w),
               cur  |-> x]
           c == s.cur + Cardinality(Turns(P, s.cur, start, end))
<1>1. insertHighlight(text, P, s, start, end, w)
         = CHOOSE r \in {CHOOSE q \in {drawn(x, cells) : cells \in {flat(x)}} : TRUE :
                            x \in {c}} : TRUE
    BY DEF insertHighlight, With, Turns, Turn, From, Part
<1> HIDE DEF flat, drawn, c
<1>2. \A x : (CHOOSE q \in {drawn(x, cells) : cells \in {flat(x)}} : TRUE) = drawn(x, flat(x))
    OBVIOUS
<1>3. insertHighlight(text, P, s, start, end, w) = drawn(c, flat(c))
    BY <1>1, <1>2
<1> QED
    BY <1>3 DEF drawn, flat, c

\* insertHighlight writes the cells of its piece of the line.
LEMMA Highlight ==
    ASSUME NEW text \in Seq(Letters), NEW P, NEW s, NEW w,
           NEW start \in Nat, NEW end \in Int, start <= end + 1, end < Len(text),
           Reached(P, s.cur, start)
    PROVE  \E c : /\ Reached(P, c, end + 1)
                  /\ insertHighlight(text, P, s, start, end, w)
                        = [term |-> Write(s.term, SubSeq(CellsOf(text, Elems(P)),
                                                         start + 2, end + 2), w),
                           cur  |-> c]
<1> DEFINE cur == s.cur
           errs == Elems(P)
           C == CellsOf(text, errs)
           m == Cardinality(Turns(P, cur, start, end))
           b == [n \in 0..m |-> IF n = 0 THEN start + 1 ELSE P[cur + n - 1] + 2]
           part(n) == Part(text, P, cur, start, cur + n - 1)
           rest == Plain(text, From(P, cur, start, cur + m), end)
<1>1. /\ cur \in Nat /\ m \in Nat
      /\ Reached(P, cur + m, end + 1)
      /\ \A k \in cur..(cur + m - 1) : P[k] \in start..end
      /\ \A j, k \in cur..(cur + m - 1) : j < k => P[j] < P[k]
      /\ \A p \in (start..end) \intersect errs : \E k \in cur..(cur + m - 1) : p = P[k]
    BY TurnsAre
<1>0. Len(text) \in Nat
    OBVIOUS
<1>2. C \in Seq(Glyphs) /\ Len(C) = Len(text) + 1 /\ Len(text) \in Nat
    BY <1>0, CellsAre
<1> HIDE DEF cur, m, C
<1>3. ASSUME NEW n \in 1..m
      PROVE  /\ cur + n - 1 \in cur..(cur + m - 1) /\ b[n] = P[cur + n - 1] + 2
             /\ P[cur + n - 1] \in start..end /\ P[cur + n - 1] \in errs
    <2>1. cur + n - 1 \in cur..(cur + m - 1) /\ n \in 0..m /\ n # 0
        BY <1>1
    <2>2. P[cur + n - 1] \in start..end
        BY <1>1, <2>1
    <2>3. cur + n - 1 \in 1..Len(P)
        <3>1. \/ P = NoParseYet /\ cur + m = 1 /\ P[1] = -1
              \/ cur + m \in 1..(Len(P) + 1) /\ P \in Seq(Nat)
            BY <1>1 DEF Reached, Ahead, NoParseYet
        <3>2. cur # 0
            <4>1. Reached(P, cur, start)
                BY DEF cur
            <4> QED
                BY <4>1 DEF Reached, Ahead
        <3>3. ~(cur + m = 1)
            BY <1>1, <3>2
        <3>4. cur + m \in 1..(Len(P) + 1) /\ Len(P) \in Nat
            BY <3>1, <3>3
        <3> QED
            BY <1>1, <3>2, <3>4
    <2> QED
        BY <2>1, <2>2, <2>3 DEF Elems
<1>4. b \in [0..m -> Nat] /\ b[0] = start + 1
    <2>1. \A n \in 0..m : b[n] \in Nat
        <3> SUFFICES ASSUME NEW n \in 0..m PROVE b[n] \in Nat
            OBVIOUS
        <3>1. CASE n = 0
            BY <3>1
        <3>2. CASE n # 0
            <4>1. n \in 1..m
                BY <3>2
            <4>2. b[n] = P[cur + n - 1] + 2 /\ P[cur + n - 1] \in start..end
                BY <1>3, <4>1
            <4> HIDE DEF b
            <4> QED
                BY <4>2
        <3> QED
            BY <3>1, <3>2
    <2> QED
        BY <1>1, <2>1
<1>5. ASSUME NEW n \in 1..m
      PROVE  /\ n - 1 \in 0..m /\ From(P, cur, start, cur + n - 1) = b[n - 1] - 1
             /\ n # 1 => b[n - 1] = P[cur + n - 2] + 2
    <2>1. n - 1 \in 0..m /\ (n = 1 <=> n - 1 = 0) /\ (n = 1 <=> cur + n - 1 = cur)
          /\ cur + (n - 1) - 1 = cur + n - 2 /\ (cur + n - 1) - 1 = cur + n - 2
        BY <1>1
    <2>2. CASE n = 1
        BY <1>4, <2>1, <2>2 DEF From
    <2>3. CASE n # 1
        <3>1. b[n - 1] = P[cur + n - 2] + 2
            BY <2>1, <2>3
        <3>2. P[cur + n - 2] \in Int
            <4>1. n - 1 \in 1..m
                BY <2>1, <2>3
            <4>2. P[cur + (n - 1) - 1] \in start..end
                BY <1>3, <4>1
            <4> QED
                BY <2>1, <4>2
        <3>3. From(P, cur, start, cur + n - 1) = P[cur + n - 2] + 1
            BY <2>1, <2>3 DEF From
        <3> QED
            BY <2>1, <3>1, <3>2, <3>3
    <2> QED
        BY <2>2, <2>3
<1>6. ASSUME NEW n \in 1..m PROVE start + 1 <= b[n - 1] /\ b[n - 1] <= b[n] - 1
    <2>1. CASE n = 1
        <3>1. b[n - 1] = start + 1
            BY <1>4, <2>1
        <3>2. b[n] = P[cur + n - 1] + 2 /\ P[cur + n - 1] \in start..end
            BY <1>3
        <3> HIDE DEF b
        <3> QED
            BY <3>1, <3>2
    <2>2. CASE n # 1
        <3>1. n - 1 \in 1..m
            BY <1>1, <2>2
        <3>2. /\ cur + n - 2 \in cur..(cur + m - 1) /\ P[cur + n - 2] \in start..end
              /\ cur + n - 2 < cur + n - 1
            <4>1. cur + (n - 1) - 1 = cur + n - 2
                BY <1>1
            <4> QED
                BY <1>1, <1>3, <3>1, <4>1
        <3>3. P[cur + n - 2] < P[cur + n - 1]
            BY <1>1, <1>3, <3>2
        <3> DEFINE x == P[cur + n - 2]
                   y == P[cur + n - 1]
        <3>4. b[n] = y + 2 /\ b[n - 1] = x + 2 /\ y \in start..end
            BY <1>3, <1>5, <2>2
        <3>5. x \in start..end /\ x < y
            BY <3>2, <3>3
        <3> HIDE DEF b, x, y
        <3> QED
            BY <3>4, <3>5
    <2> QED
        BY <2>1, <2>2
<1>7. ASSUME NEW n \in 1..m PROVE part(n) = SubSeq(C, b[n - 1] + 1, b[n])
    <2> DEFINE k == cur + n - 1
               f == From(P, cur, start, k)
               e == P[k]
    <2>1. /\ e \in Nat /\ start <= e /\ e <= end /\ e \in errs /\ e < Len(text)
          /\ f \in Nat /\ start <= f /\ f <= e /\ f + 1 = b[n - 1] /\ b[n] = e + 2
        <3>1. b[n - 1] \in Nat /\ f = b[n - 1] - 1
            BY <1>4, <1>5
        <3>2. e \in start..end /\ e \in errs /\ b[n] = e + 2
            BY <1>3
        <3>3. start + 1 <= b[n - 1] /\ b[n - 1] <= b[n] - 1
            BY <1>6
        <3> HIDE DEF e, f, b
        <3> QED
            BY SMTT(30), <1>2, <3>1, <3>2, <3>3
    <2>2. k \in cur..(cur + m - 1) /\ k \in Nat
        BY <1>1, <1>3
    <2>3. ASSUME NEW p \in f..(e - 1) PROVE p \notin errs
        <3> SUFFICES ASSUME p \in errs PROVE FALSE
            OBVIOUS
        <3>0. p \in Int /\ f <= p /\ p < e
            BY <2>1
        <3>1. p \in start..end
            BY <2>1, <3>0
        <3>2. PICK j \in cur..(cur + m - 1) : p = P[j]
            BY <1>1, <3>1
        <3>3. j < k
            <4>1. ~(j = k)
                BY <3>0, <3>2
            <4>2. k < j => e < p
                BY <1>1, <2>2, <3>2
            <4>3. ~(k < j)
                BY <2>1, <3>0, <4>2
            <4> QED
                BY <1>1, <2>2, <4>1, <4>3
        <3>4. n # 1 /\ k - 1 = cur + n - 2 /\ k - 1 \in cur..(cur + m - 1) /\ j <= k - 1
            BY <1>1, <3>3
        <3>5. f + 1 = P[k - 1] + 2
            BY <1>5, <2>1, <3>4
        <3>6. j = k - 1 \/ P[j] < P[k - 1]
            BY <1>1, <2>2, <3>4
        <3>7. P[k - 1] \in Int
            BY <1>1, <3>4
        <3> HIDE DEF k, e, f
        <3> QED
            BY SMTT(30), <2>1, <3>0, <3>2, <3>5, <3>6, <3>7
    <2> HIDE DEF k, e, f
    <2>4. Plain(text, f, e - 1) = SubSeq(C, f + 2, (e - 1) + 2)
        <3>1. e - 1 \in Int /\ f <= (e - 1) + 1 /\ e - 1 < Len(text)
            BY <1>2, <2>1
        <3> QED
            BY ZenonT(60), <2>1, <2>3, <3>1, PlainIsSlice DEF C
    <2>5. <<Cell(text[e + 1], TRUE)>> = SubSeq(C, e + 2, e + 2)
        BY <2>1, InverseIsSlice DEF C
    <2>6. SubSeq(C, f + 2, e + 1) \o SubSeq(C, (e + 1) + 1, e + 2) = SubSeq(C, f + 2, e + 2)
        <3>1. f + 2 \in Nat \ {0} /\ e + 1 \in Nat /\ e + 2 \in Nat
              /\ f + 2 <= (e + 1) + 1 /\ e + 1 <= e + 2 /\ e + 2 <= Len(C)
            BY <1>2, <2>1
        <3> QED
            BY <1>2, <3>1, SliceJoin
    <2>7. (e - 1) + 2 = e + 1 /\ (e + 1) + 1 = e + 2 /\ f + 2 = b[n - 1] + 1 /\ e + 2 = b[n]
        BY <2>1
    <2>8. part(n) = Plain(text, f, e - 1) \o <<Cell(text[e + 1], TRUE)>>
        BY DEF Part, f, e, k
    <2>9. part(n) = SubSeq(C, f + 2, e + 2)
        BY <2>4, <2>5, <2>6, <2>7, <2>8
    <2> QED
        BY <2>7, <2>9
<1>8. /\ b[m] \in Nat /\ start + 1 <= b[m] /\ b[m] <= end + 2
      /\ From(P, cur, start, cur + m) = b[m] - 1
    <2>1. CASE m = 0
        BY <1>1, <1>4, <2>1 DEF From
    <2>2. CASE m # 0
        <3>1. m \in 1..m /\ cur + m # cur /\ (cur + m) - 1 = cur + m - 1
            BY <1>1, <2>2
        <3>2. b[m] = P[cur + m - 1] + 2 /\ P[cur + m - 1] \in start..end
            BY <1>3, <3>1
        <3>3. From(P, cur, start, cur + m) = P[cur + m - 1] + 1
            BY <3>1 DEF From
        <3> HIDE DEF b
        <3> QED
            BY <3>2, <3>3
    <2> QED
        BY <2>1, <2>2
<1>9. FlattenSeq([n \in 1..m |-> part(n)]) = SubSeq(C, start + 2, b[m])
    <2>1. \A n \in 1..m : b[n - 1] <= b[n]
        <3> SUFFICES ASSUME NEW n \in 1..m PROVE b[n - 1] <= b[n]
            OBVIOUS
        <3>1. b[n] \in Nat /\ b[n - 1] \in Nat
            BY SMTT(30), <1>4, <1>5
        <3>2. b[n - 1] <= b[n] - 1
            BY <1>6
        <3> HIDE DEF b
        <3> QED
            BY <3>1, <3>2
    <2>2. \A n \in 0..m : b[n] <= Len(C)
        <3> SUFFICES ASSUME NEW n \in 0..m PROVE b[n] <= Len(C)
            OBVIOUS
        <3>1. CASE n = 0
            BY <1>2, <1>4, <3>1
        <3>2. CASE n # 0
            <4>1. n \in 1..m
                BY <3>2
            <4>2. b[n] = P[cur + n - 1] + 2 /\ P[cur + n - 1] \in start..end
                BY <1>3, <4>1
            <4> HIDE DEF b
            <4> QED
                BY <1>2, <4>2
        <3> QED
            BY <3>1, <3>2
    <2>3. [n \in 1..m |-> part(n)] = [n \in 1..m |-> SubSeq(C, b[n - 1] + 1, b[n])]
        <3> HIDE DEF part, b
        <3> QED
            BY <1>7
    <2> HIDE DEF b, part
    <2>4. FlattenSeq([n \in 1..m |-> SubSeq(C, b[n - 1] + 1, b[n])])
             = SubSeq(C, b[0] + 1, b[m])
        BY <1>1, <1>2, <1>4, <2>1, <2>2, FlattenSlices
    <2>5. b[0] + 1 = start + 2
        BY <1>4
    <2> QED
        BY <2>3, <2>4, <2>5
<1>10. rest = SubSeq(C, b[m] + 1, end + 2)
    <2> DEFINE g == From(P, cur, start, cur + m)
    <2>1. g \in Nat /\ start <= g /\ g <= end + 1 /\ g + 1 = b[m]
        <3> HIDE DEF b, g
        <3> QED
            BY <1>8 DEF g
    <2>2. ASSUME NEW p \in g..end PROVE p \notin errs
        <3> SUFFICES ASSUME p \in errs PROVE FALSE
            OBVIOUS
        <3>0. p \in Int /\ g <= p /\ p <= end /\ p \in start..end
            BY <2>1
        <3>1. PICK j \in cur..(cur + m - 1) : p = P[j]
            BY <1>1, <3>0
        <3>2. m \in 1..m /\ cur + m - 1 \in cur..(cur + m - 1) /\ j <= cur + m - 1
            BY <1>1
        <3>3. b[m] = P[cur + m - 1] + 2 /\ P[cur + m - 1] \in start..end
            BY <1>3, <3>2
        <3>4. j = cur + m - 1 \/ P[j] < P[cur + m - 1]
            BY <1>1, <3>2
        <3> HIDE DEF b, g
        <3> QED
            BY <2>1, <3>0, <3>1, <3>3, <3>4
    <2> HIDE DEF g
    <2>3. Plain(text, g, end) = SubSeq(C, g + 2, end + 2)
        BY <2>1, <2>2, PlainIsSlice DEF C
    <2>4. g + 2 = b[m] + 1
        BY <2>1
    <2> QED
        BY <2>3, <2>4 DEF g
<1>11. SubSeq(C, start + 2, b[m]) \o SubSeq(C, b[m] + 1, end + 2)
          = SubSeq(C, start + 2, end + 2)
    <2>1. start + 2 \in Nat \ {0} /\ end + 2 \in Nat /\ start + 2 <= b[m] + 1
          /\ end + 2 <= Len(C)
        <3> HIDE DEF b
        <3> QED
            BY <1>2, <1>8
    <2> HIDE DEF b
    <2> QED
        BY <1>2, <1>8, <2>1, SliceJoin
<1>12. insertHighlight(text, P, s, start, end, w)
          = [term |-> Write(s.term, FlattenSeq([n \in 1..m |-> part(n)]) \o rest, w),
             cur  |-> cur + m]
    <2>1. (cur + m) - cur = m
        BY <1>1
    <2> DEFINE c == cur + m
    <2>2. insertHighlight(text, P, s, start, end, w)
             = [term |-> Write(s.term, FlattenSeq([n \in 1..(c - cur) |-> part(n)])
                                         \o Plain(text, From(P, cur, start, c), end), w),
                cur  |-> c]
        BY HighlightIs DEF m, cur
    <2> HIDE DEF part, c
    <2>3. c - cur = m /\ c = cur + m
        BY <2>1 DEF c
    <2> QED
        BY <2>2, <2>3
<1> HIDE DEF part, rest, b
<1>13. insertHighlight(text, P, s, start, end, w)
          = [term |-> Write(s.term, SubSeq(C, start + 2, end + 2), w), cur |-> cur + m]
    BY <1>9, <1>10, <1>11, <1>12
<1> QED
    BY <1>1, <1>13 DEF C

-----------------------------------------------------------------------------
(* Rows.                                                                   *)

\* Arithmetic of rows: the product of a row number and the width.
LEMMA RowProducts ==
    ASSUME NEW w \in Nat \ {0}, NEW n \in Nat \ {0}
    PROVE  /\ n * w \in Nat /\ (n - 1) * w \in Nat /\ n * w = (n - 1) * w + w
           /\ n # 1 => (n - 1) * w >= w
           /\ (n + 1 - 1) * w = n * w
<1> DEFINE k == n - 1
<1>1. k \in Nat /\ n = k + 1 /\ (n # 1 => k >= 1) /\ n + 1 - 1 = n
    OBVIOUS
<1> HIDE DEF k
<1>2. k * w \in Nat /\ (k + 1) * w = k * w + w
    BY <1>1
<1>3. k >= 1 => k * w >= w
    BY <1>1
<1> QED
    BY <1>1, <1>2, <1>3 DEF k

\* The full rows of N cells, and what is left.
LEMMA RowsOf ==
    ASSUME NEW w \in Nat \ {0}, NEW N \in Nat
    PROVE  /\ N \div w \in Nat /\ (N \div w) * w <= N /\ N < (N \div w) * w + w
           /\ N % w = N - (N \div w) * w /\ N % w \in Nat /\ N % w < w
<1>1. N \div w \in Int /\ N % w \in 0..(w - 1) /\ N = w * (N \div w) + (N % w)
    BY SMTT(30)
<1> DEFINE q == N \div w
           r == N % w
<1>2. q \in Int /\ r \in 0..(w - 1) /\ N = w * q + r
    BY <1>1
<1> HIDE DEF q, r
<1>3. q >= 0
    BY <1>2, SMTT(30)
<1>4. w * q = q * w /\ q * w \in Int
    BY <1>2
<1>5. q \in Nat /\ q * w <= N /\ N < q * w + w /\ r = N - q * w /\ r \in Nat /\ r < w
    BY <1>2, <1>3, <1>4
<1> QED
    BY <1>5 DEF q, r

LEMMA ProductMonotone ==
    ASSUME NEW w \in Nat, NEW n \in Nat, NEW m \in Nat, n <= m
    PROVE  n * w <= m * w
<1>1. PICK d \in Nat : m = n + d
    BY m - n \in Nat
<1>2. m * w = n * w + d * w /\ d * w \in Nat /\ n * w \in Nat
    BY <1>1
<1> QED
    BY <1>2

LEMMA QuotientZero ==
    ASSUME NEW w \in Nat \ {0}, NEW k \in Nat, k < w
    PROVE  k \div w = 0
<1>1. /\ k \div w \in Nat /\ (k \div w) * w <= k
    BY RowsOf
<1> DEFINE q == k \div w
<1>2. q \in Nat /\ q * w <= k
    BY <1>1
<1> HIDE DEF q
<1>3. q # 0 => q * w >= w
    <2> SUFFICES ASSUME q # 0 PROVE q * w >= w
        OBVIOUS
    <2>1. q \in Nat \ {0}
        BY <1>2
    <2>2. q * w = (q - 1) * w + w /\ (q - 1) * w \in Nat
        BY <2>1, RowProducts
    <2> QED
        BY <2>2
<1>4. q * w \in Int
    BY <1>2
<1>5. q = 0
    BY <1>2, <1>3, <1>4
<1> QED
    BY <1>5 DEF q

\* What fits on the row does not wrap.
LEMMA WriteFits ==
    ASSUME NEW t, NEW cells \in Seq(Glyphs), NEW w \in Nat \ {0},
           t.rows \in Seq(Seq(Glyphs)), t.rows # <<>>,
           Len(Last(t.rows) \o cells) <= w
    PROVE  Write(t, cells, w) = [rows |-> Front(t.rows) \o <<Last(t.rows) \o cells>>,
                                 row  |-> t.row + 0,
                                 col  |-> Len(Last(t.rows) \o cells) - 0 * w]
<1> DEFINE row == Last(t.rows) \o cells
           wraps == IF row = <<>> THEN 0 ELSE (Len(row) - 1) \div w
           cut(k) == [n \in 1..(k + 1) |->
                         SubSeq(row, (n - 1) * w + 1, Min({n * w, Len(row)}))]
<1>1. Last(t.rows) \in Seq(Glyphs)
    <2>1. Len(t.rows) \in 1..Len(t.rows)
        OBVIOUS
    <2> QED
        BY <2>1 DEF Last
<1>2. row \in Seq(Glyphs) /\ Len(row) <= w
    BY <1>1, ConcatProperties
<1>3. Write(t, cells, w)
         = [rows |-> Front(t.rows) \o cut(wraps), row |-> t.row + wraps,
            col |-> Len(row) - wraps * w]
    BY DEF Write
<1> HIDE DEF row
<1>4. Len(row) \in Nat /\ (row # <<>> => Len(row) - 1 \in Nat)
    BY <1>2
<1>5. wraps = 0
    <2>1. CASE row = <<>>
        BY <2>1
    <2>2. CASE row # <<>>
        <3>1. Len(row) - 1 \in Nat /\ Len(row) - 1 < w
            BY <1>2, <1>4, <2>2
        <3>2. (Len(row) - 1) \div w = 0
            BY <3>1, QuotientZero
        <3> QED
            BY <2>2, <3>2
    <2> QED
        BY <2>1, <2>2
<1>6. cut(0) = <<row>>
    <2>1. (1 - 1) * w + 1 = 1 /\ 1 * w = w /\ w \in Int /\ Len(row) \in Int
        BY <1>4
    <2>2. Min({1 * w, Len(row)}) = Len(row)
        BY <1>2, <2>1 DEF Min
    <2>3. SubSeq(row, 1, Len(row)) = row
        BY <1>2, SubSeqFull
    <2>4. \A n \in 1..(0 + 1) : n = 1
        OBVIOUS
    <2>5. \A n \in 1..(0 + 1) :
             SubSeq(row, (n - 1) * w + 1, Min({n * w, Len(row)})) = row
        BY <2>1, <2>2, <2>3, <2>4
    <2>6. cut(0) = [n \in 1..1 |-> row]
        BY <2>5
    <2> HIDE DEF cut
    <2> QED
        BY <2>6
<1> HIDE DEF wraps, cut
<1>7. Write(t, cells, w)
         = [rows |-> Front(t.rows) \o <<row>>, row |-> t.row + 0,
            col |-> Len(row) - 0 * w]
    BY <1>3, <1>5, <1>6
<1> QED
    BY <1>7 DEF row

\* The last row replaced, and another behind it.
LEMMA RowsGrow ==
    ASSUME NEW T, NEW rows \in Seq(T), rows # <<>>, NEW x \in T, NEW y \in T
    PROVE  /\ Front(rows) \o <<x>> \in Seq(T)
           /\ Len(Front(rows) \o <<x>>) = Len(rows)
           /\ \A r \in 1..(Len(rows) - 1) : (Front(rows) \o <<x>>)[r] = rows[r]
           /\ (Front(rows) \o <<x>>)[Len(rows)] = x
<1> DEFINE n == Len(rows)
           f == Front(rows)
           g == <<x>>
           a == f \o g
<1>1. n \in Nat /\ n - 1 \in Nat /\ n - 1 <= n /\ 1 \in Nat \ {0} /\ 1 <= (n - 1) + 1
    OBVIOUS
<1>2. /\ f \in Seq(T) /\ Len(f) = n - 1
      /\ \A k \in 1..(n - 1) : f[k] = rows[k]
    <2>1. /\ f \in Seq(T) /\ Len(f) = (n - 1) - 1 + 1
          /\ \A k \in 1..((n - 1) - 1 + 1) : f[k] = rows[1 + k - 1]
        <3>1. f = SubSeq(rows, 1, n - 1)
            BY DEF Front
        <3>2. n - 1 \in Nat /\ n - 1 <= Len(rows) /\ 1 \in Nat \ {0} /\ 1 <= (n - 1) + 1
            BY <1>1
        <3> HIDE DEF f, n
        <3> QED
            BY <3>1, <3>2, SliceFacts
    <2>2. (n - 1) - 1 + 1 = n - 1 /\ \A k \in 1..(n - 1) : 1 + k - 1 = k
        BY <1>1
    <2> HIDE DEF f, n
    <2> QED
        BY <2>1, <2>2
<1>3. g \in Seq(T) /\ Len(g) = 1 /\ g[1] = x
    OBVIOUS
<1> HIDE DEF n, f, g
<1>4. a \in Seq(T) /\ Len(a) = Len(f) + Len(g)
    BY <1>2, <1>3, ConcatProperties
<1>5. \A k \in 1..(Len(f) + Len(g)) : a[k] = IF k <= Len(f) THEN f[k] ELSE g[k - Len(f)]
    BY <1>2, <1>3, ConcatProperties
<1> HIDE DEF a
<1>6. Len(a) = n /\ \A k \in 1..n : a[k] = IF k <= n - 1 THEN f[k] ELSE g[k - (n - 1)]
    BY <1>1, <1>2, <1>3, <1>4, <1>5
<1>7. \A r \in 1..(n - 1) : r \in 1..n /\ r <= n - 1
    BY <1>1
<1>8. \A r \in 1..(n - 1) : a[r] = rows[r]
    BY <1>2, <1>6, <1>7
<1>9. n \in 1..n /\ ~(n <= n - 1) /\ n - (n - 1) = 1
    BY <1>1 DEF n
<1>10. a[n] = x
    BY <1>3, <1>6, <1>9
<1> QED
    BY <1>4, <1>6, <1>8, <1>10 DEF a, f, g, n

-----------------------------------------------------------------------------
(* FullRows: what is drawn after so many rows.                             *)

Filled(rows, C, n, w, last) ==
    /\ rows \in Seq(Seq(Glyphs)) /\ Len(rows) = n + 1
    /\ \A r \in 1..n : rows[r] = SubSeq(C, (r - 1) * w + 1, r * w)
    /\ rows[n + 1] = last

\* Rows drawn after the first n, and the errors left.
RowsDrawn(s, P, C, n, w) ==
    /\ Filled(s.term.rows, C, n, w, IF n = 0 THEN SubSeq(C, 1, 1) ELSE <<>>)
    /\ s.term.row = n
    /\ Reached(P, s.cur, RowStart(n + 1, w))

\* Where insertHighlight goes on after k full rows.
LEMMA RowStarts ==
    ASSUME NEW w \in Nat \ {0}, NEW k \in Nat
    PROVE  /\ RowStart(k + 1, w) \in Nat
           /\ k = 0 => RowStart(k + 1, w) = 0
           /\ k # 0 => RowStart(k + 1, w) = k * w - 1
           /\ k * w \in Nat /\ (k # 0 => k * w >= w)
<1>1. k + 1 \in Nat \ {0} /\ k + 1 - 1 = k /\ (k + 1) - 1 = k /\ (k + 1 = 1 <=> k = 0)
    OBVIOUS
<1>2. k * w \in Nat /\ (k # 0 => k * w >= w)
    BY <1>1, RowProducts
<1>3. RowStart(k + 1, w) = IF k = 0 THEN 0 ELSE k * w - 1
    BY <1>1, EditorAssumption DEF RowStart
<1> DEFINE x == k * w
<1>4. x \in Nat /\ (k # 0 => x >= w)
    BY <1>2
<1> HIDE DEF x
<1>5. k # 0 => x - 1 \in Nat
    BY <1>4
<1> QED
    BY <1>2, <1>3, <1>5 DEF x

\* The same with the cells of the line up to e drawn, in a row that is not ended.
LaidRow(d, P, C, k, e, w) ==
    /\ d = [term |-> d.term, cur |-> d.cur]
    /\ d.term = [rows |-> d.term.rows, row |-> d.term.row, col |-> d.term.col]
    /\ Reached(P, d.cur, e - 1)
    /\ Filled(d.term.rows, C, k, w, SubSeq(C, k * w + 1, e))
    /\ d.term.row = k
    /\ d.term.col = e - k * w

\* A piece of the line drawn at the end of the last row.
LEMMA LayRow ==
    ASSUME NEW text \in Seq(Letters), NEW P, NEW s, NEW w \in Nat \ {0},
           NEW k \in Nat, NEW e \in Nat \ {0},
           RowsDrawn(s, P, CellsOf(text, Elems(P)), k, w),
           k * w <= e, e <= k * w + w, e <= Len(text) + 1
    PROVE  LaidRow(insertHighlight(text, P, s, RowStart(k + 1, w), e - 2, w),
                   P, CellsOf(text, Elems(P)), k, e, w)
<1> DEFINE C == CellsOf(text, Elems(P))
           start == RowStart(k + 1, w)
           d == insertHighlight(text, P, s, start, e - 2, w)
           x == k * w
           rows == s.term.rows
           cells == SubSeq(C, start + 2, (e - 2) + 2)
           last == Last(rows) \o cells
<1>1. C \in Seq(Glyphs) /\ Len(C) = Len(text) + 1
    BY CellsAre
<1>2. /\ start \in Nat /\ (k = 0 => start = 0) /\ (k # 0 => start = x - 1)
      /\ x \in Nat /\ (k # 0 => x >= w) /\ (k = 0 => x = 0)
    BY RowStarts
<1>3. Len(text) \in Nat
    OBVIOUS
<1>4. /\ rows \in Seq(Seq(Glyphs)) /\ Len(rows) = k + 1
      /\ \A r \in 1..k : rows[r] = SubSeq(C, (r - 1) * w + 1, r * w)
      /\ rows[k + 1] = IF k = 0 THEN SubSeq(C, 1, 1) ELSE <<>>
      /\ s.term.row = k
      /\ Reached(P, s.cur, start)
    BY DEF RowsDrawn, Filled
<1>5. x <= e /\ e <= x + w
    OBVIOUS
<1> HIDE DEF C, start, x, rows
<1>6. \E c : /\ Reached(P, c, (e - 2) + 1)
             /\ d = [term |-> Write(s.term, cells, w), cur |-> c]
    <2>1. e - 2 \in Int /\ start <= (e - 2) + 1 /\ e - 2 < Len(text)
        BY <1>2, <1>3, <1>5
    <2> QED
        <3> DEFINE end == e - 2
        <3>1. end \in Int /\ start <= end + 1 /\ end < Len(text)
            BY <2>1
        <3> HIDE DEF end
        <3>2. \E c : /\ Reached(P, c, end + 1)
                     /\ insertHighlight(text, P, s, start, end, w)
                           = [term |-> Write(s.term, SubSeq(CellsOf(text, Elems(P)),
                                                            start + 2, end + 2), w),
                              cur |-> c]
            <4>1. start \in Nat /\ Reached(P, s.cur, start)
                BY <1>2, <1>4
            <4> QED
                BY <3>1, <4>1, Highlight
        <3>3. PICK c : /\ Reached(P, c, end + 1)
                       /\ insertHighlight(text, P, s, start, end, w)
                             = [term |-> Write(s.term, SubSeq(CellsOf(text, Elems(P)),
                                                              start + 2, end + 2), w),
                                cur |-> c]
            BY <3>2
        <3>4. cells = SubSeq(CellsOf(text, Elems(P)), start + 2, end + 2)
            BY DEF end, C
        <3>5. d = insertHighlight(text, P, s, start, end, w)
            BY DEF end
        <3> HIDE DEF d, cells
        <3>6. d = [term |-> Write(s.term, cells, w), cur |-> c]
            BY <3>3, <3>4, <3>5
        <3>7. Reached(P, c, (e - 2) + 1)
            BY <3>3 DEF end
        <3> QED
            BY <3>6, <3>7
<1>7. rows # <<>> /\ Last(rows) = rows[k + 1]
    BY <1>4 DEF Last
<1>8. cells = SubSeq(C, start + 2, e) /\ cells \in Seq(Glyphs)
    <2>1. (e - 2) + 2 = e /\ start + 2 \in Nat \ {0} /\ e \in Nat /\ e <= Len(C)
          /\ start + 2 <= e + 1
        BY <1>1, <1>2, <1>3, <1>5
    <2>2. SubSeq(C, start + 2, e) \in Seq(Glyphs)
        BY <1>1, <2>1, SliceFacts
    <2> QED
        BY <2>1, <2>2
<1>9. last = SubSeq(C, x + 1, e)
    <2>1. CASE k = 0
        <3>1. 1 \in Nat \ {0} /\ 1 \in Nat /\ e \in Nat /\ 1 <= 1 + 1 /\ 1 <= e
              /\ e <= Len(C) /\ 1 + 1 = start + 2 /\ x + 1 = 1
            BY <1>1, <1>2, <1>3, <2>1
        <3>2. SubSeq(C, 1, 1) \o SubSeq(C, 1 + 1, e) = SubSeq(C, 1, e)
            BY <1>1, <3>1, SliceJoin
        <3> QED
            BY <1>4, <1>7, <1>8, <2>1, <3>1, <3>2
    <2>2. CASE k # 0
        <3>1. Last(rows) = <<>> /\ start + 2 = x + 1
            BY <1>2, <1>4, <1>7, <2>2
        <3>2. last = cells
            BY <1>8, <3>1, ConcatEmptySeq
        <3> QED
            BY <1>8, <3>1, <3>2
    <2> QED
        BY <2>1, <2>2
<1> HIDE DEF cells
<1>10. last \in Seq(Glyphs) /\ Len(last) = e - x
    <2>1. x + 1 \in Nat \ {0} /\ e <= Len(C) /\ x + 1 <= e + 1 /\ e - (x + 1) + 1 = e - x
        BY <1>1, <1>2, <1>3, <1>5
    <2>2. SubSeq(C, x + 1, e) \in Seq(Glyphs)
          /\ Len(SubSeq(C, x + 1, e)) = e - (x + 1) + 1
        BY <1>1, <2>1, SliceFacts
    <2> QED
        BY <1>9, <2>1, <2>2
<1>11. Len(last) <= w
    BY <1>2, <1>5, <1>10
<1>12. Write(s.term, cells, w) = [rows |-> Front(rows) \o <<last>>, row |-> k + 0,
                                  col |-> (e - x) - 0 * w]
    <2>1. Write(s.term, cells, w) = [rows |-> Front(rows) \o <<last>>,
                                     row |-> s.term.row + 0, col |-> Len(last) - 0 * w]
        BY <1>4, <1>7, <1>8, <1>11, WriteFits DEF rows
    <2> QED
        BY <1>4, <1>10, <2>1
<1> HIDE DEF last
<1>13. k + 0 = k /\ (e - x) - 0 * w = e - x
    BY <1>2
<1> DEFINE new == Front(rows) \o <<last>>
<1>14. Filled(new, C, k, w, last)
    <2>1. /\ new \in Seq(Seq(Glyphs)) /\ Len(new) = Len(rows)
          /\ \A r \in 1..(Len(rows) - 1) : new[r] = rows[r]
          /\ new[Len(rows)] = last
        <3> DEFINE T == Seq(Glyphs)
        <3>1. rows \in Seq(T) /\ rows # <<>> /\ last \in T
            BY <1>4, <1>7, <1>10
        <3> HIDE DEF T
        <3>2. /\ Front(rows) \o <<last>> \in Seq(T)
              /\ Len(Front(rows) \o <<last>>) = Len(rows)
              /\ \A r \in 1..(Len(rows) - 1) : (Front(rows) \o <<last>>)[r] = rows[r]
              /\ (Front(rows) \o <<last>>)[Len(rows)] = last
            BY <3>1, RowsGrow
        <3> QED
            BY <3>2 DEF T
    <2> HIDE DEF new
    <2>2. 1..(Len(rows) - 1) = 1..k /\ Len(rows) = k + 1
        BY <1>4
    <2> QED
        BY <1>4, <2>1, <2>2 DEF Filled
<1> HIDE DEF new
<1>15. PICK c : /\ Reached(P, c, (e - 2) + 1)
                /\ d = [term |-> [rows |-> new, row |-> k, col |-> e - x], cur |-> c]
    BY <1>6, <1>12, <1>13 DEF new
<1>16. (e - 2) + 1 = e - 1
    OBVIOUS
<1> HIDE DEF d
<1>17. /\ d = [term |-> d.term, cur |-> d.cur]
       /\ d.term = [rows |-> d.term.rows, row |-> d.term.row, col |-> d.term.col]
       /\ Reached(P, d.cur, e - 1)
       /\ Filled(d.term.rows, C, k, w, SubSeq(C, x + 1, e))
       /\ d.term.row = k /\ d.term.col = e - x
    BY <1>9, <1>14, <1>15, <1>16
<1>18. LaidRow(d, P, C, k, e, w)
    BY <1>17 DEF LaidRow, x
<1> QED
    BY <1>18 DEF d, C, start

\* One turn of the loop over the full rows.
RowDrawn(text, P, s, n, w) ==
    [insertHighlight(text, P, s, RowStart(n, w), n * w - PromptLen - 1, w)
        EXCEPT !.term = CrLf(@)]
FirstDrawn(w) == [term |-> Write(Cleared, Prompt, w), cur |-> 1]

\* A turn of the loop over the full rows draws the next one.
LEMMA RowNext ==
    ASSUME NEW text \in Seq(Letters), NEW P, NEW s, NEW w \in Nat \ {0},
           NEW n \in Nat \ {0}, n * w <= Len(text) + 1,
           RowsDrawn(s, P, CellsOf(text, Elems(P)), n - 1, w)
    PROVE  RowsDrawn(RowDrawn(text, P, s, n, w), P, CellsOf(text, Elems(P)), n, w)
<1> DEFINE C == CellsOf(text, Elems(P))
           k == n - 1
           e == n * w
           d == insertHighlight(text, P, s, RowStart(k + 1, w), e - 2, w)
           q == RowDrawn(text, P, s, n, w)
           rows == d.term.rows
           new == Append(rows, <<>>)
<1>1. k \in Nat /\ k + 1 = n /\ n \in Nat /\ n # 0
    OBVIOUS
<1>2. e \in Nat \ {0} /\ k * w <= e /\ e <= k * w + w
    <2>1. n * w \in Nat /\ (n - 1) * w \in Nat /\ n * w = (n - 1) * w + w
        BY RowProducts
    <2> DEFINE x == (n - 1) * w
               y == n * w
    <2>2. x \in Nat /\ y = x + w
        BY <2>1
    <2> HIDE DEF x, y
    <2>3. y \in Nat \ {0} /\ x <= y /\ y <= x + w
        BY <2>2
    <2> QED
        BY <2>3 DEF x, y
<1>3. e - 2 = n * w - PromptLen - 1
    <2>1. PromptLen = 1 /\ n * w \in Int
        BY <1>2, EditorAssumption
    <2> QED
        BY <2>1
<1>4. q = [d EXCEPT !.term = CrLf(@)]
    BY <1>1, <1>3 DEF RowDrawn
<1> HIDE DEF k
<1>5. e <= Len(text) + 1 /\ RowsDrawn(s, P, C, k, w)
    BY DEF k
<1> HIDE DEF e
<1>6. /\ d = [term |-> d.term, cur |-> d.cur]
      /\ Reached(P, d.cur, e - 1)
      /\ Filled(d.term.rows, C, k, w, SubSeq(C, k * w + 1, e))
      /\ d.term.row = k
    <2>1. LaidRow(insertHighlight(text, P, s, RowStart(k + 1, w), e - 2, w),
                  P, CellsOf(text, Elems(P)), k, e, w)
        BY <1>1, <1>2, <1>5, LayRow
    <2> HIDE DEF d, C
    <2>2. LaidRow(d, P, C, k, e, w)
        BY <2>1 DEF d, C
    <2> QED
        BY <2>2 DEF LaidRow
<1> HIDE DEF C, d, q
<1>7. q = [term |-> CrLf(d.term), cur |-> d.cur]
    BY <1>4, <1>6
<1>8. q.term.rows = new /\ q.term.row = n /\ q.cur = d.cur
    BY <1>1, <1>6, <1>7 DEF CrLf
<1>9. /\ rows \in Seq(Seq(Glyphs)) /\ Len(rows) = n
      /\ \A r \in 1..k : rows[r] = SubSeq(C, (r - 1) * w + 1, r * w)
      /\ rows[n] = SubSeq(C, k * w + 1, n * w)
    BY <1>1, <1>6 DEF Filled, e
<1> HIDE DEF rows
<1>10. Filled(new, C, n, w, <<>>)
    <2> DEFINE T == Seq(Glyphs)
    <2>1. rows \in Seq(T) /\ <<>> \in T
        BY <1>9
    <2> HIDE DEF T
    <2>2. /\ new \in Seq(T) /\ Len(new) = Len(rows) + 1
          /\ \A r \in 1..Len(rows) : new[r] = rows[r]
          /\ new[Len(rows) + 1] = <<>>
        BY <2>1, AppendFacts
    <2> HIDE DEF new
    <2>3. ASSUME NEW r \in 1..n PROVE new[r] = SubSeq(C, (r - 1) * w + 1, r * w)
        <3>1. new[r] = rows[r]
            BY <1>9, <2>2
        <3>2. CASE r = n
            BY <1>9, <3>1, <3>2 DEF k
        <3>3. CASE r # n
            <4>1. r \in 1..k
                BY <1>1, <3>3
            <4> QED
                BY <1>9, <3>1, <4>1
        <3> QED
            BY <3>2, <3>3
    <2>4. Len(new) = n + 1 /\ new[n + 1] = <<>> /\ new \in Seq(Seq(Glyphs))
        BY <1>9, <2>2 DEF T
    <2> QED
        BY <2>3, <2>4 DEF Filled
<1>11. RowStart(n + 1, w) = e - 1
    BY <1>1, RowStarts DEF e
<1>12. RowsDrawn(q, P, C, n, w)
    BY <1>1, <1>6, <1>8, <1>10, <1>11 DEF RowsDrawn
<1> QED
    BY <1>12 DEF q, C

\* Before the first turn there is the prompt.
LEMMA RowFirst ==
    ASSUME NEW text \in Seq(Letters), NEW P, NEW w \in Nat \ {0},
           P = NoParseYet \/ (P \in Seq(Nat) /\ InOrder(P))
    PROVE  RowsDrawn(FirstDrawn(w), P, CellsOf(text, Elems(P)), 0, w)
<1> DEFINE C == CellsOf(text, Elems(P))
           T == Seq(Glyphs)
           rows == << <<>> >>
           p == Prompt
           new == Front(rows) \o <<p>>
<1>1. C \in Seq(Glyphs) /\ Len(C) = Len(text) + 1 /\ C[1] = Cell("<", FALSE)
    BY CellsAre
<1>2. Len(text) \in Nat
    OBVIOUS
<1> HIDE DEF C
<1>3. SubSeq(C, 1, 1) = <<C[1]>>
    <2>1. 1 \in 1..Len(C)
        BY <1>1, <1>2
    <2> QED
        BY <1>1, <2>1, SliceOne
<1> DEFINE x == Cell("<", FALSE)
<1>4. p = <<x>> /\ x = C[1] /\ x \in Glyphs
    BY <1>1 DEF Prompt, Cell, Glyphs
<1> HIDE DEF p, x, T
<1>5. p = SubSeq(C, 1, 1) /\ p \in Seq(Glyphs) /\ Len(p) = 1
    BY <1>3, <1>4
<1> USE DEF T
<1>6. rows \in Seq(T) /\ rows # <<>> /\ Last(rows) = <<>> /\ Len(rows) = 1
    BY DEF Last
<1>7. Cleared.rows = rows /\ Cleared.row = 0
    BY DEF Cleared
<1> HIDE DEF p, rows
<1>8. Last(rows) \o p = p
    BY <1>5, <1>6, ConcatEmptySeq
<1>9. Write(Cleared, p, w) = [rows |-> new, row |-> 0 + 0, col |-> 1 - 0 * w]
    <2>1. Len(Last(rows) \o p) <= w
        BY <1>5, <1>8
    <2>2. Write(Cleared, p, w)
            = [rows |-> Front(Cleared.rows) \o <<Last(Cleared.rows) \o p>>,
               row |-> Cleared.row + 0, col |-> Len(Last(Cleared.rows) \o p) - 0 * w]
        BY ZenonT(60), <1>5, <1>6, <1>7, <2>1, WriteFits
    <2> QED
        BY <1>5, <1>7, <1>8, <2>2
<1>10. new \in Seq(T) /\ Len(new) = 1 /\ new[1] = p
    <2>0. p \in T
        BY <1>5
    <2> HIDE DEF T
    <2>1. /\ new \in Seq(T) /\ Len(new) = Len(rows) /\ new[Len(rows)] = p
        BY <1>6, <2>0, RowsGrow
    <2> QED
        BY <1>6, <2>1
<1> HIDE DEF new
<1>11. Filled(new, C, 0, w, SubSeq(C, 1, 1))
    BY <1>5, <1>10 DEF Filled
<1>12. /\ FirstDrawn(w).term.rows = new /\ FirstDrawn(w).term.row = 0
       /\ FirstDrawn(w).cur = 1
    BY <1>9 DEF FirstDrawn, p
<1>13. Reached(P, 1, RowStart(0 + 1, w))
    <2>1. RowStart(0 + 1, w) = 0
        BY RowStarts
    <2>2. ASSUME P \in Seq(Nat) PROVE Ahead(P, 1, 0)
        BY <2>2 DEF Ahead
    <2> QED
        BY <2>1, <2>2 DEF Reached
<1> QED
    BY <1>11, <1>12, <1>13 DEF RowsDrawn, C

\* Rows drawn one after the other.
IsFull(f, text, P, full, w) ==
    f = [n \in 0..full |-> IF n = 0 THEN FirstDrawn(w)
                           ELSE RowDrawn(text, P, f[n - 1], n, w)]

\* The recursion of FullRows has a solution, by the least length without one.
LEMMA FullExists ==
    ASSUME NEW text, NEW P, NEW w, NEW full \in Nat
    PROVE  \E f : IsFull(f, text, P, full, w)
<1> DEFINE None == {m \in Nat : ~(\E f : IsFull(f, text, P, m, w))}
<1> SUFFICES ASSUME None # {} PROVE FALSE
    OBVIOUS
<1>1. PICK m \in None : \A k \in None : m <= k
    <2>1. None \subseteq Nat
        OBVIOUS
    <2> HIDE DEF None
    <2> QED
        BY <2>1, LeastNat
<1>2. m \in Nat /\ ~(\E f : IsFull(f, text, P, m, w))
    OBVIOUS
<1>3. CASE m = 0
    <2> DEFINE f == [n \in 0..0 |-> FirstDrawn(w)]
    <2>1. f = [n \in 0..0 |-> IF n = 0 THEN FirstDrawn(w)
                              ELSE RowDrawn(text, P, f[n - 1], n, w)]
        OBVIOUS
    <2> HIDE DEF f
    <2> QED
        BY <1>2, <1>3, <2>1 DEF IsFull
<1>4. CASE m # 0
    <2>1. m - 1 \in Nat /\ ~(m <= m - 1)
        BY <1>2, <1>4
    <2>2. PICK g : IsFull(g, text, P, m - 1, w)
        BY <1>1, <2>1
    <2> DEFINE f == [n \in 0..m |-> IF n = m THEN RowDrawn(text, P, g[m - 1], m, w)
                                    ELSE g[n]]
    <2>3. ASSUME NEW n \in 0..m
          PROVE  f[n] = IF n = 0 THEN FirstDrawn(w) ELSE RowDrawn(text, P, f[n - 1], n, w)
        <3>1. CASE n = m
            <4>1. m - 1 \in 0..m /\ m - 1 # m /\ m \in 0..m
                BY <1>2, <2>1
            <4>2. f[m - 1] = g[m - 1]
                BY <4>1
            <4> QED
                BY <1>4, <3>1, <4>1, <4>2
        <3>2. CASE n # m
            <4>1. n \in 0..(m - 1) /\ (n # 0 => n - 1 \in 0..m /\ n - 1 # m)
                BY <1>2, <3>2
            <4>2. g[n] = IF n = 0 THEN FirstDrawn(w) ELSE RowDrawn(text, P, g[n - 1], n, w)
                BY <2>2, <4>1 DEF IsFull
            <4>3. f[n] = g[n] /\ (n # 0 => f[n - 1] = g[n - 1])
                BY <3>2, <4>1
            <4> HIDE DEF f
            <4> QED
                BY <4>2, <4>3
        <3> QED
            BY <3>1, <3>2
    <2>4. f = [n \in 0..m |-> f[n]]
        OBVIOUS
    <2> HIDE DEF f
    <2>5. f = [n \in 0..m |-> IF n = 0 THEN FirstDrawn(w)
                              ELSE RowDrawn(text, P, f[n - 1], n, w)]
        BY <2>3, <2>4
    <2> QED
        BY <1>2, <2>5 DEF IsFull
<1> QED
    BY <1>3, <1>4

\* FullRows is the last value of that recursion.
LEMMA FullRowsAre ==
    ASSUME NEW text, NEW P, NEW w, NEW full \in Nat
    PROVE  \E f : IsFull(f, text, P, full, w) /\ FullRows(text, P, full, w) = f[full]
<1> DEFINE f == CHOOSE g : IsFull(g, text, P, full, w)
<1>1. IsFull(f, text, P, full, w)
    BY FullExists
<1>2. ASSUME NEW s, NEW n
      PROVE  With(s, LAMBDA x : RowDrawn(text, P, x, n, w)) = RowDrawn(text, P, s, n, w)
    BY DEF With
<1>3. FullRows(text, P, full, w)
         = (CHOOSE g : g = [n \in 0..full |->
               IF n = 0 THEN FirstDrawn(w)
               ELSE With(g[n - 1], LAMBDA x : RowDrawn(text, P, x, n, w))])[full]
    BY DEF FullRows, RowDrawn, FirstDrawn, With
<1>4. \A g : g = [n \in 0..full |->
               IF n = 0 THEN FirstDrawn(w)
               ELSE With(g[n - 1], LAMBDA x : RowDrawn(text, P, x, n, w))]
             <=> IsFull(g, text, P, full, w)
    BY <1>2 DEF IsFull
<1>5. FullRows(text, P, full, w) = f[full]
    BY <1>3, <1>4
<1> HIDE DEF f
<1> QED
    BY <1>1, <1>5

\* After n turns n full rows are drawn.
LEMMA RowsFull ==
    ASSUME NEW text \in Seq(Letters), NEW P, NEW w \in Nat \ {0}, NEW full \in Nat,
           full * w <= Len(text) + 1,
           P = NoParseYet \/ (P \in Seq(Nat) /\ InOrder(P))
    PROVE  RowsDrawn(FullRows(text, P, full, w), P, CellsOf(text, Elems(P)), full, w)
<1> DEFINE C == CellsOf(text, Elems(P))
<1>1. PICK f : IsFull(f, text, P, full, w) /\ FullRows(text, P, full, w) = f[full]
    BY FullRowsAre
<1>2. \A n \in 0..full : f[n] = IF n = 0 THEN FirstDrawn(w)
                                ELSE RowDrawn(text, P, f[n - 1], n, w)
    BY <1>1 DEF IsFull
<1> DEFINE Not == {n \in 0..full : ~RowsDrawn(f[n], P, C, n, w)}
<1>3. ASSUME Not # {} PROVE FALSE
    <2>1. PICK n \in Not : \A k \in Not : n <= k
        <3>1. Not \subseteq Nat
            OBVIOUS
        <3> HIDE DEF Not
        <3> QED
            BY <1>3, <3>1, LeastNat
    <2>2. n \in 0..full /\ ~RowsDrawn(f[n], P, C, n, w)
        OBVIOUS
    <2>3. CASE n = 0
        <3>1. f[0] = FirstDrawn(w)
            BY <1>2
        <3> QED
            BY <2>2, <2>3, <3>1, RowFirst
    <2>4. CASE n # 0
        <3>1. n \in Nat \ {0} /\ n - 1 \in 0..full /\ ~(n <= n - 1) /\ n <= full
            BY <2>2, <2>4
        <3>2. RowsDrawn(f[n - 1], P, C, n - 1, w)
            BY <2>1, <3>1
        <3>3. n * w <= Len(text) + 1
            <4> DEFINE x == n * w
                       y == full * w
            <4>1. x <= y
                BY <3>1, ProductMonotone
            <4>2. x \in Int /\ y \in Int /\ Len(text) + 1 \in Int /\ y <= Len(text) + 1
                BY <3>1
            <4> HIDE DEF x, y
            <4>3. x <= Len(text) + 1
                BY <4>1, <4>2
            <4> QED
                BY <4>3 DEF x
        <3>4. RowsDrawn(RowDrawn(text, P, f[n - 1], n, w), P, C, n, w)
            BY <3>1, <3>2, <3>3, RowNext
        <3>5. f[n] = RowDrawn(text, P, f[n - 1], n, w)
            BY <1>2, <2>2, <2>4
        <3> QED
            BY <2>2, <3>4, <3>5
    <2> QED
        BY <2>3, <2>4
<1>4. full \in 0..full
    OBVIOUS
<1> QED
    BY <1>1, <1>3, <1>4

-----------------------------------------------------------------------------
(* The positions of the errors.                                            *)

\* The elements after InsertAt.
LEMMA InsertedAt ==
    ASSUME NEW T, NEW s \in Seq(T), NEW p \in 1..Len(s), NEW x \in T
    PROVE  /\ InsertAt(s, p, x) \in Seq(T)
           /\ Len(InsertAt(s, p, x)) = Len(s) + 1
           /\ \A k \in 1..(Len(s) + 1) :
                 InsertAt(s, p, x)[k] = IF k < p THEN s[k] ELSE IF k = p THEN x ELSE s[k - 1]
<1> DEFINE n == Len(s)
           a == SubSeq(s, 1, p - 1)
           b == <<x>>
           c == SubSeq(s, p, n)
           ab == a \o b
           new == ab \o c
<1>1. n \in Nat /\ p \in Nat /\ 1 <= p /\ p <= n
    OBVIOUS
<1>2. /\ a \in Seq(T) /\ Len(a) = p - 1
      /\ \A k \in 1..(p - 1) : a[k] = s[k]
    <2>1. 1 \in Nat \ {0} /\ p - 1 \in Nat /\ p - 1 <= Len(s) /\ 1 <= (p - 1) + 1
          /\ (p - 1) - 1 + 1 = p - 1 /\ \A k \in 1..(p - 1) : 1 + k - 1 = k
        BY <1>1
    <2>2. /\ a \in Seq(T) /\ Len(a) = (p - 1) - 1 + 1
          /\ \A k \in 1..((p - 1) - 1 + 1) : a[k] = s[1 + k - 1]
        BY <2>1, SliceFacts
    <2> HIDE DEF a
    <2> QED
        BY <2>1, <2>2
<1>3. b \in Seq(T) /\ Len(b) = 1 /\ b[1] = x
    OBVIOUS
<1>4. /\ c \in Seq(T) /\ Len(c) = n - p + 1
      /\ \A k \in 1..(n - p + 1) : c[k] = s[p + k - 1]
    <2>1. p \in Nat \ {0} /\ n \in Nat /\ n <= Len(s) /\ p <= n + 1
        BY <1>1
    <2> QED
        BY <2>1, SliceFacts
<1> HIDE DEF n, a, b, c
<1>5. /\ ab \in Seq(T) /\ Len(ab) = p
      /\ \A k \in 1..p : ab[k] = IF k <= p - 1 THEN a[k] ELSE b[k - (p - 1)]
    <2>1. ab \in Seq(T) /\ Len(ab) = Len(a) + Len(b)
        BY <1>2, <1>3, ConcatProperties
    <2>2. \A k \in 1..(Len(a) + Len(b)) :
             ab[k] = IF k <= Len(a) THEN a[k] ELSE b[k - Len(a)]
        BY <1>2, <1>3, ConcatProperties
    <2>3. (p - 1) + 1 = p /\ Len(a) = p - 1 /\ Len(b) = 1
        BY <1>1, <1>2, <1>3
    <2> QED
        BY <2>1, <2>2, <2>3
<1> HIDE DEF ab
<1>6. /\ new \in Seq(T) /\ Len(new) = n + 1
      /\ \A k \in 1..(n + 1) : new[k] = IF k <= p THEN ab[k] ELSE c[k - p]
    <2>1. new \in Seq(T) /\ Len(new) = Len(ab) + Len(c)
        BY <1>4, <1>5, ConcatProperties
    <2>2. \A k \in 1..(Len(ab) + Len(c)) :
             new[k] = IF k <= Len(ab) THEN ab[k] ELSE c[k - Len(ab)]
        BY <1>4, <1>5, ConcatProperties
    <2>3. p + (n - p + 1) = n + 1 /\ Len(ab) = p /\ Len(c) = n - p + 1
        BY <1>1, <1>4, <1>5
    <2> QED
        BY <2>1, <2>2, <2>3
<1> HIDE DEF new
<1>7. ASSUME NEW k \in 1..(n + 1)
      PROVE  new[k] = IF k < p THEN s[k] ELSE IF k = p THEN x ELSE s[k - 1]
    <2>1. CASE k < p
        <3>1. k \in 1..(p - 1) /\ k <= p - 1 /\ k <= p /\ k \in 1..p
            BY <1>1, <2>1
        <3> QED
            BY <1>2, <1>5, <1>6, <2>1, <3>1
    <2>2. CASE k = p
        <3>1. k <= p /\ k \in 1..p /\ ~(k <= p - 1) /\ k - (p - 1) = 1
            BY <1>1, <2>2
        <3> QED
            BY <1>1, <1>3, <1>5, <1>6, <2>2, <3>1
    <2>3. CASE k > p
        <3>1. k - p \in 1..(n - p + 1) /\ p + (k - p) - 1 = k - 1 /\ ~(k <= p) /\ ~(k < p)
              /\ k # p
            BY <1>1, <2>3
        <3>2. c[k - p] = s[p + (k - p) - 1]
            BY <1>4, <3>1
        <3> QED
            BY <1>6, <3>1, <3>2
    <2> QED
        BY <1>1, <2>1, <2>2, <2>3
<1>8. InsertAt(s, p, x) = new
    BY DEF InsertAt, new, ab, a, b, c, n
<1> QED
    BY <1>6, <1>7, <1>8 DEF n

\* addSorted_int keeps the positions in their order, each once.
LEMMA AddSorted ==
    ASSUME NEW a \in Seq(Int), InOrder(a), NEW c \in Int
    PROVE  /\ addSorted_int(a, c) \in Seq(Int) /\ InOrder(addSorted_int(a, c))
           /\ Elems(addSorted_int(a, c)) = Elems(a) \union {c}
<1> DEFINE n == Len(a)
           S == {k \in 1..n : a[k] >= c}
           at == SelectInSeq(a, LAMBDA d : d >= c)
           new == addSorted_int(a, c)
<1>1. n \in Nat /\ c \in Int /\ \A k \in 1..n : a[k] \in Int
    OBVIOUS
<1>2. at = IF S # {} THEN Min(S) ELSE 0
    BY DEF SelectInSeq
<1>3. new = IF at = 0 THEN Append(a, c)
            ELSE IF a[at] = c THEN a ELSE InsertAt(a, at, c)
    BY DEF addSorted_int
<1> HIDE DEF at, new
<1>4. CASE S = {}
    <2>1. new = Append(a, c)
        BY <1>2, <1>3, <1>4
    <2>2. \A k \in 1..n : a[k] < c
        BY <1>1, <1>4
    <2>3. /\ new \in Seq(Int) /\ Len(new) = n + 1 /\ new[n + 1] = c
          /\ \A k \in 1..n : new[k] = a[k]
        BY <2>1, AppendFacts
    <2> HIDE DEF n, S
    <2>4. InOrder(new)
        <3> SUFFICES ASSUME NEW j \in 1..(n + 1), NEW k \in 1..(n + 1), j < k
                     PROVE  new[j] < new[k]
            BY <2>3 DEF InOrder
        <3>1. j \in 1..n
            BY <1>1
        <3>2. CASE k = n + 1
            BY <2>2, <2>3, <3>1, <3>2
        <3>3. CASE k # n + 1
            <4>1. k \in 1..n
                BY <1>1, <3>3
            <4> QED
                BY <2>3, <3>1, <4>1 DEF InOrder, n
        <3> QED
            BY <3>2, <3>3
    <2>5. Elems(new) = Elems(a) \union {c}
        <3>1. \A y : y \in Elems(new) <=> \E k \in 1..(n + 1) : y = new[k]
            BY <2>3 DEF Elems
        <3>2. \A y : y \in Elems(a) <=> \E k \in 1..n : y = a[k]
            BY DEF Elems, n
        <3>3. \A k : k \in 1..(n + 1) <=> k \in 1..n \/ k = n + 1
            BY <1>1
        <3>4. new[n + 1] = c /\ \A k \in 1..n : new[k] = a[k]
            BY <2>3
        <3>5. \A y : y \in Elems(new) <=> y \in Elems(a) \/ y = c
            <4>1. ASSUME NEW y, y \in Elems(new) PROVE y \in Elems(a) \/ y = c
                <5>1. PICK k \in 1..(n + 1) : y = new[k]
                    BY <3>1, <4>1
                <5> QED
                    BY <3>2, <3>3, <3>4, <5>1
            <4>2. ASSUME NEW y, y \in Elems(a) PROVE y \in Elems(new)
                <5>1. PICK k \in 1..n : y = a[k]
                    BY <3>2, <4>2
                <5>2. k \in 1..(n + 1) /\ y = new[k]
                    BY <3>3, <3>4, <5>1
                <5> QED
                    BY <3>1, <5>2
            <4>3. c \in Elems(new)
                BY <3>1, <3>3, <3>4
            <4> QED
                BY <4>1, <4>2, <4>3
        <3> QED
            BY <3>5
    <2> QED
        BY <2>3, <2>4, <2>5 DEF new
<1>5. CASE S # {}
    <2>1. PICK p \in S : \A k \in S : p <= k
        <3>1. S \subseteq Nat
            OBVIOUS
        <3> HIDE DEF S
        <3> QED
            BY <1>5, <3>1, LeastNat
    <2>2. at \in S /\ \A k \in S : at <= k
        <3>1. at = Min(S)
            BY <1>2, <1>5
        <3> HIDE DEF S
        <3> QED
            BY <2>1, <3>1 DEF Min
    <2>3. at \in 1..n /\ a[at] >= c /\ at # 0
        BY <1>1, <2>2
    <2>4. ASSUME NEW k \in 1..n, k < at PROVE a[k] < c
        <3>1. k \notin S
            BY <1>1, <2>2, <2>3, <2>4
        <3> QED
            BY <1>1, <3>1
    <2>5. ASSUME NEW k \in 1..n, k > at PROVE a[k] > a[at]
        BY <1>1, <2>3, <2>5 DEF InOrder
    <2> HIDE DEF n, S
    <2>6. CASE a[at] = c
        <3>1. new = a
            BY <1>3, <2>3, <2>6
        <3>2. Elems(a) = Elems(a) \union {c}
            BY <2>3, <2>6 DEF Elems, n
        <3> QED
            BY <3>1, <3>2 DEF new
    <2>7. CASE a[at] # c
        <3>1. new = InsertAt(a, at, c) /\ a[at] > c
            BY <1>1, <1>3, <2>3, <2>7
        <3>2. /\ new \in Seq(Int) /\ Len(new) = n + 1
              /\ \A k \in 1..(n + 1) :
                    new[k] = IF k < at THEN a[k] ELSE IF k = at THEN c ELSE a[k - 1]
            <4> DEFINE T == Int
            <4>1. a \in Seq(T) /\ c \in T /\ at \in 1..Len(a)
                BY <2>3 DEF n
            <4> HIDE DEF T
            <4>2. /\ InsertAt(a, at, c) \in Seq(T) /\ Len(InsertAt(a, at, c)) = Len(a) + 1
                  /\ \A k \in 1..(Len(a) + 1) :
                        InsertAt(a, at, c)[k] = IF k < at THEN a[k] ELSE IF k = at THEN c
                                                ELSE a[k - 1]
                BY <4>1, InsertedAt
            <4> QED
                BY <3>1, <4>2 DEF n, T
        <3>3. InOrder(new)
            <4> SUFFICES ASSUME NEW j \in 1..(n + 1), NEW k \in 1..(n + 1), j < k
                         PROVE  new[j] < new[k]
                BY <3>2 DEF InOrder
            <4>1. CASE k < at
                <5>1. j \in 1..n /\ k \in 1..n /\ j < at
                    BY <1>1, <2>3, <4>1
                <5> QED
                    BY <3>2, <4>1, <5>1 DEF InOrder, n
            <4>2. CASE k = at
                <5>1. j \in 1..n /\ j < at
                    BY <1>1, <2>3, <4>2
                <5> QED
                    BY <2>4, <3>2, <4>2, <5>1
            <4>3. CASE k > at
                <5>1. k - 1 \in 1..n /\ k - 1 >= at /\ ~(k < at) /\ k # at
                    BY <1>1, <2>3, <4>3
                <5>2. new[k] = a[k - 1]
                    BY <3>2, <5>1
                <5>3. a[k - 1] >= a[at]
                    BY <1>1, <2>3, <2>5, <5>1
                <5>4. CASE j < at
                    <6>1. j \in 1..n
                        BY <1>1, <2>3, <5>4
                    <6>2. new[j] = a[j] /\ a[j] < c
                        BY <2>4, <3>2, <5>4, <6>1
                    <6> QED
                        BY <1>1, <2>3, <3>1, <5>1, <5>2, <5>3, <6>1, <6>2
                <5>5. CASE j = at
                    <6>1. new[j] = c
                        BY <3>2, <5>5
                    <6> QED
                        BY <1>1, <2>3, <3>1, <5>1, <5>2, <5>3, <6>1
                <5>6. CASE j > at
                    <6>1. j - 1 \in 1..n /\ j - 1 < k - 1 /\ ~(j < at) /\ j # at
                        BY <1>1, <2>3, <5>6
                    <6>2. new[j] = a[j - 1]
                        BY <3>2, <6>1
                    <6> QED
                        BY <5>1, <5>2, <6>1, <6>2 DEF InOrder, n
                <5> QED
                    BY <2>3, <5>4, <5>5, <5>6
            <4> QED
                BY <2>3, <4>1, <4>2, <4>3
        <3>4. Elems(new) = Elems(a) \union {c}
            <4>1. ASSUME NEW y \in Elems(new) PROVE y \in Elems(a) \union {c}
                <5>1. PICK k \in 1..(n + 1) : y = new[k]
                    BY <3>2 DEF Elems
                <5>2. CASE k < at
                    <6>1. k \in 1..n /\ y = a[k]
                        BY SMTT(30), <1>1, <2>3, <3>2, <5>1, <5>2
                    <6> QED
                        BY <6>1 DEF Elems, n
                <5>3. CASE k = at
                    BY <3>2, <5>1, <5>3
                <5>4. CASE k > at
                    <6>1. k - 1 \in 1..n /\ ~(k < at) /\ k # at
                        BY <1>1, <2>3, <5>4
                    <6>2. y = a[k - 1]
                        BY <3>2, <5>1, <6>1
                    <6> QED
                        BY <6>1, <6>2 DEF Elems, n
                <5> QED
                    BY <2>3, <5>2, <5>3, <5>4
            <4>2. c \in Elems(new)
                <5>1. at \in 1..(n + 1) /\ ~(at < at)
                    BY <1>1, <2>3
                <5>2. new[at] = c
                    BY <3>2, <5>1
                <5> QED
                    BY <3>2, <5>1, <5>2 DEF Elems
            <4>3. ASSUME NEW y \in Elems(a) PROVE y \in Elems(new)
                <5>1. PICK k \in 1..n : y = a[k]
                    BY DEF Elems, n
                <5>2. CASE k < at
                    <6>1. k \in 1..(n + 1) /\ new[k] = y
                        BY <1>1, <3>2, <5>1, <5>2
                    <6> QED
                        BY <3>2, <6>1 DEF Elems
                <5>3. CASE k >= at
                    <6>1. k + 1 \in 1..(n + 1) /\ ~(k + 1 < at) /\ k + 1 # at
                          /\ (k + 1) - 1 = k
                        BY <1>1, <2>3, <5>3
                    <6>2. new[k + 1] = y
                        BY <3>2, <5>1, <6>1
                    <6> QED
                        BY <3>2, <6>1, <6>2 DEF Elems
                <5> QED
                    BY <2>3, <5>2, <5>3
            <4> QED
                BY <4>1, <4>2, <4>3
        <3> QED
            BY <3>2, <3>3, <3>4 DEF new
    <2> QED
        BY <2>6, <2>7
<1> QED
    BY <1>4, <1>5

\* The positions after each leaf.
IsSorting(f, leaves, m) ==
    f = [k \in 0..m |-> IF k = 0 THEN <<>> ELSE addSorted_int(f[k - 1], leaves[k])]

\* The recursion of errorStack_GetPositions has a solution.
LEMMA SortingExists ==
    ASSUME NEW leaves, NEW last \in Nat
    PROVE  \E f : IsSorting(f, leaves, last)
<1> DEFINE None == {m \in Nat : ~(\E f : IsSorting(f, leaves, m))}
<1> SUFFICES ASSUME None # {} PROVE FALSE
    OBVIOUS
<1>1. PICK m \in None : \A k \in None : m <= k
    <2>1. None \subseteq Nat
        OBVIOUS
    <2> HIDE DEF None
    <2> QED
        BY <2>1, LeastNat
<1>2. m \in Nat /\ ~(\E f : IsSorting(f, leaves, m))
    OBVIOUS
<1>3. CASE m = 0
    <2> DEFINE f == [k \in 0..0 |-> <<>>]
    <2>1. f = [k \in 0..0 |-> IF k = 0 THEN <<>> ELSE addSorted_int(f[k - 1], leaves[k])]
        OBVIOUS
    <2> HIDE DEF f
    <2> QED
        BY <1>2, <1>3, <2>1 DEF IsSorting
<1>4. CASE m # 0
    <2>1. m - 1 \in Nat /\ ~(m <= m - 1)
        BY <1>2, <1>4
    <2>2. PICK g : IsSorting(g, leaves, m - 1)
        BY <1>1, <2>1
    <2> DEFINE f == [k \in 0..m |-> IF k = m THEN addSorted_int(g[m - 1], leaves[m])
                                    ELSE g[k]]
    <2>3. ASSUME NEW k \in 0..m
          PROVE  f[k] = IF k = 0 THEN <<>> ELSE addSorted_int(f[k - 1], leaves[k])
        <3>1. CASE k = m
            <4>1. m - 1 \in 0..m /\ m - 1 # m /\ m \in 0..m
                BY <1>2, <2>1
            <4>2. f[m - 1] = g[m - 1]
                BY <4>1
            <4> QED
                BY <1>4, <3>1, <4>1, <4>2
        <3>2. CASE k # m
            <4>1. k \in 0..(m - 1) /\ (k # 0 => k - 1 \in 0..m /\ k - 1 # m)
                BY <1>2, <3>2
            <4>2. g[k] = IF k = 0 THEN <<>> ELSE addSorted_int(g[k - 1], leaves[k])
                BY <2>2, <4>1 DEF IsSorting
            <4>3. f[k] = g[k] /\ (k # 0 => f[k - 1] = g[k - 1])
                BY <3>2, <4>1
            <4> HIDE DEF f
            <4> QED
                BY <4>2, <4>3
        <3> QED
            BY <3>1, <3>2
    <2>4. f = [k \in 0..m |-> f[k]]
        OBVIOUS
    <2> HIDE DEF f
    <2>5. f = [k \in 0..m |-> IF k = 0 THEN <<>> ELSE addSorted_int(f[k - 1], leaves[k])]
        BY <2>3, <2>4
    <2> QED
        BY <1>2, <2>5 DEF IsSorting
<1> QED
    BY <1>3, <1>4

\* errorStack_GetPositions is the last value of that recursion.
LEMMA SortingIs ==
    ASSUME NEW leaves, Len(leaves) \in Nat
    PROVE  \E f : /\ IsSorting(f, leaves, Len(leaves))
                  /\ errorStack_GetPositions(leaves) = f[Len(leaves)]
<1> DEFINE f == CHOOSE g : IsSorting(g, leaves, Len(leaves))
<1>1. IsSorting(f, leaves, Len(leaves))
    BY SortingExists
<1>2. ASSUME NEW s, NEW c
      PROVE  With(s, LAMBDA a : addSorted_int(a, c)) = addSorted_int(s, c)
    BY DEF With
<1>3. errorStack_GetPositions(leaves)
         = (CHOOSE g : g = [k \in 0..Len(leaves) |->
               IF k = 0 THEN <<>>
               ELSE With(g[k - 1], LAMBDA a : addSorted_int(a, leaves[k]))])[Len(leaves)]
    BY DEF errorStack_GetPositions, With
<1>4. \A g : g = [k \in 0..Len(leaves) |->
               IF k = 0 THEN <<>>
               ELSE With(g[k - 1], LAMBDA a : addSorted_int(a, leaves[k]))]
             <=> IsSorting(g, leaves, Len(leaves))
    BY <1>2 DEF IsSorting
<1>5. errorStack_GetPositions(leaves) = f[Len(leaves)]
    BY <1>3, <1>4
<1> HIDE DEF f
<1> QED
    BY <1>1, <1>5

\* The positions drawn are the leaves', in their order, each once.
LEMMA Positions ==
    ASSUME NEW leaves \in Seq(Int)
    PROVE  LET P == errorStack_GetPositions(leaves)
           IN  P \in Seq(Int) /\ InOrder(P) /\ Elems(P) = Elems(leaves)
<1> DEFINE n == Len(leaves)
           UpTo(m) == {leaves[k] : k \in 1..m}
           Right(a, m) == a \in Seq(Int) /\ InOrder(a) /\ Elems(a) = UpTo(m)
<1>1. n \in Nat /\ \A k \in 1..n : leaves[k] \in Int
    OBVIOUS
<1>2. PICK f : IsSorting(f, leaves, n) /\ errorStack_GetPositions(leaves) = f[n]
    BY <1>1, SortingIs
<1>3. \A k \in 0..n : f[k] = IF k = 0 THEN <<>> ELSE addSorted_int(f[k - 1], leaves[k])
    BY <1>2 DEF IsSorting
<1> HIDE DEF n
<1> DEFINE Not == {k \in 0..n : ~Right(f[k], k)}
<1>4. ASSUME Not # {} PROVE FALSE
    <2>1. PICK k \in Not : \A j \in Not : k <= j
        <3>1. Not \subseteq Nat
            OBVIOUS
        <3> HIDE DEF Not
        <3> QED
            BY <1>4, <3>1, LeastNat
    <2>2. k \in 0..n /\ ~Right(f[k], k)
        OBVIOUS
    <2>3. CASE k = 0
        <3>1. f[0] = <<>>
            BY <1>1, <1>3
        <3>2. <<>> \in Seq(Int) /\ InOrder(<<>>) /\ Elems(<<>>) = {} /\ UpTo(0) = {}
            BY DEF InOrder, Elems
        <3> QED
            BY <2>2, <2>3, <3>1, <3>2
    <2>4. CASE k # 0
        <3>1. k - 1 \in 0..n /\ ~(k <= k - 1) /\ k \in 1..n /\ k \in Nat
            BY <1>1, <2>2, <2>4
        <3>2. Right(f[k - 1], k - 1)
            BY <2>1, <3>1
        <3>3. f[k] = addSorted_int(f[k - 1], leaves[k]) /\ leaves[k] \in Int
            BY <1>1, <1>3, <2>2, <2>4, <3>1
        <3> HIDE DEF UpTo
        <3>4. /\ f[k] \in Seq(Int) /\ InOrder(f[k])
              /\ Elems(f[k]) = UpTo(k - 1) \union {leaves[k]}
            <4> DEFINE a == f[k - 1]
                       c == leaves[k]
            <4>1. a \in Seq(Int) /\ InOrder(a) /\ Elems(a) = UpTo(k - 1) /\ c \in Int
                BY <3>2, <3>3
            <4> HIDE DEF a, c
            <4>2. /\ addSorted_int(a, c) \in Seq(Int) /\ InOrder(addSorted_int(a, c))
                  /\ Elems(addSorted_int(a, c)) = Elems(a) \union {c}
                BY <4>1, AddSorted
            <4> QED
                BY <3>3, <4>1, <4>2 DEF a, c
        <3>5. UpTo(k - 1) \union {leaves[k]} = UpTo(k)
            <4>1. \A j : j \in 1..k <=> j \in 1..(k - 1) \/ j = k
                BY <3>1
            <4> QED
                BY <4>1 DEF UpTo
        <3> QED
            BY <2>2, <3>4, <3>5
    <2> QED
        BY <2>3, <2>4
<1>5. Right(f[n], n)
    <2>1. n \in 0..n
        BY <1>1
    <2> HIDE DEF Right
    <2> QED
        BY <1>4, <2>1
<1>6. UpTo(n) = Elems(leaves)
    BY DEF Elems, n
<1> QED
    BY <1>2, <1>5, <1>6

\* Positions that are not negative stay so.
LEMMA NatPositions ==
    ASSUME NEW leaves \in Seq(Nat)
    PROVE  LET P == errorStack_GetPositions(leaves)
           IN  P \in Seq(Nat) /\ InOrder(P) /\ Elems(P) = Elems(leaves)
<1> DEFINE P == errorStack_GetPositions(leaves)
<1>1. leaves \in Seq(Int) /\ Elems(leaves) \subseteq Nat
    BY DEF Elems
<1>2. P \in Seq(Int) /\ InOrder(P) /\ Elems(P) = Elems(leaves)
    BY <1>1, Positions
<1> HIDE DEF P
<1>3. \A k \in 1..Len(P) : P[k] \in Nat
    BY <1>1, <1>2 DEF Elems
<1>4. P \in [1..Len(P) -> Nat] /\ Len(P) \in Nat
    <2>1. P = [k \in 1..Len(P) |-> P[k]] /\ Len(P) \in Nat
        BY <1>2
    <2> QED
        BY <1>3, <2>1
<1>5. P \in Seq(Nat)
    BY <1>4, IsASeq
<1> QED
    BY <1>2, <1>5 DEF P

\* Before the first parse the position is -1, which is none of the line.
LEMMA NoPositions == errorStack_GetPositions(NoParseYet) = NoParseYet
<1> DEFINE P == errorStack_GetPositions(NoParseYet)
<1>1. NoParseYet \in Seq(Int) /\ Elems(NoParseYet) = {-1}
    BY DEF NoParseYet, Elems
<1>2. P \in Seq(Int) /\ InOrder(P) /\ Elems(P) = {-1}
    <2>1. P \in Seq(Int) /\ InOrder(P) /\ Elems(P) = Elems(NoParseYet)
        BY <1>1, Positions
    <2> HIDE DEF P
    <2> QED
        BY <1>1, <2>1
<1> HIDE DEF P
<1>3. Len(P) \in Nat /\ \A k \in 1..Len(P) : P[k] = -1
    <2>1. \A k \in 1..Len(P) : P[k] \in Elems(P)
        BY DEF Elems
    <2> QED
        BY <1>2, <2>1
<1>4. Len(P) # 0
    BY <1>2, <1>3 DEF Elems
<1>5. Len(P) <= 1
    <2> SUFFICES ASSUME Len(P) > 1 PROVE FALSE
        BY <1>3
    <2>1. 1 \in 1..Len(P) /\ 2 \in 1..Len(P) /\ 1 < 2
        BY <1>3
    <2>2. P[1] < P[2] /\ P[1] = -1 /\ P[2] = -1
        BY <1>2, <1>3, <2>1 DEF InOrder
    <2> QED
        BY <2>2
<1>6. Len(P) = 1 /\ P[1] = -1
    <2>1. Len(P) = 1 /\ 1 \in 1..Len(P)
        BY SMTT(30), <1>3, <1>4, <1>5
    <2> QED
        BY <1>3, <2>1
<1> DEFINE Q == NoParseYet
<1>7. Q \in Seq(Int) /\ Len(Q) = 1 /\ Q[1] = -1
    BY DEF NoParseYet
<1> HIDE DEF Q
<1>8. \A k \in 1..Len(P) : P[k] = Q[k]
    BY <1>6, <1>7
<1>9. P = Q
    BY <1>2, <1>6, <1>7, <1>8, SeqEqual
<1> QED
    BY <1>9 DEF P, Q

-----------------------------------------------------------------------------
(* splitLines.                                                             *)

LEMMA MinOfTwo ==
    ASSUME NEW a \in Int, NEW b \in Int, a <= b
    PROVE  Min({a, b}) = a /\ Min({b, a}) = a
BY DEF Min

\* The rows drawn are those of the picture.
LEMMA RowsArePicture ==
    ASSUME NEW text \in Seq(Letters), NEW errs, NEW w \in Nat \ {0}, NEW rows,
           NEW full, full = (Len(text) + 1) \div w,
           Filled(rows, CellsOf(text, errs), full, w,
                  SubSeq(CellsOf(text, errs), full * w + 1, Len(text) + 1))
    PROVE  rows = Picture(text, errs, w)
<1> DEFINE C == CellsOf(text, errs)
           N == Len(text) + 1
           cut(r) == SubSeq(C, (r - 1) * w + 1, Min({r * w, Len(C)}))
<1>1. C \in Seq(Glyphs) /\ Len(C) = N
    BY CellsAre
<1>2. N \in Nat
    OBVIOUS
<1>3. full \in Nat /\ full * w \in Nat /\ full * w <= N /\ N < full * w + w
    <2>1. N \div w \in Nat /\ (N \div w) * w <= N /\ N < (N \div w) * w + w
        BY <1>2, RowsOf
    <2>2. full = N \div w
        OBVIOUS
    <2> HIDE DEF N
    <2> QED
        BY <1>2, <2>1, <2>2
<1>4. Picture(text, errs, w) = [r \in 1..(Len(C) \div w + 1) |-> cut(r)]
    BY DEF Picture, CellsOf
<1>5. /\ rows \in Seq(Seq(Glyphs)) /\ Len(rows) = full + 1
      /\ \A r \in 1..full : rows[r] = SubSeq(C, (r - 1) * w + 1, r * w)
      /\ rows[full + 1] = SubSeq(C, full * w + 1, N)
    BY DEF Filled
<1>6. Len(C) \div w = full
    BY <1>1
<1> HIDE DEF C, N
<1>7. ASSUME NEW r \in 1..full PROVE cut(r) = rows[r]
    <2>1. r * w <= full * w /\ r * w \in Int
        BY <1>3, ProductMonotone
    <2> DEFINE x == r * w
               y == full * w
    <2>2. x \in Int /\ x <= Len(C) /\ Len(C) \in Int
        <3>1. x <= y /\ x \in Int /\ y \in Int /\ y <= N
            BY <1>3, <2>1
        <3> HIDE DEF x, y
        <3> QED
            BY <1>1, <1>2, <3>1
    <2>3. Min({x, Len(C)}) = x
        <3> HIDE DEF x
        <3> QED
            BY <2>2, MinOfTwo
    <2> QED
        BY <1>5, <2>3
<1>8. cut(full + 1) = rows[full + 1]
    <2> DEFINE x == (full + 1) * w
               y == full * w
    <2>1. full + 1 \in Nat \ {0} /\ (full + 1) - 1 = full
        BY <1>3
    <2>2. x = y + w /\ y \in Nat
        BY <1>3, <2>1, RowProducts
    <2>3. x \in Int /\ N <= x /\ N \in Int
        <3>1. N < y + w
            BY <1>3
        <3> HIDE DEF x, y
        <3> QED
            BY <1>2, <2>2, <3>1
    <2>4. Min({x, Len(C)}) = N
        <3> HIDE DEF x
        <3> QED
            BY <1>1, <2>3, MinOfTwo
    <2> QED
        BY <1>5, <2>1, <2>4
<1> HIDE DEF cut
<1>9. \A r \in 1..(full + 1) : r \in 1..full \/ r = full + 1
    BY <1>3
<1>10. rows = [r \in 1..(full + 1) |-> cut(r)]
    <2>1. rows = [r \in 1..(full + 1) |-> rows[r]]
        BY <1>5
    <2>2. \A r \in 1..(full + 1) : rows[r] = cut(r)
        BY <1>7, <1>8, <1>9
    <2> QED
        BY <2>1, <2>2
<1> QED
    BY <1>4, <1>6, <1>10

\* splitLines with its local definitions written out.
LEMMA SplitLinesIs ==
    ASSUME NEW text, NEW leaves, NEW w
    PROVE  LET P == errorStack_GetPositions(leaves)
               full == (Len(text) + PromptLen) \div w
           IN  splitLines(text, leaves, w)
                  = insertHighlight(text, P, FullRows(text, P, full, w),
                                    RowStart(full + 1, w), Len(text) - 1, w).term
<1> DEFINE P == errorStack_GetPositions(leaves)
           full == (Len(text) + PromptLen) \div w
           last(p, s) == insertHighlight(text, p, s, RowStart(full + 1, w), Len(text) - 1, w).term
           draw(p) == With(FullRows(text, p, full, w), LAMBDA s : last(p, s))
<1>1. splitLines(text, leaves, w) = With(P, draw)
    BY DEF splitLines
<1> HIDE DEF P, full, last
<1>2. ASSUME NEW p PROVE draw(p) = last(p, FullRows(text, p, full, w))
    BY DEF With
<1> HIDE DEF draw
<1>3. With(P, draw) = draw(P)
    BY DEF With
<1> QED
    BY <1>1, <1>2, <1>3 DEF P, full, last

\* What the loop and the last piece draw is the picture, with the cursor behind it.
LEMMA LinesSplit ==
    ASSUME NEW text \in Seq(Letters), NEW leaves, NEW w \in Nat \ {0},
           leaves = NoParseYet \/ leaves \in Seq(Nat)
    PROVE  LET t == splitLines(text, leaves, w)
           IN  /\ t = [rows |-> t.rows, row |-> t.row, col |-> t.col]
               /\ t.rows = Picture(text, Elems(leaves), w)
               /\ t.row = (Len(text) + 1) \div w
               /\ t.col = (Len(text) + 1) % w
<1> DEFINE P == errorStack_GetPositions(leaves)
           N == Len(text) + 1
           full == N \div w
           C == CellsOf(text, Elems(P))
           s == FullRows(text, P, full, w)
           d == insertHighlight(text, P, s, RowStart(full + 1, w), N - 2, w)
           t == splitLines(text, leaves, w)
<1>1. /\ P = NoParseYet \/ (P \in Seq(Nat) /\ InOrder(P))
      /\ Elems(P) = Elems(leaves)
    BY NatPositions, NoPositions
<1>2. N \in Nat \ {0} /\ N - 2 = Len(text) - 1 /\ Len(text) + PromptLen = N
    BY EditorAssumption
<1>3. /\ full \in Nat /\ full * w \in Nat /\ full * w <= N /\ N <= full * w + w
      /\ N % w = N - full * w
    <2>1. /\ N \div w \in Nat /\ (N \div w) * w <= N /\ N < (N \div w) * w + w
          /\ N % w = N - (N \div w) * w
        <3>1. N \in Nat
            BY <1>2
        <3> HIDE DEF N, full
        <3> QED
            BY <3>1, RowsOf
    <2> DEFINE y == full * w
    <2>2. y \in Nat
        BY <2>1
    <2>3. y <= N /\ N < y + w /\ N % w = N - y /\ N \in Nat
        BY <1>2, <2>1
    <2> HIDE DEF y, N
    <2>4. N <= y + w
        BY <2>2, <2>3
    <2> QED
        BY <2>1, <2>2, <2>3, <2>4 DEF y
<1>4. t = d.term
    BY <1>2, SplitLinesIs
<1>5. RowsDrawn(s, P, C, full, w)
    <2>1. full * w <= Len(text) + 1
        BY <1>3
    <2> HIDE DEF P, full
    <2> QED
        BY <1>1, <1>3, <2>1, RowsFull
<1>6. LaidRow(d, P, C, full, N, w)
    <2>1. N <= Len(text) + 1
        BY <1>2
    <2>2. N \in Nat \ {0} /\ full \in Nat /\ full * w <= N /\ N <= full * w + w
        BY <1>2, <1>3
    <2> HIDE DEF P, full, s, N
    <2> QED
        BY <1>5, <2>1, <2>2, LayRow
<1> HIDE DEF d, t, P, s
<1>7. /\ t = [rows |-> t.rows, row |-> t.row, col |-> t.col]
      /\ Filled(t.rows, C, full, w, SubSeq(C, full * w + 1, N))
      /\ t.row = full /\ t.col = N - full * w
    BY <1>4, <1>6 DEF LaidRow
<1>8. t.rows = Picture(text, Elems(P), w)
    BY <1>7, RowsArePicture
<1> QED
    BY <1>1, <1>3, <1>7, <1>8 DEF t

\* The position of the error before the first parse is none of the line.
LEMMA NothingWrong ==
    ASSUME NEW text \in Seq(Letters), NEW w
    PROVE  Picture(text, Elems(NoParseYet), w) = Picture(text, {}, w)
<1> DEFINE n == Len(text)
<1>1. Elems(NoParseYet) = {-1}
    BY DEF NoParseYet, Elems
<1>2. n \in Nat
    OBVIOUS
<1> HIDE DEF n
<1>3. \A k \in 1..n : (k - 1 \in {-1}) = (k - 1 \in {})
    BY <1>2
<1>4. [k \in 1..n |-> Cell(text[k], k - 1 \in {-1})]
         = [k \in 1..n |-> Cell(text[k], k - 1 \in {})]
    BY <1>3
<1> QED
    BY <1>1, <1>4 DEF Picture, n

-----------------------------------------------------------------------------
(* Where the cursor is put.                                                *)

Terminal(t) == t = [rows |-> t.rows, row |-> t.row, col |-> t.col]

\* The cursor at position p of the text.
CursorAt(t, p, w) == t.row = (p + 1) \div w /\ t.col = (p + 1) % w

\* The row and the column of a position are those of a window.
LEMMA RowAndColumn ==
    ASSUME NEW w \in Nat \ {0}, NEW p \in Nat
    PROVE  (p + 1) \div w \in Nat /\ (p + 1) % w \in Nat /\ (p + 1) % w <= w - 1
<1> DEFINE N == p + 1
<1>1. N \in Nat
    OBVIOUS
<1> HIDE DEF N
<1>2. N \div w \in Nat /\ N % w \in Nat /\ N % w < w
    BY <1>1, RowsOf
<1> DEFINE r == N % w
<1>3. r \in Nat /\ r < w
    BY <1>2
<1> HIDE DEF r
<1>4. r <= w - 1
    BY <1>3
<1> QED
    BY <1>2, <1>4 DEF N, r

\* The cursor is moved from the row it is on to where a position is.
LEMMA MovedTo ==
    ASSUME NEW t, Terminal(t), t.row \in Int, NEW w \in Nat \ {0}, NEW p \in Nat
    PROVE  LET m == Move(t, t.row, (p + 1) \div w, (p + 1) % w, w)
           IN  Terminal(m) /\ CursorAt(m, p, w) /\ m.rows = t.rows
<1> DEFINE d == (p + 1) \div w
           c == (p + 1) % w
           m == Move(t, t.row, d, c, w)
<1>1. d \in Nat /\ c \in Nat /\ c <= w - 1
    BY RowAndColumn
<1> HIDE DEF c, d
<1>2. Min({c, w - 1}) = c
    BY <1>1, MinOfTwo
<1>3. m = [t EXCEPT !.row = @ - t.row + d, !.col = c]
    BY <1>2 DEF Move
<1> DEFINE x == t.rows
           y == t.row
           z == t.col
<1>4. t = [rows |-> x, row |-> y, col |-> z] /\ y \in Int
    BY DEF Terminal
<1> HIDE DEF x, y, z, m
<1>5. m = [rows |-> x, row |-> y - y + d, col |-> c]
    BY <1>3, <1>4
<1>6. y - y + d = d
    BY <1>1, <1>4
<1>7. Terminal(m) /\ m.row = d /\ m.col = c /\ m.rows = x
    BY <1>5, <1>6 DEF Terminal
<1> QED
    BY <1>7 DEF m, CursorAt, c, d, x

\* The line with its cursor, as every key leaves it.
LEMMA LinePositioned ==
    ASSUME NEW text \in Seq(Letters), NEW w \in Nat \ {0}, NEW p \in Nat, p <= Len(text)
    PROVE  LET t == positionTheCursor(splitLines(text, NoParseYet, w), text, p, w)
           IN  Terminal(t) /\ CursorAt(t, p, w) /\ t.rows = Picture(text, {}, w)
<1> DEFINE s == splitLines(text, NoParseYet, w)
           t == positionTheCursor(s, text, p, w)
<1>1. /\ Terminal(s) /\ CursorAt(s, Len(text), w)
      /\ s.rows = Picture(text, {}, w)
    BY LinesSplit, NothingWrong DEF Terminal, CursorAt
<1> HIDE DEF s
<1> DEFINE Goal == Terminal(t) /\ CursorAt(t, p, w) /\ t.rows = Picture(text, {}, w)
<1>2. ASSUME text = <<>> PROVE Goal
    <2>1. t = s /\ p = Len(text)
        BY <1>2 DEF positionTheCursor
    <2> HIDE DEF t
    <2> QED
        BY <1>1, <2>1
<1>3. ASSUME text # <<>> PROVE Goal
    <2>1. s.row = (Len(text) + 1) \div w /\ s.row \in Int
        <3>1. Len(text) \in Nat
            OBVIOUS
        <3> QED
            BY <1>1, <3>1, RowAndColumn DEF CursorAt
    <2>2. t = Move(s, s.row, (p + 1) \div w, (p + 1) % w, w)
        <3>1. s.row = (Len(text) + PromptLen) \div w /\ p + 1 = p + PromptLen
            BY <2>1, EditorAssumption
        <3>2. t = Move(s, (Len(text) + PromptLen) \div w, (p + PromptLen) \div w,
                       (p + PromptLen) % w, w)
            BY <1>3 DEF positionTheCursor
        <3> HIDE DEF t
        <3> QED
            BY <3>1, <3>2
    <2> HIDE DEF t
    <2>3. Terminal(t) /\ CursorAt(t, p, w) /\ t.rows = s.rows
        BY <1>1, <2>1, <2>2, MovedTo
    <2> QED
        BY <1>1, <2>3
<1> QED
    BY <1>2, <1>3 DEF s

-----------------------------------------------------------------------------
(* What is drawn: the inductive invariant of the screen.                   *)

\* The errors are those of the command being drawn, and none else.
ErrorsInv ==
    /\ Len(raw) <= MaxText
    /\ pc \in {"idle", "scan"} => errors = NoParseYet
    /\ pc \in {"draw", "queue"} => errors \in Seq(0..MaxText)

ScreenInv ==
    /\ Terminal(screen) /\ screen.row \in Nat /\ screen.col \in Nat
    /\ Idle /\ winW > 0 => /\ CursorAt(screen, pos, winW)
                           /\ screen.rows = Picture(line, {}, winW)
    /\ pc = "queue" => screen.rows = Picture(line, Elems(errors), winW)

\* No key makes the text longer than its bound.
LEMMA TextBound ==
    ASSUME EditTypes, BufferInv, Len(raw) <= MaxText, [Next]_vars
    PROVE  Len(raw') <= MaxText
<1> DEFINE n == Len(raw)
<1>0. raw \in Seq(Chars) /\ n \in Nat /\ n = Len(raw) /\ pos \in Nat /\ pos <= n
      /\ i \in Nat /\ MaxText \in Nat /\ n <= MaxText
    BY EditorAssumption DEF EditTypes, BufferInv
<1> HIDE DEF n
<1>1. ASSUME NEW char \in Chars, AddChar(char) PROVE Len(raw') <= MaxText
    <2>1. n < MaxText /\ raw' = InsertAt(raw, pos + 1, char)
        BY <1>0, <1>1 DEF AddChar
    <2>2. Len(raw') = n + 1
        BY <1>0, <2>1, InsertFacts
    <2> QED
        BY <1>0, <2>1, <2>2
<1>2. ASSUME NEW p \in Nat, p < n, raw' = RemoveAt(raw, p + 1) PROVE Len(raw') <= MaxText
    <2>1. Len(raw') = n - 1
        BY <1>0, <1>2, RemoveFacts
    <2> QED
        BY <1>0, <2>1
<1>3. CASE Backspace
    <2>1. pos > 0 /\ raw' = RemoveAt(raw, pos)
        BY <1>3 DEF Backspace
    <2>2. pos - 1 \in Nat /\ pos - 1 < n /\ (pos - 1) + 1 = pos
        BY <1>0, <2>1
    <2> QED
        BY <1>2, <2>1, <2>2
<1>4. CASE Delete
    <2>1. pos # n /\ raw' = RemoveAt(raw, pos + 1)
        BY <1>0, <1>4 DEF Delete
    <2>2. pos < n
        BY <1>0, <2>1
    <2> QED
        BY <1>0, <1>2, <2>1, <2>2
<1>5. CASE CompleteCommand
    <2>1. pc = "queue" /\ raw' = SubSeq(raw, i + 2, n)
        BY <1>0, <1>5 DEF CompleteCommand
    <2>2. i < n
        BY <1>0, <2>1 DEF BufferInv
    <2> DEFINE c == i + 1
    <2>3. c \in 0..Len(raw) /\ i + 2 = c + 1 /\ Len(raw) - c <= MaxText
        BY <1>0, <2>2
    <2> HIDE DEF c
    <2>4. Len(raw') = Len(raw) - c
        BY <1>0, <2>1, <2>3, RestFacts
    <2> QED
        BY <2>3, <2>4
<1>6. CASE ScanChar \/ ParseCommand \/ DrawCommand \/ HangInSplit \/ Redraw
    BY <1>0, <1>6 DEF ScanChar, ParseCommand, DrawCommand, HangInSplit, Redraw, rawVars, n
<1>7. CASE \/ \E key \in Keys : MoveCursor(key) \/ DivideByWidth(key)
           \/ WriteResponse
           \/ \E w \in Widths : WindowSize(w)
           \/ UNCHANGED vars
    BY <1>0, <1>7 DEF MoveCursor, DivideByWidth, WriteResponse, WindowSize, rawVars, vars, n
<1> QED
    BY <1>1, <1>3, <1>4, <1>5, <1>6, <1>7 DEF Next, PreParse

LEMMA ErrorsInit == Init => ErrorsInv
<1>1. Len(<<>>) = 0
    OBVIOUS
<1> QED
    BY <1>1, EditorAssumption DEF Init, ErrorsInv

\* A command's errors lie in its text, and are gone when it is queued.
LEMMA ErrorsNext == EditTypes /\ BufferInv /\ ErrorsInv /\ [Next]_vars => ErrorsInv'
<1> SUFFICES ASSUME EditTypes, BufferInv, ErrorsInv, [Next]_vars PROVE ErrorsInv'
    OBVIOUS
<1>0. Len(raw') <= MaxText
    BY TextBound DEF ErrorsInv
<1>1. CASE UNCHANGED <<pc, errors>>
    BY <1>0, <1>1 DEF ErrorsInv
<1>2. CASE pc' \in {"idle", "scan"} /\ errors' = NoParseYet
    BY <1>0, <1>2 DEF ErrorsInv
<1>3. (\E char \in Chars : AddChar(char)) \/ Backspace \/ Delete => StartScan /\ pc = "idle"
    BY DEF AddChar, Backspace, Delete, Idle
<1>4. CASE StartScan /\ pc = "idle"
    BY <1>2, <1>4 DEF StartScan, ErrorsInv
<1>5. CASE ParseCommand
    <2>1. pc' = "draw" /\ errors' \in BoundedSeq(0..i + 1, MaxErrors) /\ i < Len(raw)
        BY <1>5 DEF ParseCommand
    <2>2. i + 1 \in Nat /\ i + 1 <= MaxText /\ MaxErrors \in Nat /\ MaxText \in Nat
        <3> DEFINE n == Len(raw)
        <3>1. i \in Nat /\ n \in Nat /\ i < n /\ n <= MaxText
            BY <2>1 DEF EditTypes, ErrorsInv
        <3> HIDE DEF n
        <3> QED
            BY <3>1, EditorAssumption
    <2>3. PICK m \in 0..MaxErrors : errors' \in [1..m -> 0..i + 1]
        BY <2>1, <2>2 DEF BoundedSeq, SeqOf
    <2>4. errors' \in [1..m -> 0..MaxText]
        <3>1. 0..i + 1 \subseteq 0..MaxText
            BY <2>2
        <3> QED
            BY <2>3, <3>1
    <2>5. errors' \in Seq(0..MaxText)
        BY <2>2, <2>3, <2>4
    <2> QED
        BY <1>0, <2>1, <2>5 DEF ErrorsInv
<1>6. CASE DrawCommand
    BY <1>0, <1>6 DEF DrawCommand, ErrorsInv
<1>7. CASE CompleteCommand
    BY <1>2, <1>7 DEF CompleteCommand
<1>8. CASE Redraw
    BY <1>2, <1>8 DEF Redraw, ErrorsInv
<1>9. CASE \/ ScanChar \/ HangInSplit
           \/ \E key \in Keys : MoveCursor(key) \/ DivideByWidth(key)
           \/ WriteResponse
           \/ \E w \in Widths : WindowSize(w)
           \/ UNCHANGED vars
    BY <1>1, <1>9 DEF ScanChar, HangInSplit, MoveCursor, DivideByWidth, WriteResponse,
                      WindowSize, scanVars, vars
<1> QED
    BY <1>3, <1>4, <1>5, <1>6, <1>7, <1>8, <1>9 DEF Next, PreParse

LEMMA ScreenInit == Init => ScreenInv
BY DEF Init, ScreenInv, Cleared, Terminal

\* A line that is drawn between two keys, and the cursor in it.
LEMMA ScreenDrawn ==
    ASSUME NEW w \in Nat \ {0}, line \in Seq(Letters), NEW p \in Nat, p <= Len(line),
           errors = NoParseYet, Draw(p, w),
           line' = line, pos' = p, winW' = w, pc' # "queue"
    PROVE  ScreenInv'
<1>1. screen' = positionTheCursor(splitLines(line, NoParseYet, w), line, p, w)
    BY DEF Draw
<1>2. /\ Terminal(screen') /\ CursorAt(screen', p, w)
      /\ screen'.rows = Picture(line, {}, w)
    BY <1>1, LinePositioned
<1>3. screen'.row \in Nat /\ screen'.col \in Nat
    BY <1>2, RowAndColumn DEF CursorAt
<1> QED
    BY <1>2, <1>3 DEF ScreenInv, Terminal, CursorAt

\* What is not drawn, while a key is handled or for good.
LEMMA ScreenStay ==
    ASSUME ScreenInv, screen' = screen, pc' # "queue", pc' # "idle" \/ dead' # "no" \/ winW' = 0
    PROVE  ScreenInv'
BY DEF ScreenInv, Idle, Terminal

\* A cursor key moves the terminal's cursor from its place to its place.
LEMMA ScreenMoved ==
    ASSUME NEW w \in Nat \ {0}, winW = w, Terminal(screen), NEW p \in Nat,
           CursorAt(screen, pos, w), pos \in Nat, screen.rows = Picture(line, {}, w),
           screen' = moveCursor(screen, pos, p, w), pos' = p,
           line' = line, winW' = w, pc' # "queue"
    PROVE  ScreenInv'
<1>1. screen.row = (pos + 1) \div w /\ screen.row \in Int
    BY RowAndColumn DEF CursorAt
<1>2. screen' = Move(screen, screen.row, (p + 1) \div w, (p + 1) % w, w)
    <2>1. pos + PromptLen = pos + 1 /\ p + PromptLen = p + 1
        BY EditorAssumption
    <2> QED
        BY <1>1, <2>1 DEF moveCursor
<1>3. Terminal(screen') /\ CursorAt(screen', p, w) /\ screen'.rows = screen.rows
    <2> DEFINE m == Move(screen, screen.row, (p + 1) \div w, (p + 1) % w, w)
    <2>1. Terminal(m) /\ CursorAt(m, p, w) /\ m.rows = screen.rows
        BY <1>1, MovedTo
    <2>2. screen' = m
        BY <1>2
    <2> HIDE DEF m
    <2> QED
        BY <2>1, <2>2
<1>4. screen'.row \in Nat /\ screen'.col \in Nat
    BY <1>3, RowAndColumn DEF CursorAt
<1> QED
    BY <1>3, <1>4 DEF ScreenInv, Terminal, CursorAt

\* Every step leaves the screen as the invariant says.
LEMMA ScreenNext ==
    EditTypes /\ EditTypes' /\ BufferInv /\ ErrorsInv /\ ScreenInv /\ [Next]_vars
        => ScreenInv'
<1> SUFFICES ASSUME EditTypes, EditTypes', BufferInv, ErrorsInv, ScreenInv, [Next]_vars
             PROVE  ScreenInv'
    OBVIOUS
<1>0. /\ line \in Seq(Letters) /\ pos \in Nat /\ pos <= Len(raw) /\ winW \in Nat
      /\ (winW > 0 => winW \in Nat \ {0})
    BY DEF EditTypes, BufferInv
<1>1. CASE StartScan /\ pc = "idle"
    BY <1>1, ScreenStay DEF StartScan, termVars
<1>2. CASE ScanChar \/ ParseCommand
    BY <1>2, ScreenStay DEF ScanChar, ParseCommand, termVars
<1>3. CASE HangInSplit \/ \E key \in Keys : DivideByWidth(key)
    BY <1>3, ScreenStay DEF HangInSplit, DivideByWidth, scanVars, termVars, Idle
<1>4. CASE DrawCommand
    <2>1. /\ pc = "draw" /\ winW > 0 /\ screen' = splitLines(line, errors, winW)
          /\ pc' = "queue" /\ line' = line /\ errors' = errors /\ winW' = winW
        BY <1>4 DEF DrawCommand, lineVars
    <2>2. errors \in Seq(Nat)
        BY <2>1, EditorAssumption DEF ErrorsInv
    <2>3. /\ screen' = [rows |-> screen'.rows, row |-> screen'.row, col |-> screen'.col]
          /\ screen'.rows = Picture(line, Elems(errors), winW)
          /\ screen'.row = (Len(line) + 1) \div winW
          /\ screen'.col = (Len(line) + 1) % winW
        BY <1>0, <2>1, <2>2, LinesSplit
    <2>4. screen'.row \in Nat /\ screen'.col \in Nat
        <3>1. Len(line) \in Nat
            BY <1>0
        <3> QED
            BY <1>0, <2>1, <2>3, <3>1, RowAndColumn
    <2> QED
        BY <2>1, <2>3, <2>4 DEF ScreenInv, Terminal, Idle
<1>5. CASE CompleteCommand
    BY <1>5 DEF CompleteCommand, ScreenInv, Cleared, Terminal, Idle
<1>6. CASE Redraw
    <2>1. /\ pc = "scan" /\ i = Len(raw) /\ winW > 0 /\ Draw(pos, winW)
          /\ pc' = "idle" /\ line' = line /\ pos' = pos /\ winW' = winW
        BY <1>0, <1>6, LoopEnds DEF Redraw, rawVars
    <2>2. pos <= Len(line) /\ errors = NoParseYet
        BY <1>0, <2>1 DEF BufferInv, ErrorsInv
    <2> QED
        BY <1>0, <2>1, <2>2, ScreenDrawn
<1>7. ASSUME NEW key \in Keys, MoveCursor(key) PROVE ScreenInv'
    <2>1. /\ Idle /\ winW > 0 /\ screen' = moveCursor(screen, pos, pos', winW)
          /\ pc' = pc /\ line' = line /\ winW' = winW /\ pc = "idle"
        BY <1>7 DEF MoveCursor, scanVars, Idle
    <2>2. Terminal(screen) /\ CursorAt(screen, pos, winW) /\ screen.rows = Picture(line, {}, winW)
        BY <2>1 DEF ScreenInv
    <2>3. pos' \in Nat
        BY DEF EditTypes
    <2> QED
        BY <1>0, <2>1, <2>2, <2>3, ScreenMoved
<1>8. ASSUME NEW w \in Widths, WindowSize(w) PROVE ScreenInv'
    <2>1. /\ Idle /\ winW' = w /\ pc' = pc /\ line' = line /\ pos' = pos /\ pc = "idle"
          /\ linePos = pos /\ Len(line) = Len(raw) /\ errors = NoParseYet
          /\ IF w > 0 THEN Draw(linePos, w) /\ UNCHANGED dead
                      ELSE dead' = "hung" /\ UNCHANGED screen
        BY <1>8 DEF WindowSize, Idle, rawVars, lineVars, scanVars, BufferInv, ErrorsInv
    <2>2. CASE w > 0
        <3>1. w \in Nat \ {0} /\ Draw(pos, w) /\ pos <= Len(line)
            BY <1>0, <2>1, <2>2, EditorAssumption
        <3> QED
            BY <1>0, <2>1, <3>1, ScreenDrawn
    <2>3. CASE ~(w > 0)
        BY <2>1, <2>3, ScreenStay
    <2> QED
        BY <2>2, <2>3
<1>9. CASE WriteResponse
    <2>1. /\ Idle /\ winW' = winW /\ pc' = pc /\ line' = line /\ pos' = pos /\ pc = "idle"
          /\ linePos = pos /\ Len(line) = Len(raw) /\ errors = NoParseYet
          /\ IF winW > 0 THEN Draw(linePos, winW) ELSE UNCHANGED screen
        BY <1>9 DEF WriteResponse, Idle, rawVars, lineVars, scanVars, BufferInv, ErrorsInv
    <2>2. CASE winW > 0
        <3>1. pos <= Len(line) /\ Draw(pos, winW)
            BY <1>0, <2>1, <2>2
        <3> QED
            BY <1>0, <2>1, <2>2, <3>1, ScreenDrawn
    <2>3. CASE ~(winW > 0)
        BY <1>0, <2>1, <2>3, ScreenStay
    <2> QED
        BY <2>2, <2>3
<1>10. CASE UNCHANGED vars
    BY <1>10 DEF vars, rawVars, lineVars, scanVars, termVars, ScreenInv, Terminal, CursorAt, Idle
<1>11. (\E char \in Chars : AddChar(char)) \/ Backspace \/ Delete => StartScan /\ pc = "idle"
    BY DEF AddChar, Backspace, Delete, Idle
<1> QED
    BY <1>1, <1>2, <1>3, <1>4, <1>5, <1>6, <1>7, <1>8, <1>9, <1>10, <1>11 DEF Next, PreParse

LEMMA ScreenInvariant == Spec => [](EditTypes /\ BufferInv /\ ErrorsInv /\ ScreenInv)
<1>1. Init => EditTypes /\ BufferInv /\ ErrorsInv /\ ScreenInv
    BY TypesInit, BufferInit, ErrorsInit, ScreenInit
<1>2. EditTypes /\ BufferInv /\ ErrorsInv /\ ScreenInv /\ [Next]_vars
          => EditTypes' /\ BufferInv' /\ ErrorsInv' /\ ScreenInv'
    BY BufferNext, ErrorsNext, ScreenNext
<1> QED
    BY <1>1, <1>2, PTL DEF Spec

\* The terminal's cursor is where the text's cursor is drawn, after any keys, resizes
\* and responses, whatever the width (hello.c:282-309, 504-557).
THEOREM CursorDrawn == Spec => []CursorInPlace
<1>1. ScreenInv => CursorInPlace
    <2> SUFFICES ASSUME ScreenInv, Idle, winW > 0
                 PROVE  /\ screen.row = (pos + PromptLen) \div winW
                        /\ screen.col = (pos + PromptLen) % winW
        BY DEF CursorInPlace
    <2>1. CursorAt(screen, pos, winW) /\ PromptLen = 1
        BY EditorAssumption DEF ScreenInv
    <2> QED
        BY <2>1 DEF CursorAt
<1> QED
    BY <1>1, ScreenInvariant, PTL

\* Between two keys the whole line is on the terminal, each character once and none
\* highlighted, wherever the width cuts its rows (hello.c:139-202, 251).
THEOREM LineOnScreen == Spec => []LineDrawn
<1>1. ScreenInv => LineDrawn
    BY DEF ScreenInv, LineDrawn
<1> QED
    BY <1>1, ScreenInvariant, PTL

\* A command is drawn with the characters at its errors highlighted and no other, in
\* whatever order the errors are found, however many they are and wherever the rows
\* are cut (hello.c:108-137, tl_array.c:50).
THEOREM CommandOnScreen == Spec => []CommandDrawn
<1>1. ErrorsInv /\ ScreenInv => CommandDrawn
    <2> SUFFICES ASSUME ErrorsInv, ScreenInv, pc = "queue"
                 PROVE  screen.rows = Picture(line, {errors[k] : k \in DOMAIN errors}, winW)
        BY DEF CommandDrawn
    <2>1. errors \in Seq(0..MaxText)
        BY DEF ErrorsInv
    <2>2. DOMAIN errors = 1..Len(errors)
        BY <2>1
    <2> QED
        BY <2>2 DEF ScreenInv, Elems
<1> QED
    BY <1>1, ScreenInvariant, PTL

-----------------------------------------------------------------------------
(* The types of what no other proof needs.                                 *)

OtherTypes ==
    /\ winW \in Widths \union {0} /\ missed \in Int
    /\ dead \in {"no", "hung", "sigfpe"}
    /\ sent \in Seq(Seq(Letters))

LEMMA OtherInit == Init => OtherTypes
BY DEF Init, OtherTypes

\* What clearTerminalLine misses the prompt by is a number of rows.
LEMMA ClearType ==
    ASSUME EditTypes, ScreenInv, NEW p \in Nat, Clear(p)
    PROVE  missed' \in Int
<1>1. winW \in Nat /\ screen.row \in Nat
    BY DEF EditTypes, ScreenInv
<1>2. CASE winW = 0
    BY <1>2 DEF Clear
<1>3. CASE winW # 0
    <2> DEFINE q == p \div winW
    <2>1. q \in Nat
        BY <1>1, <1>3, RowsOf
    <2>2. missed' = screen.row - q
        BY <1>3 DEF Clear
    <2> HIDE DEF q
    <2> QED
        BY <1>1, <2>1, <2>2
<1> QED
    BY <1>2, <1>3

LEMMA OtherNext == EditTypes /\ ScreenInv /\ OtherTypes /\ [Next]_vars => OtherTypes'
<1> SUFFICES ASSUME EditTypes, ScreenInv, OtherTypes, [Next]_vars PROVE OtherTypes'
    OBVIOUS
<1>0. /\ pos \in Nat /\ linePos \in Nat /\ line \in Seq(Letters)
      /\ <<>> \in Seq(Seq(Letters))
    BY DEF EditTypes
<1>1. CASE StartScan
    BY <1>0, <1>1 DEF StartScan, termVars, OtherTypes
<1>2. (\E char \in Chars : AddChar(char)) \/ Backspace \/ Delete => StartScan
    BY DEF AddChar, Backspace, Delete
<1>3. CASE ScanChar \/ ParseCommand \/ UNCHANGED vars
    BY <1>3 DEF ScanChar, ParseCommand, vars, termVars, keyVars, OtherTypes
<1>4. CASE DrawCommand \/ Redraw \/ WriteResponse
    <2>1. (Clear(linePos) \/ Clear(pos)) /\ UNCHANGED <<winW, dead, sent>>
        BY <1>4 DEF DrawCommand, Redraw, WriteResponse, keyVars
    <2>2. missed' \in Int
        BY <1>0, <2>1, ClearType
    <2> QED
        BY <2>1, <2>2 DEF OtherTypes
<1>5. CASE CompleteCommand
    <2>1. sent' = Append(sent, line) /\ UNCHANGED <<winW, missed, dead>>
        BY <1>5 DEF CompleteCommand
    <2> DEFINE T == Seq(Letters)
    <2>2. sent \in Seq(T) /\ line \in T
        BY <1>0 DEF OtherTypes
    <2> HIDE DEF T
    <2>3. sent' \in Seq(T)
        BY <2>1, <2>2, AppendFacts
    <2> QED
        BY <2>1, <2>3 DEF OtherTypes, T
<1>6. CASE HangInSplit \/ \E key \in Keys : DivideByWidth(key)
    BY <1>6 DEF HangInSplit, DivideByWidth, termVars, keyVars, OtherTypes
<1>7. ASSUME NEW key \in Keys, MoveCursor(key) PROVE OtherTypes'
    BY <1>7 DEF MoveCursor, keyVars, OtherTypes
<1>8. ASSUME NEW w \in Widths, WindowSize(w) PROVE OtherTypes'
    <2>1. /\ Clear(linePos) /\ winW' = w /\ sent' = sent
          /\ dead' = dead \/ dead' = "hung"
        BY <1>8 DEF WindowSize, keyVars
    <2>2. missed' \in Int
        BY <1>0, <2>1, ClearType
    <2> QED
        BY <2>1, <2>2 DEF OtherTypes
<1> QED
    BY <1>1, <1>2, <1>3, <1>4, <1>5, <1>6, <1>7, <1>8 DEF Next, PreParse

\* Every variable has its type.
THEOREM EditorTypeCorrect == Spec => []TypeOK
<1>1. Init => OtherTypes
    BY OtherInit
<1>2. EditTypes /\ ScreenInv /\ OtherTypes /\ [Next]_vars => OtherTypes'
    BY OtherNext
<1>3. EditTypes /\ ErrorsInv /\ ScreenInv /\ OtherTypes => TypeOK
    BY DEF EditTypes, ErrorsInv, ScreenInv, OtherTypes, TypeOK, Letters
<1> QED
    BY <1>1, <1>2, <1>3, ScreenInvariant, PTL DEF Spec
=============================================================================
