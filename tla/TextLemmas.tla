----------------------------- MODULE TextLemmas -----------------------------
(***************************************************************************)
(* What several proofs need of sequences and texts: slices of a sequence,  *)
(* also one behind the other, least numbers, and that the modes of         *)
(* CommandText are what their recursion says.                              *)
(***************************************************************************)
EXTENDS CommandText, Integers, SequencesExt, SequenceTheorems,
        WellFoundedInduction, TLAPS

-----------------------------------------------------------------------------
(* Sequences.                                                              *)

LEMMA SliceFacts ==
    ASSUME NEW T, NEW s \in Seq(T), NEW a \in Nat \ {0}, NEW b \in Nat, b <= Len(s),
           a <= b + 1
    PROVE  /\ SubSeq(s, a, b) \in Seq(T)
           /\ Len(SubSeq(s, a, b)) = b - a + 1
           /\ \A k \in 1..(b - a + 1) : SubSeq(s, a, b)[k] = s[a + k - 1]
OBVIOUS

LEMMA ConcatFacts ==
    ASSUME NEW T, NEW r \in Seq(T), NEW s \in Seq(T)
    PROVE  r \o s \in Seq(T) /\ Len(r \o s) = Len(r) + Len(s)
OBVIOUS

LEMMA AppendFacts ==
    ASSUME NEW T, NEW s \in Seq(T), NEW x \in T
    PROVE  /\ Append(s, x) \in Seq(T)
           /\ Len(Append(s, x)) = Len(s) + 1
           /\ \A k \in 1..Len(s) : Append(s, x)[k] = s[k]
           /\ Append(s, x)[Len(s) + 1] = x
OBVIOUS

\* Slices that meet are one slice.
LEMMA SliceJoin ==
    ASSUME NEW T, NEW s \in Seq(T), NEW a \in Nat \ {0}, NEW b \in Nat, NEW c \in Nat,
           a <= b + 1, b <= c, c <= Len(s)
    PROVE  SubSeq(s, a, b) \o SubSeq(s, b + 1, c) = SubSeq(s, a, c)
<1>1. a \in 1..(Len(s) + 1) /\ b \in (a - 1)..Len(s) /\ c \in b..Len(s)
    OBVIOUS
<1> QED
    BY <1>1, ConcatAdjacentSubSeq

-----------------------------------------------------------------------------
(* A set of numbers has a least one.  What a recursive function is at each  *)
(* number is shown at the least where it could be something else.           *)

LEMMA LeastNat ==
    ASSUME NEW S, S \subseteq Nat, S # {}
    PROVE  \E x \in S : \A y \in S : x <= y
<1>1. PICK x \in S : \A y \in S : <<y, x>> \notin OpToRel(<, Nat)
    BY NatLessThanWellFounded, WFMin
<1>2. \A y \in S : ~(y < x)
    BY <1>1 DEF OpToRel
<1>3. \A y \in S : x <= y
    BY <1>2
<1> QED
    BY <1>3

\* Slices that each begin where the one before ends, flattened, are one slice.
LEMMA FlattenSlices ==
    ASSUME NEW T, NEW C \in Seq(T), NEW m \in Nat, NEW b \in [0..m -> Nat],
           \A n \in 1..m : b[n - 1] <= b[n], \A n \in 0..m : b[n] <= Len(C)
    PROVE  FlattenSeq([n \in 1..m |-> SubSeq(C, b[n - 1] + 1, b[n])])
              = SubSeq(C, b[0] + 1, b[m])
<1> DEFINE part(n) == SubSeq(C, b[n - 1] + 1, b[n])
           upTo(n) == SubSeq(C, b[0] + 1, b[n])
           seqs == [n \in 1..m |-> part(n)]
           IsFlat(f) == f = [n \in 1..m |-> IF n = 1 THEN seqs[n] ELSE f[n - 1] \o seqs[n]]
           flat == CHOOSE f : IsFlat(f)
<1>1. \A n \in 0..m : b[n] \in Nat /\ b[0] <= b[n]
    <2> DEFINE Low == {n \in 0..m : ~(b[0] <= b[n])}
    <2>1. ASSUME Low # {} PROVE FALSE
        <3>1. PICK n \in Low : \A k \in Low : n <= k
            <4>1. Low \subseteq Nat
                OBVIOUS
            <4> HIDE DEF Low
            <4> QED
                BY <2>1, <4>1, LeastNat
        <3>2. n # 0 /\ n \in 1..m /\ n - 1 \in 0..m /\ ~(n <= n - 1)
            OBVIOUS
        <3>3. b[0] <= b[n - 1]
            BY <3>1, <3>2
        <3>4. b[n - 1] <= b[n] /\ b[n] \in Nat /\ b[n - 1] \in Nat /\ b[0] \in Nat
            BY <3>2
        <3> QED
            BY <3>3, <3>4
    <2> QED
        BY <2>1
<1>2. \A n \in 1..m : n # 1 => upTo(n - 1) \o part(n) = upTo(n)
    <2> SUFFICES ASSUME NEW n \in 1..m, n # 1 PROVE upTo(n - 1) \o part(n) = upTo(n)
        OBVIOUS
    <2>1. n - 1 \in 0..m /\ n \in 0..m /\ 0 \in 0..m
        OBVIOUS
    <2> DEFINE x == b[0]
               y == b[n - 1]
               z == b[n]
    <2>2. x \in Nat /\ y \in Nat /\ z \in Nat /\ x <= y /\ y <= z /\ z <= Len(C)
        BY <1>1, <2>1
    <2> HIDE DEF x, y, z
    <2>3. x + 1 \in Nat \ {0} /\ x + 1 <= y + 1
        BY <2>2
    <2>4. SubSeq(C, x + 1, y) \o SubSeq(C, y + 1, z) = SubSeq(C, x + 1, z)
        BY <2>2, <2>3, SliceJoin
    <2> QED
        BY <2>4 DEF x, y, z
<1>3. m # 0 => upTo(1) = part(1)
    OBVIOUS
<1>4. \A n \in 1..m : seqs[n] = part(n)
    OBVIOUS
<1>5. Len(seqs) = m
    OBVIOUS
<1>6. CASE m = 0
    <2>1. seqs = <<>>
        BY <1>6
    <2>2. FlattenSeq(seqs) = seqs
        BY <1>5, <1>6 DEF FlattenSeq
    <2>3. SubSeq(C, b[0] + 1, b[0]) = <<>>
        <3>1. b[0] \in Nat
            BY <1>6
        <3> QED
            BY <3>1, SubSeqEmpty
    <2> QED
        BY <1>6, <2>1, <2>2, <2>3
<1>7. CASE m # 0
    <2>1. FlattenSeq(seqs) = flat[m]
        <3> HIDE DEF seqs
        <3> QED
            BY <1>5, <1>7 DEF FlattenSeq
    <2> HIDE DEF part, upTo, seqs
    <2>2. IsFlat([n \in 1..m |-> upTo(n)])
        <3> DEFINE g == [n \in 1..m |-> upTo(n)]
                   h == [n \in 1..m |-> IF n = 1 THEN seqs[n] ELSE g[n - 1] \o seqs[n]]
        <3>1. \A n \in 1..m : n # 1 => n - 1 \in 1..m
            OBVIOUS
        <3>2. \A n \in 1..m : n # 1 => g[n - 1] = upTo(n - 1)
            BY <3>1
        <3>3. \A n \in 1..m :
                 upTo(n) = IF n = 1 THEN seqs[n] ELSE g[n - 1] \o seqs[n]
            BY <1>2, <1>3, <1>4, <1>7, <3>2
        <3>4. g = h
            BY <3>3
        <3> QED
            BY <3>4
    <2>3. IsFlat(flat)
        BY <2>2
    <2> HIDE DEF flat
    <2>4. \A n \in 1..m : flat[n] = IF n = 1 THEN seqs[n] ELSE flat[n - 1] \o seqs[n]
        BY <2>3
    <2> HIDE DEF IsFlat
    <2> DEFINE Other == {n \in 1..m : flat[n] # upTo(n)}
    <2>5. ASSUME Other # {} PROVE FALSE
        <3>1. PICK n \in Other : \A k \in Other : n <= k
            <4>1. Other \subseteq Nat
                OBVIOUS
            <4> HIDE DEF Other
            <4> QED
                BY <2>5, <4>1, LeastNat
        <3>2. CASE n = 1
            BY <1>3, <1>4, <1>7, <2>4, <3>2
        <3>3. CASE n # 1
            <4>1. n - 1 \in 1..m /\ ~(n <= n - 1)
                BY <3>3
            <4>2. flat[n - 1] = upTo(n - 1)
                BY <3>1, <4>1
            <4> QED
                BY <1>2, <1>4, <2>4, <3>3, <4>2
        <3> QED
            BY <3>2, <3>3
    <2>6. flat[m] = upTo(m)
        BY SMTT(30), <1>7, <2>5
    <2> QED
        BY <2>1, <2>6 DEF upTo, seqs, part
<1> QED
    BY <1>6, <1>7

-----------------------------------------------------------------------------
(* Modes is what its recursion says.                                       *)

\* w is the modes after the first characters of the text, as far as n.
AreModes(w, text, n) ==
    w = [k \in 0..n |-> IF k = 0 THEN "plain" ELSE NextMode(w[k - 1], text[k])]

LEMMA ModesUpTo ==
    ASSUME NEW text, NEW n \in Nat
    PROVE  \E w : AreModes(w, text, n)
<1> DEFINE S == {m \in Nat : ~\E w : AreModes(w, text, m)}
<1>1. ASSUME S # {} PROVE FALSE
    <2>1. PICK m \in S : \A y \in S : m <= y
        <3>1. S \subseteq Nat
            OBVIOUS
        <3> HIDE DEF S
        <3> QED
            BY <1>1, <3>1, LeastNat
    <2>2. CASE m = 0
        <3> DEFINE v == [k \in 0..0 |-> "plain"]
        <3>1. AreModes(v, text, 0)
            BY DEF AreModes
        <3> QED
            BY <2>1, <2>2, <3>1
    <2>3. CASE m # 0
        <3>1. m - 1 \in Nat /\ ~(m <= m - 1)
            BY <2>1, <2>3
        <3>2. PICK w : AreModes(w, text, m - 1)
            BY <2>1, <3>1
        <3> DEFINE v == [k \in 0..m |-> IF k = m THEN NextMode(w[m - 1], text[m]) ELSE w[k]]
                   u == [k \in 0..m |-> IF k = 0 THEN "plain"
                                        ELSE NextMode(v[k - 1], text[k])]
        <3>3. \A k \in 0..m : k # 0 => k - 1 \in 0..(m - 1) /\ k - 1 \in 0..m /\ k - 1 # m
            BY <2>1
        <3>4. \A k \in 0..m : k # m => k \in 0..(m - 1)
            BY <2>1
        <3>5. \A k \in 0..(m - 1) :
                 w[k] = IF k = 0 THEN "plain" ELSE NextMode(w[k - 1], text[k])
            BY <3>2 DEF AreModes
        <3>6. \A k \in 0..m : v[k] = u[k]
            <4> SUFFICES ASSUME NEW k \in 0..m PROVE v[k] = u[k]
                OBVIOUS
            <4>1. k # 0 => v[k - 1] = w[k - 1]
                BY <3>3
            <4>2. CASE k = 0
                BY <2>3, <3>4, <3>5, <4>2
            <4>3. CASE k # 0 /\ k = m
                BY <4>1, <4>3
            <4>4. CASE k # 0 /\ k # m
                BY <3>4, <3>5, <4>1, <4>4
            <4> QED
                BY <4>2, <4>3, <4>4
        <3>7. v = u
            <4>1. v = [k \in 0..m |-> v[k]] /\ u = [k \in 0..m |-> u[k]]
                OBVIOUS
            <4> QED
                BY <3>6
        <3>8. AreModes(v, text, m)
            BY <3>7 DEF AreModes
        <3> QED
            BY <2>1, <3>8
    <2> QED
        BY <2>2, <2>3
<1> QED
    BY <1>1

LEMMA ModesFacts ==
    ASSUME NEW T, NEW text \in Seq(T)
    PROVE  /\ Modes(text)[0] = "plain"
           /\ \A k \in 1..Len(text) :
                 Modes(text)[k] = NextMode(Modes(text)[k - 1], text[k])
<1> DEFINE n == Len(text)
           w == CHOOSE v : AreModes(v, text, n)
<1>1. n \in Nat
    OBVIOUS
<1>2. Modes(text) = w
    BY DEF Modes, AreModes
<1> HIDE DEF n
<1>3. AreModes(w, text, n)
    BY <1>1, ModesUpTo
<1> HIDE DEF w
<1>4. \A k \in 0..n : w[k] = IF k = 0 THEN "plain" ELSE NextMode(w[k - 1], text[k])
    BY <1>3 DEF AreModes
<1>5. w[0] = "plain" /\ \A k \in 1..n : w[k] = NextMode(w[k - 1], text[k])
    BY <1>1, <1>4
<1> QED
    BY <1>2, <1>5 DEF n
=============================================================================
