--------------------------- MODULE TL1ParserProofs ---------------------------
(***************************************************************************)
(* Proofs about TL1Parser for any text in which a command ends.            *)
(***************************************************************************)
EXTENDS TL1Parser, TextLemmas

-----------------------------------------------------------------------------
(* Operators.                                                              *)

Comma == ","

LEMMA OperatorsAre ==
    /\ DOMAIN Operators = 1..17
    /\ Operators[1] = [code |-> "RANGE_COMP", str |-> <<"&", "&", "-">>]
    /\ Operators[2] = [code |-> "RANGE", str |-> <<"&", "&">>]
    /\ Operators[3] = [code |-> "GROUP_COMP", str |-> <<"&", "-">>]
    /\ Operators[4] = [code |-> "GROUP", str |-> <<"&">>]
    /\ Operators[5] = [code |-> "INCREMENT", str |-> <<".", "+", "+", ".">>]
    /\ Operators[6] = [code |-> "COLON", str |-> <<":">>]
    /\ Operators[7] = [code |-> "SEMICOLON", str |-> <<Semicolon>>]
    /\ Operators[8] = [code |-> "COMMA", str |-> <<Comma>>]
    /\ Operators[9] = [code |-> "EQUAL", str |-> <<"=">>]
    /\ Operators[10] = [code |-> "STAR", str |-> <<"*">>]
    /\ Operators[11] = [code |-> "HASH", str |-> <<"#">>]
    /\ Operators[12] = [code |-> "PLUS", str |-> <<"+">>]
    /\ Operators[13] = [code |-> "MINUS", str |-> <<"-">>]
    /\ Operators[14] = [code |-> "PERCENT", str |-> <<"%">>]
    /\ Operators[15] = [code |-> "BRACKET_OPEN", str |-> <<"(">>]
    /\ Operators[16] = [code |-> "BRACKET_CLOSE", str |-> <<")">>]
    /\ Operators[17] = [code |-> "DOT", str |-> <<".">>]
BY DEF Operators, Comma, Semicolon

LEMMA OperatorParts ==
    /\ Operators[1].code = "RANGE_COMP" /\ Operators[1].str = <<"&", "&", "-">>
    /\ Operators[2].code = "RANGE" /\ Operators[2].str = <<"&", "&">>
    /\ Operators[3].code = "GROUP_COMP" /\ Operators[3].str = <<"&", "-">>
    /\ Operators[4].code = "GROUP" /\ Operators[4].str = <<"&">>
    /\ Operators[5].code = "INCREMENT" /\ Operators[5].str = <<".", "+", "+", ".">>
    /\ Operators[6].code = "COLON" /\ Operators[6].str = <<":">>
    /\ Operators[7].code = "SEMICOLON" /\ Operators[7].str = <<Semicolon>>
    /\ Operators[8].code = "COMMA" /\ Operators[8].str = <<Comma>>
    /\ Operators[9].code = "EQUAL" /\ Operators[9].str = <<"=">>
    /\ Operators[10].code = "STAR" /\ Operators[10].str = <<"*">>
    /\ Operators[11].code = "HASH" /\ Operators[11].str = <<"#">>
    /\ Operators[12].code = "PLUS" /\ Operators[12].str = <<"+">>
    /\ Operators[13].code = "MINUS" /\ Operators[13].str = <<"-">>
    /\ Operators[14].code = "PERCENT" /\ Operators[14].str = <<"%">>
    /\ Operators[15].code = "BRACKET_OPEN" /\ Operators[15].str = <<"(">>
    /\ Operators[16].code = "BRACKET_CLOSE" /\ Operators[16].str = <<")">>
    /\ Operators[17].code = "DOT" /\ Operators[17].str = <<".">>
BY OperatorsAre

\* No operator has a quote, and only the semicolon has a semicolon.
LEMMA OrdinaryChars ==
    \A char \in {"&", "-", ".", "+", ":", Comma, "=", "*", "#", "%", "(", ")"} :
       char # Quote /\ char # Semicolon
BY Zenon DEF Comma, Quote, Semicolon

IsOperator(code, str) ==
    /\ Len(str) \in 1..4
    /\ \A c \in 1..Len(str) :
          str[c] # Quote /\ (str[c] = Semicolon => code = "SEMICOLON")
    /\ code = "SEMICOLON" => str = <<Semicolon>>
    /\ code \notin {"EOF", "EMPTY", "LITERAL"}

LEMMA OneToFour ==
    ASSUME NEW n \in 1..4, NEW c \in 1..n
    PROVE  c = 1 \/ c = 2 \/ c = 3 \/ c = 4
OBVIOUS

Ordinary(str) ==
    /\ Len(str) \in 1..4
    /\ str[1] # Quote /\ str[1] # Semicolon
    /\ Len(str) > 1 => str[2] # Quote /\ str[2] # Semicolon
    /\ Len(str) > 2 => str[3] # Quote /\ str[3] # Semicolon
    /\ Len(str) > 3 => str[4] # Quote /\ str[4] # Semicolon

LEMMA OrdinaryIsOperator ==
    ASSUME NEW code, code \notin {"EOF", "EMPTY", "LITERAL", "SEMICOLON"},
           NEW str, Ordinary(str)
    PROVE  IsOperator(code, str)
<1>0. Len(str) \in 1..4
    BY DEF Ordinary
<1>1. ASSUME NEW c \in 1..Len(str) PROVE str[c] # Quote /\ str[c] # Semicolon
    <2>1. c = 1 \/ c = 2 \/ c = 3 \/ c = 4
        BY <1>0, OneToFour
    <2>2. CASE c = 1
        BY <2>2 DEF Ordinary
    <2>3. CASE c = 2
        BY <1>0, <2>3 DEF Ordinary
    <2>4. CASE c = 3
        BY <1>0, <2>4 DEF Ordinary
    <2>5. CASE c = 4
        BY <1>0, <2>5 DEF Ordinary
    <2> QED
        BY <2>1, <2>2, <2>3, <2>4, <2>5
<1> QED
    BY <1>0, <1>1 DEF IsOperator

\* An operator has no quotation mark, and a semicolon only if it is the semicolon.
LEMMA OperatorFacts ==
    \A k \in 1..17 : IsOperator(Operators[k].code, Operators[k].str)
<1> SUFFICES ASSUME NEW k \in 1..17
             PROVE  IsOperator(Operators[k].code, Operators[k].str)
    OBVIOUS
<1>0. ASSUME Operators[k].code \notin {"EOF", "EMPTY", "LITERAL", "SEMICOLON"},
             Ordinary(Operators[k].str)
      PROVE  IsOperator(Operators[k].code, Operators[k].str)
    BY <1>0, OrdinaryIsOperator
<1>1. CASE k = 1
    BY <1>0, <1>1, OperatorParts, OrdinaryChars DEF Ordinary
<1>2. CASE k = 2
    BY <1>0, <1>2, OperatorParts, OrdinaryChars DEF Ordinary
<1>3. CASE k = 3
    BY <1>0, <1>3, OperatorParts, OrdinaryChars DEF Ordinary
<1>4. CASE k = 4
    BY <1>0, <1>4, OperatorParts, OrdinaryChars DEF Ordinary
<1>5. CASE k = 5
    BY <1>0, <1>5, OperatorParts, OrdinaryChars DEF Ordinary
<1>6. CASE k = 6
    BY <1>0, <1>6, OperatorParts, OrdinaryChars DEF Ordinary
<1>7. CASE k = 7
    <2>1. Operators[k].code = "SEMICOLON" /\ Operators[k].str = <<Semicolon>>
        BY <1>7, OperatorParts
    <2>2. \A c \in 1..1 : c = 1
        OBVIOUS
    <2>3. Semicolon # Quote
        BY Zenon DEF Semicolon, Quote
    <2> QED
        BY <2>1, <2>2, <2>3 DEF IsOperator
<1>8. CASE k = 8
    BY <1>0, <1>8, OperatorParts, OrdinaryChars DEF Ordinary
<1>9. CASE k = 9
    BY <1>0, <1>9, OperatorParts, OrdinaryChars DEF Ordinary
<1>10. CASE k = 10
    BY <1>0, <1>10, OperatorParts, OrdinaryChars DEF Ordinary
<1>11. CASE k = 11
    BY <1>0, <1>11, OperatorParts, OrdinaryChars DEF Ordinary
<1>12. CASE k = 12
    BY <1>0, <1>12, OperatorParts, OrdinaryChars DEF Ordinary
<1>13. CASE k = 13
    BY <1>0, <1>13, OperatorParts, OrdinaryChars DEF Ordinary
<1>14. CASE k = 14
    BY <1>0, <1>14, OperatorParts, OrdinaryChars DEF Ordinary
<1>15. CASE k = 15
    BY <1>0, <1>15, OperatorParts, OrdinaryChars DEF Ordinary
<1>16. CASE k = 16
    BY <1>0, <1>16, OperatorParts, OrdinaryChars DEF Ordinary
<1>17. CASE k = 17
    BY <1>0, <1>17, OperatorParts, OrdinaryChars DEF Ordinary
<1> QED
    BY <1>1, <1>2, <1>3, <1>4, <1>5, <1>6, <1>7, <1>8, <1>9, <1>10, <1>11, <1>12, <1>13, <1>14, <1>15, <1>16, <1>17

\* No two operators have the same code.
LEMMA CodesDiffer ==
    \A j, k \in 1..17 : Operators[j].code = Operators[k].code => j = k
<1> DEFINE place(code) == IF code = "RANGE_COMP" THEN 1
                          ELSE IF code = "RANGE" THEN 2
                          ELSE IF code = "GROUP_COMP" THEN 3
                          ELSE IF code = "GROUP" THEN 4
                          ELSE IF code = "INCREMENT" THEN 5
                          ELSE IF code = "COLON" THEN 6
                          ELSE IF code = "SEMICOLON" THEN 7
                          ELSE IF code = "COMMA" THEN 8
                          ELSE IF code = "EQUAL" THEN 9
                          ELSE IF code = "STAR" THEN 10
                          ELSE IF code = "HASH" THEN 11
                          ELSE IF code = "PLUS" THEN 12
                          ELSE IF code = "MINUS" THEN 13
                          ELSE IF code = "PERCENT" THEN 14
                          ELSE IF code = "BRACKET_OPEN" THEN 15
                          ELSE IF code = "BRACKET_CLOSE" THEN 16
                          ELSE IF code = "DOT" THEN 17
                          ELSE 0
<1>0. \A k \in 1..17 : place(Operators[k].code) = k
    <2> SUFFICES ASSUME NEW k \in 1..17 PROVE place(Operators[k].code) = k
        OBVIOUS
    <2>1. CASE k = 1
        BY <2>1, OperatorParts
    <2>2. CASE k = 2
        BY <2>2, OperatorParts
    <2>3. CASE k = 3
        BY <2>3, OperatorParts
    <2>4. CASE k = 4
        BY <2>4, OperatorParts
    <2>5. CASE k = 5
        BY <2>5, OperatorParts
    <2>6. CASE k = 6
        BY <2>6, OperatorParts
    <2>7. CASE k = 7
        BY <2>7, OperatorParts
    <2>8. CASE k = 8
        BY <2>8, OperatorParts
    <2>9. CASE k = 9
        BY <2>9, OperatorParts
    <2>10. CASE k = 10
        BY <2>10, OperatorParts
    <2>11. CASE k = 11
        BY <2>11, OperatorParts
    <2>12. CASE k = 12
        BY <2>12, OperatorParts
    <2>13. CASE k = 13
        BY <2>13, OperatorParts
    <2>14. CASE k = 14
        BY <2>14, OperatorParts
    <2>15. CASE k = 15
        BY <2>15, OperatorParts
    <2>16. CASE k = 16
        BY <2>16, OperatorParts
    <2>17. CASE k = 17
        BY SMTT(30), <2>17, OperatorParts
    <2> QED
        BY <2>1, <2>2, <2>3, <2>4, <2>5, <2>6, <2>7, <2>8, <2>9, <2>10, <2>11, <2>12, <2>13, <2>14, <2>15, <2>16, <2>17
<1> HIDE DEF place
<1> QED
    BY <1>0

-----------------------------------------------------------------------------
(* Tokens.                                                                 *)

Token == [code : TokenCodes, str : Seq(Chars), pos : Nat]

LEMMA CodesAre ==
    /\ \A code \in OperatorCodes : /\ \E k \in 1..17 : code = Operators[k].code
                                   /\ code \notin {"EOF", "EMPTY", "LITERAL"}
    /\ \A k \in 1..17 : Operators[k].code \in OperatorCodes
<1>1. OperatorCodes = {Operators[k].code : k \in 1..17}
    BY OperatorsAre DEF OperatorCodes
<1> QED
    BY <1>1, OperatorFacts DEF IsOperator

\* So TokenText finds the characters that were read.
LEMMA TextOfOperator ==
    ASSUME NEW token, NEW k \in 1..17, token.code = Operators[k].code
    PROVE  TokenText(token) = Operators[k].str
<1> DEFINE Same(n) == Operators[n].code = token.code
           first == CHOOSE n \in 1..17 : Same(n)
<1>1. first \in 1..17 /\ Same(first)
    OBVIOUS
<1>2. first = k
    BY <1>1, CodesDiffer
<1>3. TokenText(token) = Operators[first].str
    <2>1. DOMAIN Operators = 1..17
        BY OperatorsAre
    <2>2. token.code \in OperatorCodes
        BY CodesAre
    <2> QED
        BY <2>1, <2>2 DEF TokenText
<1> QED
    BY <1>2, <1>3

LEMMA TextOfWord ==
    ASSUME NEW token, token.code \in {"EOF", "EMPTY", "LITERAL"}
    PROVE  TokenText(token) = token.str
BY CodesAre DEF TokenText

\* Words and operators alternate, and token k lies between the cuts k - 1 and k.
IsWord(token) == token.code = IF token.str = <<>> THEN "EMPTY" ELSE "LITERAL"

IsCut(token, str, from, to) ==
    /\ token.pos = from /\ from <= to
    /\ TokenText(token) = SubSeq(str, from + 1, to)

Tiled(v, str, cut) ==
    /\ cut \in [0..Len(v) -> 0..Len(str)] /\ cut[0] = 0
    /\ \A k \in 1..Len(v) :
          /\ IsCut(v[k], str, cut[k - 1], cut[k])
          /\ k % 2 = 1 => IsWord(v[k])
          /\ k % 2 = 0 => v[k].code \in OperatorCodes \union {"EOF"} /\ v[k].str = <<>>

LEMMA AppendTwo ==
    ASSUME NEW T, NEW v \in Seq(T), NEW a \in T, NEW b \in T
    PROVE  /\ v \o <<a, b>> \in Seq(T) /\ Len(v \o <<a, b>>) = Len(v) + 2
           /\ \A k \in 1..Len(v) : (v \o <<a, b>>)[k] = v[k]
           /\ (v \o <<a, b>>)[Len(v) + 1] = a
           /\ (v \o <<a, b>>)[Len(v) + 2] = b
OBVIOUS

LEMMA Parity ==
    ASSUME NEW n \in Nat, n % 2 = 0
    PROVE  (n + 1) % 2 = 1 /\ (n + 2) % 2 = 0
OBVIOUS

\* A word and an operator behind tokens that tile a text.
LEMMA TwoMore ==
    ASSUME NEW str \in Seq(Chars), NEW v \in Seq(Token), NEW cut, Tiled(v, str, cut),
           Len(v) % 2 = 0, NEW p \in 0..Len(str), NEW q \in 0..Len(str),
           NEW a \in Token, IsWord(a), IsCut(a, str, cut[Len(v)], p),
           NEW b \in Token, b.code \in OperatorCodes \union {"EOF"}, b.str = <<>>,
           IsCut(b, str, p, q)
    PROVE  \E c : Tiled(v \o <<a, b>>, str, c) /\ c[Len(v) + 2] = q
<1> DEFINE n == Len(v)
           w == v \o <<a, b>>
           c == [k \in 0..(n + 2) |-> IF k <= n THEN cut[k] ELSE IF k = n + 1 THEN p ELSE q]
<1>1. n \in Nat /\ n % 2 = 0 /\ cut \in [0..n -> 0..Len(str)] /\ cut[0] = 0
    BY DEF Tiled
<1>2. /\ Len(w) = n + 2
      /\ \A k \in 1..n : w[k] = v[k]
      /\ w[n + 1] = a /\ w[n + 2] = b
    BY AppendTwo
<1>3. \A k \in 1..n : /\ IsCut(v[k], str, cut[k - 1], cut[k])
                      /\ k % 2 = 1 => IsWord(v[k])
                      /\ k % 2 = 0 => /\ v[k].code \in OperatorCodes \union {"EOF"}
                                      /\ v[k].str = <<>>
    BY DEF Tiled
<1>4. IsCut(a, str, cut[n], p)
    OBVIOUS
<1> HIDE DEF n, w
<1>5. c \in [0..(n + 2) -> 0..Len(str)] /\ c[0] = 0
    BY <1>1
<1>6. /\ \A k \in 0..n : c[k] = cut[k]
      /\ c[n + 1] = p /\ c[n + 2] = q
    BY <1>1
<1> HIDE DEF c
<1>7. ASSUME NEW k \in 1..(n + 2)
      PROVE  /\ IsCut(w[k], str, c[k - 1], c[k])
             /\ k % 2 = 1 => IsWord(w[k])
             /\ k % 2 = 0 => /\ w[k].code \in OperatorCodes \union {"EOF"}
                             /\ w[k].str = <<>>
    <2>1. CASE k \in 1..n
        <3>1. k - 1 \in 0..n /\ k \in 0..n
            BY <1>1, <2>1
        <3> QED
            BY <1>2, <1>3, <1>6, <2>1, <3>1
    <2>2. CASE k = n + 1
        <3>1. k - 1 = n /\ n \in 0..n /\ k % 2 = 1 /\ k % 2 # 0
            BY <1>1, <2>2, Parity
        <3>2. w[k] = a /\ c[k - 1] = cut[n] /\ c[k] = p
            BY <1>2, <1>6, <2>2, <3>1
        <3> QED
            <4>1. IsCut(w[k], str, c[k - 1], c[k])
                BY <1>4, <3>2
            <4>2. IsWord(w[k])
                BY <3>2
            <4> QED
                BY <3>1, <4>1, <4>2
    <2>3. CASE k = n + 2
        <3>1. k - 1 = n + 1 /\ k % 2 = 0
            BY <1>1, <2>3, Parity
        <3> QED
            BY <1>2, <1>6, <2>3, <3>1
    <2> QED
        BY <1>1, <2>1, <2>2, <2>3
<1>8. Tiled(w, str, c)
    BY <1>2, <1>5, <1>7 DEF Tiled
<1> QED
    BY <1>6, <1>8 DEF n, w

LEMMA WordFacts ==
    ASSUME NEW str \in Seq(Chars), NEW from \in 0..Len(str), NEW to \in 0..Len(str),
           from <= to
    PROVE  LET word == putTokenS(str, from, to)
           IN  word \in Token /\ IsWord(word) /\ IsCut(word, str, from, to)
<1> DEFINE word == putTokenS(str, from, to)
           part == SubSeq(str, from + 1, to)
<1>1. from \in Nat /\ to \in Nat /\ from + 1 \in Nat \ {0} /\ from + 1 <= to + 1
      /\ to <= Len(str)
    OBVIOUS
<1>2. part \in Seq(Chars) /\ Len(part) = to - from
    BY <1>1, SliceFacts
<1> HIDE DEF part
<1>3. CASE from = to
    <2>1. word = [code |-> "EMPTY", str |-> <<>>, pos |-> from]
        BY <1>3 DEF putTokenS, putToken
    <2> HIDE DEF word
    <2>2. word.code = "EMPTY" /\ word.str = <<>> /\ word.pos = from
        BY <2>1
    <2>3. "EMPTY" \in TokenCodes /\ <<>> \in Seq(Chars)
        BY Zenon, EmptySeq DEF TokenCodes
    <2>4. word \in Token
        BY <1>1, <2>1, <2>3 DEF Token
    <2>5. part = <<>>
        BY <1>1, <1>2, <1>3
    <2>6. TokenText(word) = <<>>
        BY <2>2, TextOfWord
    <2> QED
        BY <1>1, <2>2, <2>4, <2>5, <2>6 DEF IsWord, IsCut, part, word
<1>4. CASE from # to
    <2>1. word = [code |-> "LITERAL", str |-> part, pos |-> from]
        BY <1>4 DEF putTokenS, part
    <2> HIDE DEF word
    <2>2. word.code = "LITERAL" /\ word.str = part /\ word.pos = from
        BY <2>1
    <2>3. "LITERAL" \in TokenCodes
        BY Zenon DEF TokenCodes
    <2>4. word \in Token
        BY <1>1, <1>2, <2>1, <2>3 DEF Token
    <2>5. part # <<>>
        BY <1>1, <1>2, <1>4
    <2>6. TokenText(word) = part
        BY <2>2, TextOfWord
    <2> QED
        BY <1>1, <2>2, <2>4, <2>5, <2>6 DEF IsWord, IsCut, part, word
<1> QED
    BY <1>3, <1>4

-----------------------------------------------------------------------------
(* The tokenizer.                                                          *)

\* What an operator that is read at a place is, and what an empty choice says.
LEMMA FirstFacts ==
    ASSUME NEW str \in Seq(Chars), NEW n \in 0..(Len(str) - 1), OperatorsAt(str, n) # {}
    PROVE  LET op == FirstOperator(str, n)
           IN  /\ op.code \in OperatorCodes /\ Len(op.str) \in 1..4
               /\ n + Len(op.str) <= Len(str)
               /\ \A c \in (n + 1)..(n + Len(op.str)) :
                     /\ str[c] # Quote
                     /\ str[c] = Semicolon => op.code = "SEMICOLON"
               /\ op.code = "SEMICOLON" => Len(op.str) = 1 /\ str[n + 1] = Semicolon
               /\ LET token == putToken(op.code, n)
                  IN  /\ token \in Token /\ token.code = op.code /\ token.str = <<>>
                      /\ token.pos = n
                      /\ IsCut(token, str, n, n + Len(op.str))
<1> DEFINE Least(k) == \A j \in OperatorsAt(str, n) : k <= j
           first == CHOOSE k \in OperatorsAt(str, n) : Least(k)
           op == FirstOperator(str, n)
           token == putToken(op.code, n)
<1>1. OperatorsAt(str, n) \subseteq 1..17
    BY OperatorsAre DEF OperatorsAt
<1>2. \E k \in OperatorsAt(str, n) : Least(k)
    <2>1. OperatorsAt(str, n) \subseteq Nat
        BY <1>1
    <2> QED
        BY <2>1, LeastNat
<1>3. first \in OperatorsAt(str, n)
    BY <1>2
<1>4. op = Operators[first]
    BY DEF FirstOperator
<1> HIDE DEF first
<1>5. PICK k \in 1..17 : k = first
    BY <1>1, <1>3
<1> DEFINE code == Operators[k].code
           image == Operators[k].str
<1>6. op.code = code /\ op.str = image
    BY <1>4, <1>5
<1> HIDE DEF op
<1>7. n + Len(image) <= Len(str) /\ SubSeq(str, n + 1, n + Len(image)) = image
    BY <1>3, <1>5 DEF OperatorsAt, check_sequence
<1>8. IsOperator(code, image)
    BY OperatorFacts
<1>9. code \in OperatorCodes
    BY CodesAre
<1>10. token.code = code /\ token.str = <<>> /\ token.pos = n
    BY <1>6 DEF putToken
<1>11. TokenText(token) = image
    BY <1>10, TextOfOperator
<1>12. token \in Token
    <2>1. code \in TokenCodes /\ <<>> \in Seq(Chars)
        BY <1>9, EmptySeq DEF TokenCodes
    <2>2. token = [code |-> code, str |-> <<>>, pos |-> n]
        BY <1>6 DEF putToken
    <2> QED
        BY <2>1, <2>2 DEF Token
<1> HIDE DEF token, code, image
<1>13. Len(image) \in 1..4
    BY <1>8 DEF IsOperator
<1>14. \A c \in 1..Len(image) : str[n + c] = image[c]
    <2>1. n + 1 \in Nat \ {0} /\ n + Len(image) \in Nat /\ n + 1 <= n + Len(image) + 1
        BY <1>13
    <2>2. \A c \in 1..(n + Len(image) - (n + 1) + 1) :
             SubSeq(str, n + 1, n + Len(image))[c] = str[n + 1 + c - 1]
        BY <1>7, <2>1, SliceFacts
    <2>3. n + Len(image) - (n + 1) + 1 = Len(image)
          /\ \A c \in 1..Len(image) : n + 1 + c - 1 = n + c
        BY <1>13
    <2> QED
        BY <1>7, <2>2, <2>3
<1>15. ASSUME NEW c \in (n + 1)..(n + Len(image))
       PROVE  str[c] # Quote /\ (str[c] = Semicolon => code = "SEMICOLON")
    <2>1. c - n \in 1..Len(image) /\ n + (c - n) = c
        BY <1>13
    <2>2. str[c] = image[c - n]
        BY <1>14, <2>1
    <2> QED
        BY <1>8, <2>1, <2>2 DEF IsOperator
<1>16. code = "SEMICOLON" => Len(image) = 1 /\ str[n + 1] = Semicolon
    <2> SUFFICES ASSUME code = "SEMICOLON"
                 PROVE  Len(image) = 1 /\ str[n + 1] = Semicolon
        OBVIOUS
    <2>1. image = <<Semicolon>>
        BY <1>8 DEF IsOperator
    <2>2. Len(image) = 1 /\ image[1] = Semicolon
        BY <2>1
    <2> QED
        BY <1>14, <2>2
<1>17. IsCut(token, str, n, n + Len(image))
    BY <1>7, <1>10, <1>11, <1>13 DEF IsCut
<1>18. /\ op.code \in OperatorCodes /\ Len(op.str) \in 1..4
       /\ n + Len(op.str) <= Len(str)
       /\ \A c \in (n + 1)..(n + Len(op.str)) :
             str[c] # Quote /\ (str[c] = Semicolon => op.code = "SEMICOLON")
       /\ op.code = "SEMICOLON" => Len(op.str) = 1 /\ str[n + 1] = Semicolon
       /\ token \in Token /\ token.code = op.code /\ token.str = <<>> /\ token.pos = n
       /\ IsCut(token, str, n, n + Len(op.str))
    BY <1>6, <1>7, <1>9, <1>10, <1>12, <1>13, <1>15, <1>16, <1>17
<1> QED
    BY Zenon, <1>18 DEF token, op

LEMMA NoOperator ==
    ASSUME NEW str \in Seq(Chars), NEW n \in 0..(Len(str) - 1), OperatorsAt(str, n) = {}
    PROVE  str[n + 1] # Semicolon
<1> SUFFICES ASSUME str[n + 1] = Semicolon PROVE FALSE
    OBVIOUS
<1>1. 7 \in DOMAIN Operators /\ Operators[7].str = <<Semicolon>>
    BY OperatorsAre, OperatorParts
<1>2. Len(<<Semicolon>>) = 1
    OBVIOUS
<1>3. SubSeq(str, n + 1, n + 1) = <<Semicolon>>
    <2> DEFINE one == SubSeq(str, n + 1, n + 1)
    <2>1. n + 1 \in Nat \ {0} /\ n + 1 \in Nat /\ n + 1 <= Len(str) /\ n + 1 <= n + 1 + 1
          /\ n + 1 - (n + 1) + 1 = 1 /\ n + 1 + 1 - 1 = n + 1
        OBVIOUS
    <2>2. one \in Seq(Chars) /\ Len(one) = 1 /\ one[1] = str[n + 1]
        BY <2>1, SliceFacts
    <2> HIDE DEF one
    <2>3. one = <<Semicolon>>
        BY <2>2
    <2> QED
        BY <2>3 DEF one
<1>4. check_sequence(str, n, Operators[7].str)
    BY <1>1, <1>2, <1>3 DEF check_sequence
<1> QED
    BY <1>1, <1>4 DEF OperatorsAt

\* w is what the loop has found after the first characters, as far as n.
AreScans(w, str, n) ==
    w = [k \in 0..n |-> IF k = 0 THEN NotScanned ELSE ScanChar(str, w[k - 1], k - 1)]

\* Scanned is defined as far as any length: least numbers take the place of induction.
LEMMA ScansUpTo ==
    ASSUME NEW str, NEW n \in Nat
    PROVE  \E w : AreScans(w, str, n)
<1> DEFINE S == {m \in Nat : ~\E w : AreScans(w, str, m)}
<1>1. ASSUME S # {} PROVE FALSE
    <2>1. PICK m \in S : \A y \in S : m <= y
        <3>1. S \subseteq Nat
            OBVIOUS
        <3> HIDE DEF S
        <3> QED
            BY <1>1, <3>1, LeastNat
    <2>2. CASE m = 0
        <3> DEFINE v == [k \in 0..0 |-> NotScanned]
        <3>1. AreScans(v, str, 0)
            BY DEF AreScans
        <3> QED
            BY <2>1, <2>2, <3>1
    <2>3. CASE m # 0
        <3>1. m - 1 \in Nat /\ ~(m <= m - 1)
            BY <2>1, <2>3
        <3>2. PICK w : AreScans(w, str, m - 1)
            BY <2>1, <3>1
        <3> DEFINE v == [k \in 0..m |-> IF k = m THEN ScanChar(str, w[m - 1], m - 1)
                                        ELSE w[k]]
                   u == [k \in 0..m |-> IF k = 0 THEN NotScanned
                                        ELSE ScanChar(str, v[k - 1], k - 1)]
        <3>3. \A k \in 0..m : k # 0 => k - 1 \in 0..(m - 1) /\ k - 1 \in 0..m /\ k - 1 # m
            BY <2>1
        <3>4. \A k \in 0..m : k # m => k \in 0..(m - 1)
            BY <2>1
        <3>5. \A k \in 0..(m - 1) :
                 w[k] = IF k = 0 THEN NotScanned ELSE ScanChar(str, w[k - 1], k - 1)
            BY <3>2 DEF AreScans
        <3>6. \A k \in 0..m : v[k] = u[k]
            <4> SUFFICES ASSUME NEW k \in 0..m PROVE v[k] = u[k]
                OBVIOUS
            <4>1. k # 0 => v[k - 1] = w[k - 1]
                BY <3>3
            <4>2. CASE k = 0
                BY <2>3, <3>4, <3>5, <4>2
            <4>3. CASE k # 0 /\ k = m
                BY <4>1, <4>3
            <4>4. CASE k # 0 /\ k # m
                BY <3>4, <3>5, <4>1, <4>4
            <4> QED
                BY <4>2, <4>3, <4>4
        <3>7. v = u
            <4>1. v = [k \in 0..m |-> v[k]] /\ u = [k \in 0..m |-> u[k]]
                OBVIOUS
            <4> QED
                BY <3>6
        <3>8. AreScans(v, str, m)
            BY <3>7 DEF AreScans
        <3> QED
            BY <2>1, <3>8
    <2> QED
        BY <2>2, <2>3
<1> QED
    BY <1>1

\* The loop, turn by turn.
LEMMA ScannedFacts ==
    ASSUME NEW str \in Seq(Chars)
    PROVE  /\ Scanned(str)[0] = NotScanned
           /\ \A k \in 1..Len(str) :
                 Scanned(str)[k] = ScanChar(str, Scanned(str)[k - 1], k - 1)
<1> DEFINE n == Len(str)
           w == CHOOSE v : AreScans(v, str, n)
<1>1. n \in Nat
    OBVIOUS
<1>2. Scanned(str) = w
    BY DEF Scanned, AreScans
<1> HIDE DEF n
<1>3. AreScans(w, str, n)
    BY <1>1, ScansUpTo
<1> HIDE DEF w
<1>4. \A k \in 0..n : w[k] = IF k = 0 THEN NotScanned ELSE ScanChar(str, w[k - 1], k - 1)
    BY <1>3 DEF AreScans
<1>5. w[0] = NotScanned /\ \A k \in 1..n : w[k] = ScanChar(str, w[k - 1], k - 1)
    BY <1>1, <1>4
<1> QED
    BY <1>2, <1>5 DEF n

\* What the loop has found after n characters: tokens that lie one behind the
\* other as far as start, the mode of CommandText, and the ends of commands.
SameMode(state, mode) ==
    \/ state = "plain" /\ mode = "plain"
    \/ state = "quotation" /\ mode = "quoted"
    \/ state = "escape" /\ mode = "escape"

EndsAt(token, j) == token.code = "SEMICOLON" /\ token.pos + 1 = j

ScanInv(str, n, state, start, v) ==
    /\ start \in 0..Len(str) /\ v \in Seq(Token) /\ Len(v) % 2 = 0
    /\ \E cut : Tiled(v, str, cut) /\ cut[Len(v)] = start
    /\ \A k \in 1..Len(v) : v[k].code # "EOF"
    /\ SameMode(state, Modes(str)[n])
    /\ n < start => state = "plain" /\ \A c \in (n + 1)..start : str[c] # Quote
    /\ \A j \in 1..Len(str) :
          (j \in Ends(str) /\ (j <= n \/ j <= start)) <=> \E k \in 1..Len(v) : EndsAt(v[k], j)

LEMMA ScanStarts ==
    ASSUME NEW str \in Seq(Chars)
    PROVE  LET scan == NotScanned IN ScanInv(str, 0, scan.state, scan.start, scan.tokens)
<1> DEFINE v == <<>>
<1>1. v \in Seq(Token) /\ Len(v) = 0 /\ 1..0 = {}
    OBVIOUS
<1>2. Tiled(v, str, [k \in {0} |-> 0])
    BY <1>1 DEF Tiled
<1> HIDE DEF v
<1>3. Modes(str)[0] = "plain"
    BY ModesFacts
<1>4. ScanInv(str, 0, "plain", 0, v)
    BY <1>1, <1>2, <1>3 DEF ScanInv, SameMode
<1> QED
    BY <1>4 DEF NotScanned, v

LEMMA PlainStays ==
    ASSUME NEW str \in Seq(Chars), NEW n \in 0..(Len(str) - 1),
           Modes(str)[n] = "plain", str[n + 1] # Quote
    PROVE  Modes(str)[n + 1] = "plain"
<1>1. n + 1 \in 1..Len(str) /\ n + 1 - 1 = n
    OBVIOUS
<1>2. Modes(str)[n + 1] = NextMode(Modes(str)[n], str[n + 1])
    BY <1>1, ModesFacts
<1> QED
    BY Zenon, <1>2 DEF NextMode

\* In the rest of an operator the loop changes nothing.
LEMMA ScanSkips ==
    ASSUME NEW str \in Seq(Chars), NEW n \in 0..(Len(str) - 1),
           NEW state, NEW start, NEW v, ScanInv(str, n, state, start, v), n < start
    PROVE  ScanInv(str, n + 1, state, start, v)
<1>1. n + 1 \in 1..Len(str) /\ n + 1 - 1 = n /\ n + 1 <= start /\ n + 1 \in (n + 1)..start
    BY DEF ScanInv
<1>2. state = "plain" /\ Modes(str)[n] = "plain"
    BY DEF ScanInv, SameMode
<1>3. str[n + 1] # Quote
    BY <1>1 DEF ScanInv
<1>4. Modes(str)[n + 1] = "plain"
    BY <1>2, <1>3, PlainStays
<1>5. n + 1 < start => \A c \in (n + 1 + 1)..start : str[c] # Quote
    BY DEF ScanInv
<1>6. \A j \in 1..Len(str) : j <= n \/ j <= start <=> j <= n + 1 \/ j <= start
    BY <1>1 DEF ScanInv
<1> QED
    BY <1>2, <1>4, <1>5, <1>6 DEF ScanInv, SameMode

\* A quote or a character of a quotation changes the state only.
LEMMA ScanQuotes ==
    ASSUME NEW str \in Seq(Chars), NEW n \in 0..(Len(str) - 1),
           NEW state, NEW start, NEW v, ScanInv(str, n, state, start, v), n >= start,
           state # "plain" \/ str[n + 1] = Quote
    PROVE  ScanInv(str, n + 1, QuotationState(state, str[n + 1]), start, v)
<1>1. n + 1 \in 1..Len(str) /\ n + 1 - 1 = n /\ start \in Nat /\ ~(n + 1 < start)
    BY DEF ScanInv
<1>2. Modes(str)[n + 1] = NextMode(Modes(str)[n], str[n + 1])
    BY <1>1, ModesFacts
<1>3. SameMode(state, Modes(str)[n])
    BY DEF ScanInv
<1>4. SameMode(QuotationState(state, str[n + 1]), NextMode(Modes(str)[n], str[n + 1]))
    BY Zenon, <1>3 DEF SameMode, QuotationState, NextMode, Quote, Backslash
<1>5. n + 1 \notin Ends(str)
    <2>1. Semicolon # Quote
        BY Zenon DEF Semicolon, Quote
    <2>2. state # "plain" => Modes(str)[n] # "plain"
        BY <1>3 DEF SameMode
    <2> QED
        BY <1>1, <2>1, <2>2 DEF Ends
<1>6. \A j \in 1..Len(str) :
         j \in Ends(str) /\ (j <= n \/ j <= start)
            <=> j \in Ends(str) /\ (j <= n + 1 \/ j <= start)
    <2>1. \A j \in 1..Len(str) : j <= n + 1 <=> j <= n \/ j = n + 1
        OBVIOUS
    <2> QED
        BY <1>5, <2>1
<1> QED
    BY <1>1, <1>2, <1>4, <1>6 DEF ScanInv

\* A character that belongs to no operator changes nothing.
LEMMA ScanPasses ==
    ASSUME NEW str \in Seq(Chars), NEW n \in 0..(Len(str) - 1),
           NEW state, NEW start, NEW v, ScanInv(str, n, state, start, v), n >= start,
           state = "plain", str[n + 1] # Quote, OperatorsAt(str, n) = {}
    PROVE  ScanInv(str, n + 1, state, start, v)
<1>1. n + 1 \in 1..Len(str) /\ n + 1 - 1 = n /\ start \in Nat /\ ~(n + 1 < start)
    BY DEF ScanInv
<1>2. Modes(str)[n] = "plain"
    BY DEF ScanInv, SameMode
<1>3. Modes(str)[n + 1] = "plain"
    BY <1>2, PlainStays
<1>4. n + 1 \notin Ends(str)
    BY NoOperator DEF Ends
<1>5. \A j \in 1..Len(str) :
         j \in Ends(str) /\ (j <= n \/ j <= start)
            <=> j \in Ends(str) /\ (j <= n + 1 \/ j <= start)
    <2>1. \A j \in 1..Len(str) : j <= n + 1 <=> j <= n \/ j = n + 1
        OBVIOUS
    <2> QED
        BY <1>4, <2>1
<1> QED
    BY <1>1, <1>3, <1>5 DEF ScanInv, SameMode

\* An operator ends the word before it and takes the place up to its end.
LEMMA ScanOperates ==
    ASSUME NEW str \in Seq(Chars), NEW n \in 0..(Len(str) - 1),
           NEW state, NEW start, NEW v, ScanInv(str, n, state, start, v), n >= start,
           state = "plain", str[n + 1] # Quote, OperatorsAt(str, n) # {}
    PROVE  LET op == FirstOperator(str, n)
           IN  ScanInv(str, n + 1, state, n + Len(op.str),
                       v \o <<putTokenS(str, start, n), putToken(op.code, n)>>)
<1> DEFINE op == FirstOperator(str, n)
           code == op.code
           size == Len(op.str)
           word == putTokenS(str, start, n)
           token == putToken(op.code, n)
           w == v \o <<word, token>>
           m == Len(v)
<1>1. n + 1 \in 1..Len(str) /\ n + 1 - 1 = n /\ start \in 0..Len(str) /\ n \in 0..Len(str)
      /\ start <= n
    BY DEF ScanInv
<1>2. /\ code \in OperatorCodes /\ size \in 1..4 /\ n + size <= Len(str)
      /\ \A c \in (n + 1)..(n + size) :
            str[c] # Quote /\ (str[c] = Semicolon => code = "SEMICOLON")
      /\ code = "SEMICOLON" => size = 1 /\ str[n + 1] = Semicolon
      /\ token \in Token /\ token.code = code /\ token.str = <<>> /\ token.pos = n
      /\ IsCut(token, str, n, n + size)
    BY FirstFacts
<1>3. word \in Token /\ IsWord(word) /\ IsCut(word, str, start, n)
    BY <1>1, WordFacts
<1> HIDE DEF code, size, token, word
<1>4. v \in Seq(Token) /\ m \in Nat /\ m % 2 = 0
    <2>1. v \in Seq(Token) /\ Len(v) % 2 = 0
        BY Zenon DEF ScanInv
    <2>2. Len(v) \in Nat
        BY <2>1
    <2> QED
        BY <2>1, <2>2
<1>5. /\ w \in Seq(Token) /\ Len(w) = m + 2
      /\ \A k \in 1..m : w[k] = v[k]
      /\ w[m + 1] = word /\ w[m + 2] = token
    BY <1>2, <1>3, <1>4, AppendTwo
<1>6. \E c : Tiled(w, str, c) /\ c[m + 2] = n + size
    <2>1. PICK cut : Tiled(v, str, cut) /\ cut[m] = start
        BY DEF ScanInv
    <2>2. n + size \in 0..Len(str)
        BY <1>1, <1>2
    <2>3. token.code \in OperatorCodes \union {"EOF"}
        BY <1>2
    <2> QED
        BY SMTT(30), <1>1, <1>2, <1>3, <1>4, <2>1, <2>2, <2>3, TwoMore
<1>7. word.code \in {"EMPTY", "LITERAL"}
    BY <1>3 DEF IsWord
<1>8. code \notin {"EOF", "EMPTY", "LITERAL"}
    BY <1>2, CodesAre
<1> HIDE DEF w, m
<1>9. \A k \in 1..(m + 2) : k \in 1..m \/ k = m + 1 \/ k = m + 2
    BY <1>4
<1>10. \A k \in 1..m : v[k].code # "EOF"
    BY DEF ScanInv, m
<1>11. \A k \in 1..Len(w) : w[k].code # "EOF"
    BY <1>2, <1>5, <1>7, <1>8, <1>9, <1>10
<1>12. Modes(str)[n] = "plain"
    BY DEF ScanInv, SameMode
<1>13. Modes(str)[n + 1] = "plain"
    BY <1>12, PlainStays
<1>14. \A c \in (n + 1 + 1)..(n + size) : str[c] # Quote
    <2>1. \A c \in (n + 1 + 1)..(n + size) : c \in (n + 1)..(n + size)
        BY <1>1, <1>2
    <2> QED
        BY <1>2, <2>1
<1>15. ASSUME NEW j \in 1..Len(str)
       PROVE  (j \in Ends(str) /\ (j <= n + 1 \/ j <= n + size))
                 <=> \E k \in 1..(m + 2) : EndsAt(w[k], j)
    <2>1. (\E k \in 1..(m + 2) : EndsAt(w[k], j))
             <=> (\E k \in 1..m : EndsAt(v[k], j)) \/ EndsAt(token, j)
        <3>1. ~EndsAt(word, j)
            BY <1>7 DEF EndsAt
        <3>2. m + 2 \in 1..(m + 2) /\ \A k \in 1..m : k \in 1..(m + 2)
            BY <1>4
        <3> QED
            BY <1>5, <1>9, <3>1, <3>2
    <2>2. (j \in Ends(str) /\ j <= n) <=> \E k \in 1..m : EndsAt(v[k], j)
        <3>1. (j \in Ends(str) /\ (j <= n \/ j <= start)) <=> \E k \in 1..m : EndsAt(v[k], j)
            BY DEF ScanInv, m
        <3> QED
            BY <1>1, <3>1
    <2>3. EndsAt(token, j) <=> code = "SEMICOLON" /\ j = n + 1
        BY <1>1, <1>2 DEF EndsAt
    <2>4. EndsAt(token, j) <=> j \in Ends(str) /\ n + 1 <= j /\ j <= n + size
        <3>1. CASE code = "SEMICOLON"
            <4>1. n + 1 \in Ends(str)
                BY <1>1, <1>2, <1>12, <3>1 DEF Ends
            <4>2. n + 1 <= j /\ j <= n + size <=> j = n + 1
                BY <1>1, <1>2, <3>1
            <4> QED
                BY <2>3, <3>1, <4>1, <4>2
        <3>2. CASE code # "SEMICOLON"
            <4>1. ASSUME j \in Ends(str), n + 1 <= j, j <= n + size PROVE FALSE
                <5>1. j \in (n + 1)..(n + size)
                    BY <1>1, <1>2, <4>1
                <5>2. str[j] = Semicolon
                    BY <4>1 DEF Ends
                <5> QED
                    BY <1>2, <3>2, <5>1, <5>2
            <4> QED
                BY <2>3, <3>2, <4>1
        <3> QED
            BY <3>1, <3>2
    <2>5. j <= n + 1 \/ j <= n + size <=> j <= n \/ (n + 1 <= j /\ j <= n + size)
        BY <1>1, <1>2
    <2> QED
        BY <2>1, <2>2, <2>4, <2>5
<1>16. Len(w) % 2 = 0
    BY <1>4, <1>5, Parity
<1>17. ScanInv(str, n + 1, state, n + size, w)
    <2>1. n + size \in 0..Len(str)
        BY <1>1, <1>2
    <2> QED
        BY <1>5, <1>6, <1>11, <1>13, <1>14, <1>15, <1>16, <2>1 DEF ScanInv, SameMode
<1> QED
    BY <1>17 DEF w, word, token, size, code, op

ScanRecord == [state : {"plain", "quotation", "escape"}, start : Nat, tokens : Seq(Token)]

LEMMA ScanStep ==
    ASSUME NEW str \in Seq(Chars), NEW n \in 0..(Len(str) - 1), NEW scan \in ScanRecord,
           ScanInv(str, n, scan.state, scan.start, scan.tokens)
    PROVE  LET next == ScanChar(str, scan, n)
           IN  /\ next \in ScanRecord
               /\ ScanInv(str, n + 1, next.state, next.start, next.tokens)
<1> DEFINE next == ScanChar(str, scan, n)
           char == str[n + 1]
           op == FirstOperator(str, n)
           two == <<putTokenS(str, scan.start, n), putToken(op.code, n)>>
<1>1. n \in Nat /\ n + 1 \in 1..Len(str)
    OBVIOUS
<1>2. scan.start \in Nat /\ scan.tokens \in Seq(Token)
      /\ scan.state \in {"plain", "quotation", "escape"}
    BY DEF ScanRecord
<1>3. n < scan.start \/ n >= scan.start
    BY <1>1, <1>2
<1>4. CASE n < scan.start
    <2>1. ~(n >= scan.start)
        BY <1>1, <1>2, <1>4
    <2>2. next = scan
        BY Zenon, <1>4, <2>1 DEF ScanChar
    <2> QED
        BY <1>4, <2>2, ScanSkips
<1>5. CASE n >= scan.start /\ (scan.state # "plain" \/ char = Quote)
    <2>1. ~(n < scan.start)
        BY <1>1, <1>2, <1>5
    <2>2. next = [scan EXCEPT !.state = QuotationState(@, char)]
        BY Zenon, <1>5, <2>1 DEF ScanChar, Quote
    <2>3. QuotationState(scan.state, char) \in {"plain", "quotation", "escape"}
        BY Zenon, <1>2 DEF QuotationState
    <2>4. /\ next.state = QuotationState(scan.state, char)
          /\ next.start = scan.start /\ next.tokens = scan.tokens
          /\ next \in ScanRecord
        BY <2>2, <2>3 DEF ScanRecord
    <2>5. ScanInv(str, n + 1, QuotationState(scan.state, char), scan.start, scan.tokens)
        BY <1>5, ScanQuotes
    <2> QED
        BY <2>4, <2>5
<1>6. CASE n >= scan.start /\ scan.state = "plain" /\ char # Quote /\ OperatorsAt(str, n) = {}
    <2>1. ~(n < scan.start)
        BY <1>1, <1>2, <1>6
    <2>2. next = scan
        BY Zenon, <1>6, <2>1 DEF ScanChar, Quote
    <2> QED
        BY <1>6, <2>2, ScanPasses
<1>7. CASE n >= scan.start /\ scan.state = "plain" /\ char # Quote /\ OperatorsAt(str, n) # {}
    <2>1. ~(n < scan.start)
        BY <1>1, <1>2, <1>7
    <2>2. next = [scan EXCEPT !.tokens = @ \o two, !.start = n + Len(op.str)]
        BY Zenon, <1>7, <2>1 DEF ScanChar, Quote
    <2>3. ScanInv(str, n + 1, scan.state, n + Len(op.str), scan.tokens \o two)
        BY <1>7, ScanOperates
    <2>4. n + Len(op.str) \in Nat /\ scan.tokens \o two \in Seq(Token)
        BY <2>3 DEF ScanInv
    <2> HIDE DEF next, op, two
    <2>5. /\ next.state = scan.state
          /\ next.start = n + Len(op.str) /\ next.tokens = scan.tokens \o two
          /\ next \in ScanRecord
        BY <2>2, <2>4 DEF ScanRecord
    <2>6. /\ next \in ScanRecord
          /\ ScanInv(str, n + 1, next.state, next.start, next.tokens)
        BY <2>3, <2>5
    <2> QED
        BY <2>6 DEF next
<1> QED
    BY <1>3, <1>4, <1>5, <1>6, <1>7

\* So it is after the last turn.
LEMMA AllScanned ==
    ASSUME NEW str \in Seq(Chars)
    PROVE  LET scan == Scanned(str)[Len(str)]
           IN  ScanInv(str, Len(str), scan.state, scan.start, scan.tokens)
<1> DEFINE f == Scanned(str)
           Reached(n) == /\ f[n] \in ScanRecord
                         /\ ScanInv(str, n, f[n].state, f[n].start, f[n].tokens)
           S == {n \in 0..Len(str) : ~Reached(n)}
<1>1. f[0] = NotScanned /\ \A k \in 1..Len(str) : f[k] = ScanChar(str, f[k - 1], k - 1)
    BY ScannedFacts
<1> HIDE DEF f
<1>2. ASSUME S # {} PROVE FALSE
    <2>1. PICK n \in S : \A k \in S : n <= k
        <3>1. S \subseteq Nat
            OBVIOUS
        <3> HIDE DEF S
        <3> QED
            BY <1>2, <3>1, LeastNat
    <2>2. CASE n = 0
        <3>1. NotScanned \in ScanRecord
            <4>1. <<>> \in Seq(Token)
                BY EmptySeq
            <4> QED
                BY <4>1 DEF NotScanned, ScanRecord
        <3> QED
            BY <1>1, <2>1, <2>2, <3>1, ScanStarts
    <2>3. CASE n # 0
        <3>1. n \in 1..Len(str) /\ n - 1 \in 0..(Len(str) - 1) /\ ~(n <= n - 1)
              /\ n - 1 + 1 = n /\ n - 1 \in 0..Len(str)
            BY <2>1, <2>3
        <3>2. Reached(n - 1)
            BY <2>1, <3>1
        <3>3. f[n] = ScanChar(str, f[n - 1], n - 1)
            BY <1>1, <3>1
        <3>4. Reached(n)
            BY <3>1, <3>2, <3>3, ScanStep
        <3> QED
            BY <2>1, <3>4
    <2> QED
        BY <2>2, <2>3
<1>3. Len(str) \in 0..Len(str)
    OBVIOUS
<1>4. Reached(Len(str))
    BY <1>2, <1>3
<1> QED
    BY <1>4 DEF f

\* What tokenize returns: tokens that tile the text, words and operators in turn,
\* with EOF last and nowhere else, and a semicolon for each end of a command.
LEMMA Tokenized ==
    ASSUME NEW str \in Seq(Chars)
    PROVE  LET v == tokenize(str)
           IN  /\ v \in Seq(Token) /\ Len(v) \in Nat \ {0} /\ Len(v) % 2 = 0
               /\ \E cut : Tiled(v, str, cut) /\ cut[Len(v)] = Len(str)
               /\ \A k \in 1..Len(v) : v[k].code = "EOF" <=> k = Len(v)
               /\ \A j \in 1..Len(str) : j \in Ends(str) <=> \E k \in 1..Len(v) : EndsAt(v[k], j)
<1> DEFINE N == Len(str)
           scan == Scanned(str)[N]
           start == scan.start
           u == scan.tokens
           m == Len(u)
           word == putTokenS(str, start, N)
           eof == putToken("EOF", N)
           v == tokenize(str)
<1>1. ScanInv(str, N, scan.state, start, u)
    BY AllScanned
<1>2. v = u \o <<word, eof>>
    BY DEF tokenize
<1> HIDE DEF v, u, start, scan
<1>3. N \in Nat /\ start \in 0..N /\ N \in 0..N /\ start <= N
    BY <1>1 DEF ScanInv
<1>4. u \in Seq(Token) /\ m \in Nat /\ m % 2 = 0
    BY <1>1 DEF ScanInv
<1>5. word \in Token /\ IsWord(word) /\ IsCut(word, str, start, N)
    BY <1>3, WordFacts
<1>6. eof.code = "EOF" /\ eof.str = <<>> /\ eof.pos = N
    BY DEF putToken
<1>7. eof \in Token
    <2>1. "EOF" \in TokenCodes /\ <<>> \in Seq(Chars)
        BY Zenon, EmptySeq DEF TokenCodes
    <2> QED
        BY <1>3, <2>1 DEF Token, putToken
<1> HIDE DEF word, eof
<1>8. IsCut(eof, str, N, N)
    <2>1. TokenText(eof) = <<>>
        BY <1>6, TextOfWord
    <2>2. SubSeq(str, N + 1, N) = <<>>
        BY <1>3, SubSeqEmpty
    <2> QED
        BY <1>3, <1>6, <2>1, <2>2 DEF IsCut
<1>9. /\ v \in Seq(Token) /\ Len(v) = m + 2
      /\ \A k \in 1..m : v[k] = u[k]
      /\ v[m + 1] = word /\ v[m + 2] = eof
    BY <1>2, <1>4, <1>5, <1>7, AppendTwo
<1>10. \E cut : Tiled(v, str, cut) /\ cut[m + 2] = N
    <2>1. PICK cut : Tiled(u, str, cut) /\ cut[m] = start
        BY <1>1 DEF ScanInv
    <2>2. eof.code \in OperatorCodes \union {"EOF"}
        BY <1>6
    <2>3. \E c : Tiled(u \o <<word, eof>>, str, c) /\ c[Len(u) + 2] = N
        <3>1. IsCut(word, str, cut[Len(u)], N) /\ Len(u) % 2 = 0 /\ N \in 0..Len(str)
            BY <1>3, <1>4, <1>5, <2>1
        <3> HIDE DEF N, m
        <3> QED
            BY <1>4, <1>5, <1>6, <1>7, <1>8, <2>1, <2>2, <3>1, TwoMore
    <2> QED
        BY <1>2, <2>3
<1>11. \A k \in 1..m : u[k].code # "EOF"
    BY <1>1 DEF ScanInv
<1>12. word.code \in {"EMPTY", "LITERAL"}
    BY <1>5 DEF IsWord
<1>13. \A j \in 1..N : j \in Ends(str) <=> \E k \in 1..m : EndsAt(u[k], j)
    <2>1. \A j \in 1..N : j <= N \/ j <= start
        OBVIOUS
    <2> QED
        BY <1>1, <2>1 DEF ScanInv
<1> HIDE DEF m, N
<1>14. \A k \in 1..(m + 2) : (k \in 1..m /\ k # m + 2) \/ k = m + 1 \/ k = m + 2
    BY <1>4
<1>15. \A k \in 1..(m + 2) : v[k].code = "EOF" <=> k = m + 2
    <2>1. m + 1 # m + 2
        BY <1>4
    <2> QED
        BY <1>6, <1>9, <1>11, <1>12, <1>14, <2>1
<1>16. \A j \in 1..N : j \in Ends(str) <=> \E k \in 1..(m + 2) : EndsAt(v[k], j)
    <2> SUFFICES ASSUME NEW j \in 1..N
                 PROVE  j \in Ends(str) <=> \E k \in 1..(m + 2) : EndsAt(v[k], j)
        OBVIOUS
    <2>1. ~EndsAt(word, j) /\ ~EndsAt(eof, j)
        BY <1>6, <1>12 DEF EndsAt
    <2>2. \A k \in 1..m : k \in 1..(m + 2)
        BY <1>4
    <2> QED
        BY <1>9, <1>13, <1>14, <2>1, <2>2
<1>17. (m + 2) % 2 = 0 /\ m + 2 \in Nat \ {0}
    BY <1>4, Parity
<1> QED
    BY <1>9, <1>10, <1>15, <1>16, <1>17 DEF v, N

\* Where tokens lie: token k from the end of the one before to its own end.
LEMMA TokenPlaces ==
    ASSUME NEW str \in Seq(Chars), NEW cut, Tiled(tokenize(str), str, cut)
    PROVE  \A k \in 1..Len(tokenize(str)) :
              LET token == tokenize(str)[k]
              IN  /\ k - 1 \in 0..Len(tokenize(str)) /\ k \in 0..Len(tokenize(str))
                  /\ cut[k - 1] \in 0..Len(str) /\ cut[k] \in 0..Len(str)
                  /\ cut[k - 1] <= cut[k] /\ token.pos = cut[k - 1]
                  /\ TokenText(token) = SubSeq(str, cut[k - 1] + 1, cut[k])
                  /\ Len(TokenText(token)) = cut[k] - cut[k - 1]
<1> DEFINE v == tokenize(str)
<1>1. v \in Seq(Token)
    BY Tokenized
<1> HIDE DEF v
<1> SUFFICES ASSUME NEW k \in 1..Len(v)
             PROVE  /\ k - 1 \in 0..Len(v) /\ k \in 0..Len(v)
                    /\ cut[k - 1] \in 0..Len(str) /\ cut[k] \in 0..Len(str)
                    /\ cut[k - 1] <= cut[k] /\ v[k].pos = cut[k - 1]
                    /\ TokenText(v[k]) = SubSeq(str, cut[k - 1] + 1, cut[k])
                    /\ Len(TokenText(v[k])) = cut[k] - cut[k - 1]
    BY DEF v
<1>2. k - 1 \in 0..Len(v) /\ k \in 0..Len(v)
    BY <1>1
<1>3. cut \in [0..Len(v) -> 0..Len(str)] /\ IsCut(v[k], str, cut[k - 1], cut[k])
    BY DEF Tiled, v
<1>4. /\ cut[k - 1] \in 0..Len(str) /\ cut[k] \in 0..Len(str)
      /\ cut[k - 1] <= cut[k] /\ v[k].pos = cut[k - 1]
      /\ TokenText(v[k]) = SubSeq(str, cut[k - 1] + 1, cut[k])
    BY <1>2, <1>3 DEF IsCut
<1>5. Len(SubSeq(str, cut[k - 1] + 1, cut[k])) = cut[k] - cut[k - 1]
    <2> DEFINE a == cut[k - 1]
               b == cut[k]
    <2>1. a \in Nat /\ b \in Nat /\ a <= b /\ b <= Len(str) /\ Len(str) \in Nat
        BY <1>4
    <2> HIDE DEF a, b
    <2>2. a + 1 \in Nat \ {0} /\ a + 1 <= b + 1 /\ b - (a + 1) + 1 = b - a
        BY <2>1
    <2>3. Len(SubSeq(str, a + 1, b)) = b - (a + 1) + 1
        BY <2>1, <2>2, SliceFacts
    <2> QED
        BY <2>2, <2>3 DEF a, b
<1> QED
    BY <1>2, <1>4, <1>5

LEMMA TokensTileText ==
    ASSUME NEW str \in Seq(Chars)
    PROVE  LET v == tokenize(str)
           IN  /\ FlattenSeq([k \in DOMAIN v |-> TokenText(v[k])]) = str
               /\ \A k \in DOMAIN v :
                     /\ v[k].pos = IF k = 1 THEN 0
                                   ELSE v[k - 1].pos + Len(TokenText(v[k - 1]))
                     /\ v[k].code \in OperatorCodes \union {"EOF"} <=> k % 2 = 0
               /\ Last(v).code = "EOF"
<1> DEFINE v == tokenize(str)
           m == Len(v)
           N == Len(str)
<1>1. v \in Seq(Token) /\ m \in Nat \ {0} /\ DOMAIN v = 1..m /\ m \in 1..m
    BY Tokenized
<1>2. PICK cut : Tiled(v, str, cut) /\ cut[m] = N
    BY Tokenized
<1>3. \A k \in 1..m : /\ k - 1 \in 0..m /\ k \in 0..m
                      /\ cut[k - 1] \in 0..N /\ cut[k] \in 0..N
                      /\ cut[k - 1] <= cut[k] /\ v[k].pos = cut[k - 1]
                      /\ TokenText(v[k]) = SubSeq(str, cut[k - 1] + 1, cut[k])
                      /\ Len(TokenText(v[k])) = cut[k] - cut[k - 1]
    BY <1>2, TokenPlaces
<1>4. cut \in [0..m -> 0..N] /\ cut[0] = 0
    BY <1>2 DEF Tiled
<1>5. \A k \in 1..m : v[k].code \in OperatorCodes \union {"EOF"} <=> k % 2 = 0
    <2> SUFFICES ASSUME NEW k \in 1..m
                 PROVE  v[k].code \in OperatorCodes \union {"EOF"} <=> k % 2 = 0
        OBVIOUS
    <2>1. k % 2 = 0 => v[k].code \in OperatorCodes \union {"EOF"}
        BY <1>2 DEF Tiled
    <2>2. k % 2 = 1 => v[k].code \in {"EMPTY", "LITERAL"}
        BY <1>2 DEF Tiled, IsWord
    <2>3. k % 2 = 0 \/ k % 2 = 1
        OBVIOUS
    <2>4. \A code \in {"EMPTY", "LITERAL"} : code \notin OperatorCodes \union {"EOF"}
        BY CodesAre
    <2> QED
        BY <2>1, <2>2, <2>3, <2>4
<1>6. v[m].code = "EOF"
    BY <1>1, Tokenized
<1> HIDE DEF v, N
<1>7. FlattenSeq([k \in DOMAIN v |-> TokenText(v[k])]) = str
    <2>1. cut \in [0..m -> Nat] /\ N \in Nat
        BY <1>4 DEF N
    <2>2. /\ \A n \in 1..m : cut[n - 1] <= cut[n]
          /\ \A n \in 0..m : cut[n] <= Len(str)
        BY <1>3, <1>4 DEF N
    <2>3. FlattenSeq([k \in 1..m |-> SubSeq(str, cut[k - 1] + 1, cut[k])])
             = SubSeq(str, cut[0] + 1, cut[m])
        BY <1>1, <2>1, <2>2, FlattenSlices
    <2>4. [k \in 1..m |-> SubSeq(str, cut[k - 1] + 1, cut[k])]
             = [k \in 1..m |-> TokenText(v[k])]
        BY <1>3
    <2>5. SubSeq(str, 0 + 1, Len(str)) = str
        BY SubSeqFull
    <2> QED
        BY <1>1, <1>2, <1>4, <2>3, <2>4, <2>5 DEF N
<1>8. ASSUME NEW k \in 1..m
      PROVE  v[k].pos = IF k = 1 THEN 0 ELSE v[k - 1].pos + Len(TokenText(v[k - 1]))
    <2>1. CASE k = 1
        BY <1>3, <1>4, <2>1
    <2>2. CASE k # 1
        <3>1. k - 1 \in 1..m
            BY <1>1, <2>2
        <3>2. /\ cut[k - 1 - 1] \in 0..N /\ cut[k - 1] \in 0..N
              /\ v[k - 1].pos = cut[k - 1 - 1] /\ v[k].pos = cut[k - 1]
              /\ Len(TokenText(v[k - 1])) = cut[k - 1] - cut[k - 1 - 1]
            BY <1>3, <3>1
        <3> HIDE DEF m
        <3>3. v[k - 1].pos + Len(TokenText(v[k - 1])) = v[k].pos
            BY <3>2
        <3> QED
            BY <2>2, <3>3
    <2> QED
        BY <2>1, <2>2
<1>9. Last(v).code = "EOF"
    BY <1>6 DEF Last
<1> QED
    BY <1>1, <1>5, <1>7, <1>8, <1>9 DEF v

LEMMA SemicolonsEnd ==
    ASSUME NEW str \in Seq(Chars)
    PROVE  LET v == tokenize(str)
           IN  {v[k].pos + 1 : k \in {j \in DOMAIN v : v[j].code = "SEMICOLON"}} = Ends(str)
<1> DEFINE v == tokenize(str)
           m == Len(v)
           places == {v[k].pos + 1 : k \in {j \in DOMAIN v : v[j].code = "SEMICOLON"}}
<1>1. v \in Seq(Token) /\ DOMAIN v = 1..m
    BY Tokenized
<1>2. \A j \in 1..Len(str) : j \in Ends(str) <=> \E k \in 1..m : EndsAt(v[k], j)
    BY Tokenized
<1>3. PICK cut : Tiled(v, str, cut)
    BY Tokenized
<1>4. ASSUME NEW k \in 1..m, v[k].code = "SEMICOLON"
      PROVE  v[k].pos + 1 \in 1..Len(str)
    <2>1. /\ cut[k - 1] \in 0..Len(str) /\ cut[k] \in 0..Len(str)
          /\ v[k].pos = cut[k - 1] /\ Len(TokenText(v[k])) = cut[k] - cut[k - 1]
        BY <1>3, TokenPlaces
    <2>2. TokenText(v[k]) = <<Semicolon>>
        <3>1. v[k].code = Operators[7].code /\ 7 \in 1..17
            BY <1>4, OperatorParts
        <3> DEFINE token == v[k]
        <3> HIDE DEF v
        <3>2. TokenText(token) = Operators[7].str
            BY <3>1, TextOfOperator
        <3> QED
            BY <3>2, OperatorParts
    <2>3. Len(TokenText(v[k])) = 1
        BY <2>2
    <2> DEFINE a == cut[k - 1]
               b == cut[k]
    <2>4. v[k].pos = a /\ b - a = 1 /\ a \in 0..Len(str) /\ b \in 0..Len(str)
        BY <2>1, <2>3
    <2> HIDE DEF a, b, v, m
    <2>5. b = a + 1
        BY <2>4
    <2> QED
        BY <2>4, <2>5
<1> HIDE DEF v
<1>5. Ends(str) \subseteq 1..Len(str)
    BY DEF Ends
<1>6. \A j : j \in places <=> \E k \in 1..m : EndsAt(v[k], j)
    BY <1>1 DEF EndsAt
<1>7. \A j : (\E k \in 1..m : EndsAt(v[k], j)) => j \in 1..Len(str)
    BY <1>4 DEF EndsAt
<1> HIDE DEF places, m
<1>8. places = Ends(str)
    BY <1>2, <1>5, <1>6, <1>7
<1> QED
    BY <1>8 DEF places, v

-----------------------------------------------------------------------------
(* The text and its tokens.                                                *)

\* The text parsed last is one in which a command ends, and tokens are its tokens.
TextInv ==
    /\ frame \in Frames /\ typed \in Seq(frame.keys) /\ Len(typed) <= MaxTyped
    /\ input \in Seq(Chars) /\ Ends(input) # {} /\ tokens = tokenize(input)

LEMMA TextIsText ==
    ASSUME NEW f \in Frames, NEW str \in Seq(f.keys)
    PROVE  f.before \o str \o f.after \in Seq(Chars)
<1>1. f.before \in Seq(Chars) /\ f.after \in Seq(Chars) /\ f.keys \subseteq Chars
    BY ParserAssumption
<1>2. str \in Seq(Chars)
    BY <1>1
<1> QED
    BY <1>1, <1>2, ConcatFacts

LEMMA TextInvInit == Init => TextInv
<1> SUFFICES ASSUME Init PROVE TextInv
    OBVIOUS
<1>1. frame \in Frames /\ typed = <<>> /\ input = text /\ tokens = tokenize(text)
    BY DEF Init
<1>2. typed \in Seq(frame.keys) /\ Len(typed) = 0
    BY <1>1
<1>3. MaxTyped \in Nat /\ frame.before \in Seq(Chars) /\ Ends(frame.before \o frame.after) # {}
    BY <1>1, ParserAssumption
<1>4. input \in Seq(Chars)
    BY <1>1, <1>2, TextIsText DEF text
<1>5. input = frame.before \o frame.after
    <2>1. frame.before \o <<>> = frame.before
        BY <1>3
    <2> QED
        BY <1>1, <2>1 DEF text
<1> QED
    BY <1>1, <1>2, <1>3, <1>4, <1>5 DEF TextInv

LEMMA TextInvEdit ==
    ASSUME TextInv, NEW str \in Seq(frame.keys), Len(str) <= MaxTyped, Edit(str)
    PROVE  TextInv'
<1>1. frame' = frame /\ frame \in Frames /\ typed' = str
    BY DEF Edit, TextInv
<1>2. text' \in Seq(Chars)
    BY <1>1, TextIsText DEF text
<1>3. CASE Ends(text') # {}
    <2>1. input' = text' /\ tokens' = tokenize(text')
        BY <1>3 DEF Edit, TL1CommandParse
    <2> QED
        BY <1>1, <1>2, <1>3, <2>1 DEF TextInv
<1>4. CASE Ends(text') = {}
    BY <1>1, <1>4 DEF Edit, TextInv
<1> QED
    BY <1>3, <1>4

LEMMA TextInvNext == TextInv /\ [Next]_vars => TextInv'
<1> SUFFICES ASSUME TextInv, [Next]_vars PROVE TextInv'
    OBVIOUS
<1>1. MaxTyped \in Nat /\ typed \in Seq(frame.keys) /\ Len(typed) <= MaxTyped
    BY ParserAssumption DEF TextInv
<1>2. ASSUME NEW char \in frame.keys, Type(char) PROVE TextInv'
    <2>1. Append(typed, char) \in Seq(frame.keys) /\ Len(Append(typed, char)) = Len(typed) + 1
        BY <1>1, AppendFacts
    <2>2. Len(typed) < MaxTyped /\ Edit(Append(typed, char))
        BY <1>2 DEF Type
    <2>3. Len(Append(typed, char)) <= MaxTyped
        BY <1>1, <2>1, <2>2
    <2> QED
        BY <2>1, <2>2, <2>3, TextInvEdit
<1>3. ASSUME Delete PROVE TextInv'
    <2>1. Front(typed) \in Seq(frame.keys) /\ Len(Front(typed)) <= MaxTyped
        <3>1. typed # <<>> /\ Len(typed) \in Nat
            BY <1>1, <1>3 DEF Delete
        <3>2. Len(typed) # 0
            BY <1>1, <3>1
        <3>3. Len(typed) - 1 \in Nat /\ 1 \in Nat \ {0} /\ Len(typed) - 1 <= Len(typed)
              /\ 1 <= Len(typed) - 1 + 1 /\ Len(typed) - 1 - 1 + 1 <= MaxTyped
            BY <1>1, <3>1, <3>2
        <3> QED
            BY <1>1, <3>3, SliceFacts DEF Front
    <2> QED
        BY <1>3, <2>1, TextInvEdit DEF Delete
<1>4. CASE UNCHANGED vars
    BY <1>4 DEF TextInv, vars
<1> QED
    BY <1>2, <1>3, <1>4 DEF Next

LEMMA TextAlways == Spec => []TextInv
    BY TextInvInit, TextInvNext, PTL DEF Spec

\* What is typed is cut into tokens without a gap or an overlap, for any text,
\* and operators and what stands between them alternate, with EOF last (tokenize,
\* TL1_Command.c:404).
THEOREM TokensCoverText == Spec => []TokensTile
<1>1. TextInv => TokensTile
    BY TokensTileText DEF TextInv, TokensTile
<1> QED
    BY <1>1, TextAlways, PTL

\* The tokenizer and the line editor's state machine (pre_parseInput, hello.c:210)
\* agree on which semicolons end a command, for any text.
THEOREM EndsAgree == Spec => []SemicolonsAgree
<1>1. TextInv => SemicolonsAgree
    BY SemicolonsEnd DEF TextInv, SemicolonsAgree
<1> QED
    BY <1>1, TextAlways, PTL

-----------------------------------------------------------------------------
(* What the rules of the parser are shown to return.                       *)

\* v is a vector of words and operators in turn, with EOF at its end, and m the
\* place of a semicolon or of EOF; P has the positions of the tokens up to the one
\* behind m and, for a literal, those that lie in it or where textStr may stop.
Vector(v, m, P) ==
    /\ v \in Seq(Token) /\ Len(v) \in Nat /\ m \in 1..Len(v) /\ m % 2 = 0 /\ Len(v) % 2 = 0
    /\ v[m].code \in {"SEMICOLON", "EOF"}
    /\ \A k \in 1..Len(v) :
          /\ k % 2 = 1 => v[k].code \in {"EMPTY", "LITERAL"}
          /\ k % 2 = 0 => v[k].code \in OperatorCodes \union {"EOF"} /\ v[k].str = <<>>
          /\ v[k].code = "LITERAL" <=> v[k].str # <<>>
          /\ v[k].code = "EOF" <=> k = Len(v)
    /\ \A k \in 1..m :
          /\ Pos(v, k) \in P /\ NextPos(v, k) \in P
          /\ v[k].code = "LITERAL" =>
                \A c \in 0..(Len(v[k].str) + 1 + MaxBehind) : Pos(v, k) + c \in P

\* A good result of a rule from i on: an iterator that is not behind m, or errors
\* at places of P.
Good(r, i, m, P) ==
    /\ r.ok \in BOOLEAN
    /\ r.ok => r.at \in i..m /\ r.errs = {}
    /\ ~r.ok => r.errs # {} /\ r.errs \subseteq P

\* A table of good results, up to m and, for its loops, up to the end of the vector.
Table(v, m, P, rule) ==
    /\ DOMAIN rule = 1..Len(v)
    /\ \A i \in 1..Len(v) : Good(rule[i], i, Len(v), Int)
    /\ \A i \in 1..m : Good(rule[i], i, m, P)

LEMMA Results ==
    /\ \A at : Yes(at).ok = TRUE /\ Yes(at).at = at /\ Yes(at).errs = {}
    /\ \A errs : No(errs).ok = FALSE /\ No(errs).errs = errs
BY DEF Yes, No

LEMMA YesGood ==
    ASSUME NEW i \in Nat, NEW m \in Nat, NEW P, NEW at \in i..m
    PROVE  Good(Yes(at), i, m, P)
BY Results DEF Good

LEMMA NoGood ==
    ASSUME NEW i, NEW m, NEW P, NEW p \in P
    PROVE  Good(No({p}), i, m, P)
BY Results DEF Good

LEMMA GoodFrom ==
    ASSUME NEW i \in Nat, NEW m \in Nat, NEW P, NEW j \in i..m, NEW r, Good(r, j, m, P)
    PROVE  Good(r, i, m, P)
<1>1. \A k \in j..m : k \in i..m
    OBVIOUS
<1> QED
    BY <1>1 DEF Good

LEMMA TokenFields ==
    ASSUME NEW v \in Seq(Token), NEW k \in 1..Len(v)
    PROVE  v[k].code \in TokenCodes /\ v[k].str \in Seq(Chars) /\ v[k].pos \in Nat
<1>1. v[k] \in Token
    OBVIOUS
<1> QED
    BY <1>1 DEF Token

LEMMA WholeVector ==
    ASSUME NEW v, NEW m, NEW P, Vector(v, m, P)
    PROVE  Vector(v, Len(v), Int)
<1>1. v \in Seq(Token) /\ Len(v) \in Nat /\ m \in 1..Len(v) /\ DOMAIN v = 1..Len(v)
    BY DEF Vector
<1>2. Len(v) \in 1..Len(v) /\ v[Len(v)].code = "EOF"
    <2>1. Len(v) \in 1..Len(v)
        BY <1>1
    <2>2. \A k \in 1..Len(v) : v[k].code = "EOF" <=> k = Len(v)
        BY DEF Vector
    <2> QED
        BY <2>1, <2>2
<1>3. MaxBehind \in Nat
    BY ParserAssumption
<1>4. ASSUME NEW k \in 1..Len(v)
      PROVE  /\ Pos(v, k) \in Int /\ NextPos(v, k) \in Int
             /\ \A c \in 0..(Len(v[k].str) + 1 + MaxBehind) : Pos(v, k) + c \in Int
    <2>1. v[k].pos \in Nat
        BY <1>1, TokenFields
    <2>2. k + 1 \in 1..Len(v) => v[k + 1].pos \in Nat
        BY <1>1, TokenFields
    <2>3. Pos(v, k) \in Int /\ NextPos(v, k) \in Int
        BY <1>1, <2>1, <2>2 DEF Pos, NextPos
    <2> QED
        BY <2>3
<1> QED
    BY Zenon, <1>1, <1>2, <1>4 DEF Vector

LEMMA WholeTable ==
    ASSUME NEW v, NEW m, NEW P, Vector(v, m, P), NEW rule, Table(v, m, P, rule)
    PROVE  Table(v, Len(v), Int, rule)
BY DEF Table

LEMMA VectorFacts ==
    ASSUME NEW v, NEW m, NEW P, Vector(v, m, P)
    PROVE  /\ DOMAIN v = 1..Len(v) /\ Len(v) \in Nat /\ m \in Nat /\ m \in 1..Len(v)
           /\ \A k \in 1..m : /\ k \in 1..Len(v) /\ k \in Nat
                              /\ Code(v, k) = v[k].code /\ v[k].str \in Seq(Chars)
                              /\ Len(v[k].str) \in Nat
                              /\ Pos(v, k) \in P /\ NextPos(v, k) \in P
           /\ \A k \in 1..m : v[k].code = "LITERAL" =>
                 /\ k + 1 \in 1..m /\ v[k].str # <<>> /\ v[k + 1].code # "LITERAL"
                 /\ \A c \in 0..(Len(v[k].str) + 1 + MaxBehind) : Pos(v, k) + c \in P
           /\ \A k \in 1..m : v[k].code # "LITERAL" => v[k].str = <<>>
           /\ Code(v, m) \in {"SEMICOLON", "EOF"}
<1>1. /\ v \in Seq(Token) /\ Len(v) \in Nat /\ m \in 1..Len(v)
      /\ m % 2 = 0 /\ v[m].code \in {"SEMICOLON", "EOF"} /\ m \in Nat
    BY DEF Vector
<1>2. DOMAIN v = 1..Len(v)
    BY <1>1
<1>3. ASSUME NEW k \in 1..m
      PROVE  /\ k \in 1..Len(v) /\ k \in Nat
             /\ Code(v, k) = v[k].code /\ v[k].str \in Seq(Chars) /\ Len(v[k].str) \in Nat
             /\ Pos(v, k) \in P /\ NextPos(v, k) \in P
    <2>1. k \in 1..Len(v) /\ k \in Nat
        BY <1>1
    <2>2. v[k].str \in Seq(Chars)
        BY <1>1, <2>1, TokenFields
    <2>3. Len(v[k].str) \in Nat
        BY <2>2
    <2>4. Code(v, k) = v[k].code
        BY <1>2, <2>1 DEF Code
    <2> QED
        BY <2>1, <2>2, <2>3, <2>4 DEF Vector
<1>4. ASSUME NEW k \in 1..m
      PROVE  k % 2 = 0 \/ k % 2 = 1
    <2>1. k \in Nat
        OBVIOUS
    <2> QED
        BY <2>1
<1>5. ASSUME NEW k \in 1..m, k % 2 = 1
      PROVE  k + 1 \in 1..m /\ (k + 1) % 2 = 0
    <2>1. k # m /\ k \in Nat
        BY <1>1, <1>5
    <2> QED
        BY <1>1, <1>5, <2>1
<1>6. \A code \in OperatorCodes \union {"EOF"} : code # "LITERAL" /\ code # "EMPTY"
    BY CodesAre
<1>7. \A k \in 1..Len(v) : k % 2 = 0 => v[k].code # "LITERAL" /\ v[k].str = <<>>
    BY <1>6 DEF Vector
<1>8. ASSUME NEW k \in 1..m, v[k].code = "LITERAL"
      PROVE  /\ k + 1 \in 1..m /\ v[k].str # <<>> /\ v[k + 1].code # "LITERAL"
             /\ \A c \in 0..(Len(v[k].str) + 1 + MaxBehind) : Pos(v, k) + c \in P
    <2>1. k % 2 = 1
        BY <1>3, <1>4, <1>7, <1>8
    <2>2. k + 1 \in 1..m /\ (k + 1) % 2 = 0 /\ k + 1 \in 1..Len(v)
        BY <1>3, <1>5, <2>1
    <2> QED
        BY <1>3, <1>7, <1>8, <2>2 DEF Vector
<1>9. ASSUME NEW k \in 1..m, v[k].code # "LITERAL"
      PROVE  v[k].str = <<>>
    BY <1>3, <1>9 DEF Vector
<1>10. Code(v, m) \in {"SEMICOLON", "EOF"}
    BY <1>1, <1>2 DEF Code
<1> QED
    BY <1>1, <1>2, <1>3, <1>8, <1>9, <1>10

-----------------------------------------------------------------------------
(* Loops.                                                                  *)

\* w is where the loop ends, for the places from a on.
AreEnds(w, next, a, n) ==
    w = [k \in a..n |-> IF next[k] = 0 THEN k ELSE w[next[k]]]

\* The ends of a loop whose turns go forward, from the last place downwards.
LEMMA EndsDownTo ==
    ASSUME NEW n \in Nat, NEW next \in [1..n -> 0..n],
           \A k \in 1..n : next[k] = 0 \/ next[k] > k
    PROVE  \E w : AreEnds(w, next, 1, n)
<1> DEFINE S == {d \in 0..n : ~\E w : AreEnds(w, next, n + 1 - d, n)}
<1>1. ASSUME S # {} PROVE FALSE
    <2>1. PICK d \in S : \A y \in S : d <= y
        <3>1. S \subseteq Nat
            OBVIOUS
        <3> HIDE DEF S
        <3> QED
            BY <1>1, <3>1, LeastNat
    <2> DEFINE a == n + 1 - d
    <2>2. CASE d = 0
        <3> DEFINE v == [k \in (n + 1)..n |-> 0]
        <3>1. (n + 1)..n = {} /\ n + 1 - 0 = n + 1
            OBVIOUS
        <3>2. AreEnds(v, next, n + 1, n)
            BY <3>1 DEF AreEnds
        <3> QED
            BY <2>1, <2>2, <3>1, <3>2
    <2>3. CASE d # 0
        <3>1. d - 1 \in 0..n /\ ~(d <= d - 1) /\ n + 1 - (d - 1) = a + 1 /\ a \in 1..n
            BY <2>1, <2>3
        <3>2. PICK w : AreEnds(w, next, a + 1, n)
            BY <2>1, <3>1
        <3> DEFINE here == IF next[a] = 0 THEN a ELSE w[next[a]]
                   v == [k \in a..n |-> IF k = a THEN here ELSE w[k]]
                   u == [k \in a..n |-> IF next[k] = 0 THEN k ELSE v[next[k]]]
        <3> HIDE DEF a
        <3>3. ASSUME NEW k \in a..n
              PROVE  /\ next[k] # 0 => next[k] \in a..n /\ next[k] # a
                     /\ k # a => k \in (a + 1)..n
            <4>1. k \in 1..n /\ next[k] \in 0..n
                BY <3>1
            <4> QED
                BY <3>1, <4>1
        <3>4. \A k \in (a + 1)..n : w[k] = IF next[k] = 0 THEN k ELSE w[next[k]]
            BY <3>2 DEF AreEnds
        <3>5. \A k \in a..n : v[k] = u[k]
            <4> SUFFICES ASSUME NEW k \in a..n PROVE v[k] = u[k]
                OBVIOUS
            <4>1. next[k] # 0 => v[next[k]] = w[next[k]]
                BY <3>3
            <4>2. u[k] = IF next[k] = 0 THEN k ELSE w[next[k]]
                BY <4>1
            <4>3. v[k] = IF k = a THEN here ELSE w[k]
                OBVIOUS
            <4>4. k = a \/ k \in (a + 1)..n
                BY <3>3
            <4> HIDE DEF u, v
            <4> QED
                BY <3>4, <4>2, <4>3, <4>4
        <3>6. v = u
            <4>1. v = [k \in a..n |-> v[k]] /\ u = [k \in a..n |-> u[k]]
                OBVIOUS
            <4> QED
                BY <3>5
        <3>7. AreEnds(v, next, a, n)
            BY <3>6 DEF AreEnds
        <3> QED
            BY <2>1, <3>7 DEF a
    <2> QED
        BY <2>2, <2>3
<1>2. n \in 0..n /\ n + 1 - n = 1
    OBVIOUS
<1> QED
    BY <1>1, <1>2

\* A loop that only goes forward ends, in any set that it does not leave.
LEMMA LoopEnds ==
    ASSUME NEW n \in Nat, NEW next, DOMAIN next = 1..n,
           \A k \in 1..n : next[k] = 0 \/ next[k] \in (k + 1)..n,
           NEW R, R \subseteq 1..n, \A k \in R : next[k] = 0 \/ next[k] \in R,
           NEW i \in R
    PROVE  EndOfLoop(next, i) \in R /\ next[EndOfLoop(next, i)] = 0
<1> DEFINE next1 == [k \in 1..n |-> next[k]]
           IsEnds(w) == w = [k \in 1..n |-> IF next[k] = 0 THEN k ELSE w[next[k]]]
           last == CHOOSE w : IsEnds(w)
<1>1. \E w : IsEnds(w)
    <2>1. next1 \in [1..n -> 0..n]
        <3>1. \A k \in 1..n : next[k] \in 0..n
            OBVIOUS
        <3> QED
            BY <3>1
    <2>2. \A k \in 1..n : next1[k] = 0 \/ next1[k] > k
        OBVIOUS
    <2> HIDE DEF next1
    <2>3. PICK w : AreEnds(w, next1, 1, n)
        BY <2>1, <2>2, EndsDownTo
    <2>4. w = [k \in 1..n |-> IF next[k] = 0 THEN k ELSE w[next[k]]]
        BY <2>3 DEF AreEnds, next1
    <2> QED
        BY <2>4
<1>2. EndOfLoop(next, i) = last[i]
    BY DEF EndOfLoop
<1>3. IsEnds(last)
    BY <1>1
<1> HIDE DEF last
<1>4. \A k \in 1..n : last[k] = IF next[k] = 0 THEN k ELSE last[next[k]]
    BY <1>3
<1> DEFINE Right(k) == last[k] \in R /\ next[last[k]] = 0
           S == {d \in 0..n : \E k \in R : d = n - k /\ ~Right(k)}
<1>5. ASSUME S # {} PROVE FALSE
    <2>1. PICK d \in S : \A y \in S : d <= y
        <3>1. S \subseteq Nat
            OBVIOUS
        <3> HIDE DEF S
        <3> QED
            BY <1>5, <3>1, LeastNat
    <2>2. PICK k \in R : d = n - k /\ ~Right(k)
        BY <2>1
    <2>3. k \in 1..n
        BY <2>2
    <2>4. CASE next[k] = 0
        BY <1>4, <2>2, <2>3, <2>4
    <2>5. CASE next[k] # 0
        <3>1. next[k] \in (k + 1)..n /\ next[k] \in R
            BY <2>3, <2>5
        <3>2. n - next[k] \in 0..n /\ ~(d <= n - next[k])
            BY <2>2, <2>3, <3>1
        <3>3. Right(next[k])
            BY <2>1, <3>1, <3>2
        <3>4. last[k] = last[next[k]]
            BY <1>4, <2>3, <2>5
        <3> QED
            BY <2>2, <3>3, <3>4
    <2> QED
        BY <2>4, <2>5
<1>6. Right(i)
    <2>1. n - i \in 0..n
        OBVIOUS
    <2> QED
        BY <1>5, <2>1
<1> QED
    BY <1>2, <1>6

\* Over a separator there is another word.
LEMMA StepOver ==
    ASSUME NEW v, NEW m, NEW P, Vector(v, m, P), NEW j \in 1..m,
           NextCode(v, j) \in OperatorCodes \ {"SEMICOLON"}
    PROVE  j + 1 \in 1..m /\ j + 2 \in 1..m
<1>1. /\ Len(v) \in Nat /\ m \in 1..Len(v) /\ DOMAIN v = 1..Len(v) /\ m % 2 = 0
      /\ Code(v, m) \in {"SEMICOLON", "EOF"} /\ j \in Nat
    BY VectorFacts DEF Vector
<1>2. \A code \in OperatorCodes : code \notin {"EOF", "EMPTY", "LITERAL"}
    BY CodesAre
<1>3. j + 1 \in 1..Len(v)
    BY <1>1, <1>2 DEF NextCode, Code
<1>4. v[j + 1].code \in OperatorCodes \ {"SEMICOLON"}
    BY <1>1, <1>3 DEF NextCode, Code
<1>5. j + 1 # m
    BY <1>1, <1>2, <1>4 DEF NextCode, Code
<1>6. j # m
    <2>1. ASSUME j = m PROVE FALSE
        <3>1. (m + 1) % 2 = 1
            BY <1>1, Parity
        <3>2. v[j + 1].code \in {"EMPTY", "LITERAL"}
            BY <1>3, <2>1, <3>1 DEF Vector
        <3> QED
            BY <1>2, <1>4, <3>2
    <2> QED
        BY <2>1
<1> QED
    BY <1>1, <1>5, <1>6

\* A list is as good as its parts.
LEMMA SeparatedByGood ==
    ASSUME NEW v, NEW m, NEW P, Vector(v, m, P), NEW rule, Table(v, m, P, rule),
           NEW i \in 1..m, NEW separator \in OperatorCodes \ {"SEMICOLON"}
    PROVE  Good(SeparatedBy(v, i, rule, separator), i, m, P)
<1> DEFINE n == Len(v)
           next == [k \in DOMAIN v |->
                      LET unit == rule[k]
                      IN  IF unit.ok /\ NextCode(v, unit.at) = separator
                          THEN unit.at + 2 ELSE 0]
           last == EndOfLoop(next, i)
<1>1. /\ n \in Nat /\ m \in Nat /\ m \in 1..n /\ DOMAIN v = 1..n
    BY VectorFacts
<1>2. ASSUME NEW Q, NEW q, Vector(v, q, Q), NEW k \in 1..q, Good(rule[k], k, q, Q),
             k \in 1..n
      PROVE  next[k] = 0 \/ next[k] \in (k + 1)..q
    <2>1. CASE ~(rule[k].ok /\ NextCode(v, rule[k].at) = separator)
        BY <1>1, <1>2, <2>1
    <2>2. CASE rule[k].ok /\ NextCode(v, rule[k].at) = separator
        <3>1. rule[k].at \in k..q /\ k \in 1..q /\ q \in Nat
            BY <1>2, <2>2, VectorFacts DEF Good
        <3>2. rule[k].at \in 1..q
            BY <3>1
        <3>3. rule[k].at + 2 \in 1..q
            BY <1>2, <2>2, <3>2, StepOver
        <3>4. next[k] = rule[k].at + 2
            BY <1>1, <1>2, <2>2
        <3> QED
            BY <3>1, <3>3, <3>4
    <2> QED
        BY <2>1, <2>2
<1>3. \A k \in 1..n : next[k] = 0 \/ next[k] \in (k + 1)..n
    BY <1>2, WholeVector DEF Table
<1>4. \A k \in 1..m : next[k] = 0 \/ next[k] \in (k + 1)..m
    <2>1. \A k \in 1..m : k \in 1..n
        BY <1>1
    <2> QED
        BY <1>2, <2>1 DEF Table
<1>5. DOMAIN next = 1..n
    BY <1>1
<1> HIDE DEF next, n
<1>6. \A k \in i..m : next[k] = 0 \/ next[k] \in i..m
    <2> SUFFICES ASSUME NEW k \in i..m PROVE next[k] = 0 \/ next[k] \in i..m
        OBVIOUS
    <2>1. k \in 1..m
        OBVIOUS
    <2>2. next[k] = 0 \/ next[k] \in (k + 1)..m
        BY <1>4, <2>1
    <2> QED
        BY <1>1, <2>2
<1>7. last \in i..m
    <2>1. i..m \subseteq 1..n /\ i \in i..m
        BY <1>1
    <2> QED
        BY <1>1, <1>3, <1>5, <1>6, <2>1, LoopEnds
<1>8. SeparatedBy(v, i, rule, separator) = rule[last]
    BY DEF SeparatedBy, next
<1> HIDE DEF last
<1>9. Good(rule[last], last, m, P)
    <2>1. last \in 1..m
        BY <1>1, <1>7
    <2> QED
        BY <2>1 DEF Table
<1> QED
    BY <1>1, <1>7, <1>8, <1>9, GoodFrom

-----------------------------------------------------------------------------
(* Words.                                                                  *)

LEMMA MinFacts ==
    ASSUME NEW S, S \subseteq Nat, S # {}
    PROVE  Min(S) \in S
<1>1. \E x \in S : \A y \in S : x <= y
    BY LeastNat
<1> QED
    BY <1>1 DEF Min

LEMMA FirstOtherFacts ==
    ASSUME NEW str \in Seq(Chars), NEW from \in 0..Len(str), NEW chars
    PROVE  FirstOther(str, from, chars) \in from..Len(str)
<1> DEFINE S == {k \in from..Len(str) : k = Len(str) \/ str[k + 1] \notin chars}
<1>1. Len(str) \in S /\ S \subseteq Nat /\ S # {} /\ S \subseteq from..Len(str)
    OBVIOUS
<1> HIDE DEF S
<1>2. Min(S) \in S
    BY <1>1, MinFacts
<1> QED
    BY <1>1, <1>2 DEF FirstOther, S

LEMMA SkipFacts ==
    ASSUME NEW str \in Seq(Chars), NEW prefix, Len(prefix) \in Nat
    PROVE  Skip(str, prefix) \in 0..Len(str)
BY DEF Skip, check_sequence

LEMMA PrefixFacts ==
    /\ Len(<<>>) \in Nat
    /\ \A a, b : Len(<<a, b>>) = 2 /\ Len(<<a, b>>) \in Nat
OBVIOUS

LEMMA identifierGood ==
    ASSUME NEW v, NEW m, NEW P, Vector(v, m, P), NEW i \in 1..m
    PROVE  LET r == identifier(v, i)
           IN  Good(r, i, m, P) /\ (r.ok => r.at = i /\ v[i].code = "LITERAL")
<1> DEFINE str == v[i].str
           r == identifier(v, i)
           other == FirstOther(str, 0, Letters \union Digits)
<1>1. /\ i \in Nat /\ m \in Nat /\ str \in Seq(Chars) /\ Len(str) \in Nat
      /\ Code(v, i) = v[i].code /\ Pos(v, i) \in P
    BY VectorFacts
<1>2. v[i].code = "LITERAL" =>
         \A c \in 0..(Len(str) + 1 + MaxBehind) : Pos(v, i) + c \in P
    BY VectorFacts
<1>3. MaxBehind \in Nat
    BY ParserAssumption
<1>4. other \in 0..Len(str) /\ other \in 0..(Len(str) + 1 + MaxBehind)
    <2>1. 0 \in 0..Len(str)
        BY <1>1
    <2>2. other \in 0..Len(str)
        BY <1>1, <2>1, FirstOtherFacts
    <2> HIDE DEF other, str
    <2> QED
        BY <1>1, <1>3, <2>2
<1> HIDE DEF str, other
<1>5. CASE v[i].code # "LITERAL" \/ str = <<>> \/ str[1] \notin Letters
    <2>1. r = No({Pos(v, i)})
        BY <1>1, <1>5 DEF identifier, str
    <2> QED
        BY <1>1, <2>1, NoGood, Results
<1>6. CASE v[i].code = "LITERAL" /\ str # <<>> /\ str[1] \in Letters /\ other < Len(str)
    <2>1. r = No({Pos(v, i) + other})
        BY <1>1, <1>6 DEF identifier, str, other
    <2>2. Pos(v, i) + other \in P
        BY <1>2, <1>4, <1>6
    <2> QED
        BY <2>1, <2>2, NoGood, Results
<1>7. CASE v[i].code = "LITERAL" /\ str # <<>> /\ str[1] \in Letters /\ ~(other < Len(str))
    <2>1. r = Yes(i)
        BY <1>1, <1>7 DEF identifier, str, other
    <2>2. i \in i..m
        BY <1>1
    <2> QED
        BY <1>1, <1>7, <2>1, <2>2, YesGood, Results
<1> QED
    BY <1>5, <1>6, <1>7

LEMMA alphanumGood ==
    ASSUME NEW v, NEW m, NEW P, Vector(v, m, P), NEW i \in 1..m
    PROVE  Good(alphanum(v, i), i, m, P)
<1> DEFINE str == v[i].str
           r == alphanum(v, i)
           other == FirstOther(str, 0, Letters \union Digits)
<1>1. /\ i \in Nat /\ m \in Nat /\ str \in Seq(Chars) /\ Len(str) \in Nat
      /\ Code(v, i) = v[i].code /\ Pos(v, i) \in P
    BY VectorFacts
<1>2. v[i].code = "LITERAL" =>
         \A c \in 0..(Len(str) + 1 + MaxBehind) : Pos(v, i) + c \in P
    BY VectorFacts
<1>3. MaxBehind \in Nat
    BY ParserAssumption
<1>4. other \in 0..Len(str) /\ other \in 0..(Len(str) + 1 + MaxBehind)
    <2>1. 0 \in 0..Len(str)
        BY <1>1
    <2>2. other \in 0..Len(str)
        BY <1>1, <2>1, FirstOtherFacts
    <2> HIDE DEF other, str
    <2> QED
        BY <1>1, <1>3, <2>2
<1> HIDE DEF str, other
<1>5. CASE v[i].code # "LITERAL" \/ str = <<>>
    <2>1. r = No({Pos(v, i)})
        BY <1>1, <1>5 DEF alphanum, str
    <2> QED
        BY <1>1, <2>1, NoGood
<1>6. CASE v[i].code = "LITERAL" /\ str # <<>> /\ other < Len(str)
    <2>1. r = No({Pos(v, i) + other})
        BY <1>1, <1>6 DEF alphanum, str, other
    <2>2. Pos(v, i) + other \in P
        BY <1>2, <1>4, <1>6
    <2> QED
        BY <2>1, <2>2, NoGood
<1>7. CASE v[i].code = "LITERAL" /\ str # <<>> /\ ~(other < Len(str))
    <2>1. r = Yes(i)
        BY <1>1, <1>7 DEF alphanum, str, other
    <2>2. i \in i..m
        BY <1>1
    <2> QED
        BY <1>1, <2>1, <2>2, YesGood
<1> QED
    BY <1>5, <1>6, <1>7

\* Where textStr stops: at most one character and the bytes it finds behind the string.
LEMMA QuotationStopFacts ==
    ASSUME NEW str \in Seq(Chars), str # <<>>, NEW behind \in 0..MaxBehind
    PROVE  QuotationStop(str, behind) \in 0..(Len(str) + 1 + MaxBehind)
<1> DEFINE n == Len(str) + 1
           Plain(k) == str[k + 1] \notin {"\"", "\\"}
           Escaped(k) == \/ check_sequence(str, k, <<"\\", "\\">>)
                         \/ check_sequence(str, k, <<"\\", "\"">>)
           next == [k \in 1..Len(str) + 1 |->
                      IF k >= Len(str) THEN 0
                      ELSE IF Plain(k) THEN k + 1
                      ELSE IF Escaped(k) THEN k + 3
                      ELSE 0]
           stop == EndOfLoop(next, 1)
<1>1. n \in Nat /\ 1 \in 1..n /\ Len(str) \in Nat /\ MaxBehind \in Nat
    BY ParserAssumption
<1>2. QuotationStop(str, behind) = IF stop >= Len(str) THEN stop + behind ELSE stop
    BY Zenon DEF QuotationStop
<1>3. ASSUME NEW k \in 1..n, Escaped(k)
      PROVE  k + 2 <= Len(str)
    <2>1. \A a, b : check_sequence(str, k, <<a, b>>) => k + Len(<<a, b>>) <= Len(str)
        BY DEF check_sequence
    <2> QED
        BY <1>3, <2>1, PrefixFacts
<1> HIDE DEF Plain, Escaped
<1>4. \A k \in 1..n : next[k] = 0 \/ next[k] \in (k + 1)..n
    <2> SUFFICES ASSUME NEW k \in 1..n PROVE next[k] = 0 \/ next[k] \in (k + 1)..n
        OBVIOUS
    <2>1. CASE k >= Len(str)
        BY <2>1
    <2>2. CASE ~(k >= Len(str)) /\ Plain(k)
        BY <2>2
    <2>3. CASE ~(k >= Len(str)) /\ ~Plain(k) /\ Escaped(k)
        <3>1. next[k] = k + 3 /\ k + 2 <= Len(str)
            BY <1>3, <2>3
        <3> QED
            BY <1>1, <3>1
    <2>4. CASE ~(k >= Len(str)) /\ ~Plain(k) /\ ~Escaped(k)
        BY <2>4
    <2> QED
        BY <2>1, <2>2, <2>3, <2>4
<1>5. DOMAIN next = 1..n
    OBVIOUS
<1>6. stop \in 1..n
    <2> HIDE DEF next, n
    <2>1. \A k \in 1..n : next[k] = 0 \/ next[k] \in 1..n
        <3> SUFFICES ASSUME NEW k \in 1..n PROVE next[k] = 0 \/ next[k] \in 1..n
            OBVIOUS
        <3>1. next[k] = 0 \/ next[k] \in (k + 1)..n
            BY <1>4
        <3> QED
            BY <1>1, <3>1
    <2>2. 1..n \subseteq 1..n
        OBVIOUS
    <2> QED
        BY <1>1, <1>4, <1>5, <2>1, <2>2, LoopEnds
<1> HIDE DEF stop
<1> QED
    BY <1>1, <1>2, <1>6

LEMMA textStrGood ==
    ASSUME NEW v, NEW m, NEW P, Vector(v, m, P), NEW i \in 1..m, NEW behind \in 0..MaxBehind
    PROVE  Good(textStr(v, i, behind), i, m, P)
<1> DEFINE str == v[i].str
           r == textStr(v, i, behind)
           stop == QuotationStop(str, behind)
<1>1. /\ i \in Nat /\ m \in Nat /\ str \in Seq(Chars) /\ Len(str) \in Nat
      /\ Code(v, i) = v[i].code /\ Pos(v, i) \in P
    BY VectorFacts
<1>2. v[i].code = "LITERAL" =>
         \A c \in 0..(Len(str) + 1 + MaxBehind) : Pos(v, i) + c \in P
    BY VectorFacts
<1>3. MaxBehind \in Nat
    BY ParserAssumption
<1>4. str # <<>> => stop \in 0..(Len(str) + 1 + MaxBehind)
    BY <1>1, QuotationStopFacts
<1> HIDE DEF str, stop
<1>5. CASE v[i].code # "LITERAL" \/ str = <<>> \/ str[1] # Quote
    <2>1. r = No({Pos(v, i)})
        BY Zenon, <1>1, <1>5 DEF textStr, str, Quote
    <2> QED
        BY <1>1, <2>1, NoGood
<1> DEFINE Quoted == v[i].code = "LITERAL" /\ str # <<>> /\ str[1] = Quote
           Unended == stop >= Len(str) \/ str[stop + 1] # Quote
<1>6. CASE Quoted /\ Unended
    <2>1. r = No({Pos(v, i) + stop})
        BY Zenon, <1>1, <1>6 DEF textStr, str, stop, Quote
    <2>2. Pos(v, i) + stop \in P
        BY <1>2, <1>4, <1>6
    <2> QED
        BY <2>1, <2>2, NoGood
<1>7. CASE Quoted /\ ~Unended /\ stop + 1 < Len(str)
    <2>1. r = No({Pos(v, i) + stop + 1})
        BY Zenon, <1>1, <1>7 DEF textStr, str, stop, Quote
    <2>2. Pos(v, i) + (stop + 1) \in P
        <3>1. stop + 1 \in 0..(Len(str) + 1 + MaxBehind)
            BY <1>1, <1>3, <1>4, <1>7
        <3> QED
            BY <1>2, <1>7, <3>1
    <2>3. Pos(v, i) + stop + 1 = Pos(v, i) + (stop + 1)
        <3>1. Pos(v, i) \in Int
            BY VectorFacts, WholeVector
        <3>2. stop \in Int
            BY <1>4, <1>7
        <3> QED
            BY <3>1, <3>2
    <2> QED
        BY <2>1, <2>2, <2>3, NoGood
<1>8. CASE Quoted /\ ~Unended /\ ~(stop + 1 < Len(str))
    <2>1. r = Yes(i)
        BY Zenon, <1>1, <1>8 DEF textStr, str, stop, Quote
    <2>2. i \in i..m
        BY <1>1
    <2> QED
        BY <1>1, <2>1, <2>2, YesGood
<1> QED
    BY <1>5, <1>6, <1>7, <1>8

\* The facts of a word that its rule needs.
LEMMA WordAt ==
    ASSUME NEW v, NEW m, NEW P, Vector(v, m, P), NEW i \in 1..m
    PROVE  /\ i \in Nat /\ m \in Nat /\ i \in i..m
           /\ Code(v, i) = v[i].code /\ v[i].str \in Seq(Chars) /\ Len(v[i].str) \in Nat
           /\ Pos(v, i) \in P /\ NextPos(v, i) \in P
           /\ v[i].code = "LITERAL" =>
                 /\ v[i].str # <<>> /\ i + 1 \in 1..m /\ i + 1 \in i..m
                 /\ \A c \in 0..(Len(v[i].str) + 1) : Pos(v, i) + c \in P
<1>1. /\ i \in Nat /\ m \in Nat /\ MaxBehind \in Nat /\ Len(v[i].str) \in Nat
    BY VectorFacts, ParserAssumption
<1>2. i \in i..m
    BY <1>1
<1>3. \A c \in 0..(Len(v[i].str) + 1) : c \in 0..(Len(v[i].str) + 1 + MaxBehind)
    BY <1>1
<1>4. i + 1 \in 1..m => i + 1 \in i..m
    BY <1>1
<1> QED
    BY <1>1, <1>2, <1>3, <1>4, VectorFacts

LEMMA SomeOperators ==
    {"DOT", "MINUS", "PLUS", "HASH", "PERCENT", "STAR", "INCREMENT", "RANGE", "RANGE_COMP",
     "GROUP", "GROUP_COMP", "COMMA", "COLON", "EQUAL", "BRACKET_OPEN", "BRACKET_CLOSE"}
        \subseteq OperatorCodes \ {"SEMICOLON"}
<1>1. \A k \in 1..17 : Operators[k].code \in OperatorCodes
    BY CodesAre
<1> QED
    BY <1>1, OperatorParts

\* Behind an operator that is no semicolon there is a word.
LEMMA WordBehind ==
    ASSUME NEW v, NEW m, NEW P, Vector(v, m, P), NEW i \in 1..m,
           v[i].code \in OperatorCodes \ {"SEMICOLON"}
    PROVE  i + 1 \in 1..m /\ v[i + 1].code \in {"EMPTY", "LITERAL"}
<1>1. /\ Len(v) \in Nat /\ m \in 1..Len(v) /\ m % 2 = 0 /\ i \in Nat /\ i \in 1..Len(v)
      /\ v[m].code \in {"SEMICOLON", "EOF"}
    BY VectorFacts DEF Vector
<1>2. \A code \in OperatorCodes : code \notin {"EOF", "EMPTY", "LITERAL"}
    BY CodesAre
<1>3. i % 2 = 0
    <2>1. i % 2 = 0 \/ i % 2 = 1
        BY <1>1
    <2>2. i % 2 = 1 => v[i].code \in {"EMPTY", "LITERAL"}
        BY <1>1 DEF Vector
    <2> QED
        BY <1>2, <2>1, <2>2
<1>4. i # m
    BY <1>1, <1>2
<1>5. i + 1 \in 1..m /\ i + 1 \in 1..Len(v)
    BY <1>1, <1>4
<1>6. (i + 1) % 2 = 1
    BY <1>1, <1>3, Parity
<1> QED
    BY <1>5, <1>6 DEF Vector

\* The digits of one literal.
DigitsAt(v, j, from) ==
    LET other == FirstOther(v[j].str, from, Digits)
    IN  IF Code(v, j) # "LITERAL" THEN No({Pos(v, j)})
        ELSE IF other < Len(v[j].str) THEN No({Pos(v, j) + other})
        ELSE Yes(j)

LEMMA DigitsAtGood ==
    ASSUME NEW v, NEW m, NEW P, Vector(v, m, P), NEW i \in 1..m,
           NEW from \in 0..Len(v[i].str)
    PROVE  LET r == DigitsAt(v, i, from)
           IN  Good(r, i, m, P) /\ (r.ok => r.at = i /\ v[i].code = "LITERAL")
<1> DEFINE str == v[i].str
           r == DigitsAt(v, i, from)
           other == FirstOther(str, from, Digits)
<1>1. /\ i \in Nat /\ m \in Nat /\ i \in i..m /\ Len(str) \in Nat /\ str \in Seq(Chars)
      /\ Code(v, i) = v[i].code /\ Pos(v, i) \in P
      /\ v[i].code = "LITERAL" => \A c \in 0..(Len(str) + 1) : Pos(v, i) + c \in P
    BY WordAt
<1>2. other \in from..Len(str)
    BY <1>1, FirstOtherFacts
<1> HIDE DEF other
<1>3. other \in 0..(Len(str) + 1)
    BY <1>1, <1>2
<1>4. CASE v[i].code # "LITERAL"
    <2>1. r = No({Pos(v, i)})
        BY <1>1, <1>4 DEF DigitsAt
    <2> QED
        BY <1>1, <2>1, NoGood, Results
<1>5. CASE v[i].code = "LITERAL" /\ other < Len(str)
    <2>1. r = No({Pos(v, i) + other})
        BY <1>1, <1>5 DEF DigitsAt, other
    <2>2. Pos(v, i) + other \in P
        BY <1>1, <1>3, <1>5
    <2> QED
        BY <2>1, <2>2, NoGood, Results
<1>6. CASE v[i].code = "LITERAL" /\ ~(other < Len(str))
    <2>1. r = Yes(i)
        BY <1>1, <1>6 DEF DigitsAt, other
    <2> QED
        BY <1>1, <1>6, <2>1, YesGood, Results
<1> QED
    BY <1>4, <1>5, <1>6

LEMMA dec_numGood ==
    ASSUME NEW v, NEW m, NEW P, Vector(v, m, P), NEW i \in 1..m,
           NEW prefix, Len(prefix) \in Nat
    PROVE  LET r == dec_num(v, i, prefix)
           IN  Good(r, i, m, P) /\ (r.ok => v[r.at].code = "LITERAL")
<1> DEFINE r == dec_num(v, i, prefix)
           whole == DigitsAt(v, i, Skip(v[i].str, prefix))
           part == DigitsAt(v, i + 2, 0)
<1>1. /\ i \in Nat /\ m \in Nat /\ i \in i..m /\ v[i].str \in Seq(Chars)
    BY WordAt
<1>2. Good(whole, i, m, P) /\ (whole.ok => whole.at = i /\ v[i].code = "LITERAL")
    <2>1. Skip(v[i].str, prefix) \in 0..Len(v[i].str)
        BY SMTT(30), <1>1, SkipFacts
    <2> QED
        BY <2>1, DigitsAtGood
<1>3. r = IF ~whole.ok THEN whole
          ELSE IF NextCode(v, whole.at) = "DOT" THEN DigitsAt(v, whole.at + 2, 0)
          ELSE Yes(whole.at)
    BY DEF dec_num, Then, DigitsAt
<1> HIDE DEF r, whole
<1> DEFINE Right == Good(r, i, m, P) /\ (r.ok => v[r.at].code = "LITERAL")
<1>4. ASSUME ~whole.ok PROVE Right
    BY <1>2, <1>3, <1>4
<1>5. ASSUME whole.ok, NextCode(v, i) = "DOT" PROVE Right
    <2>1. r = part
        BY <1>2, <1>3, <1>5
    <2>2. i + 2 \in 1..m
        BY <1>5, StepOver, SomeOperators
    <2>3. 0 \in 0..Len(v[i + 2].str)
        BY <2>2, WordAt
    <2>4. Good(part, i + 2, m, P) /\ (part.ok => part.at = i + 2 /\ v[i + 2].code = "LITERAL")
        BY <2>2, <2>3, DigitsAtGood
    <2>5. i + 2 \in i..m
        BY <1>1, <2>2
    <2> HIDE DEF part
    <2> QED
        BY <1>1, <2>1, <2>4, <2>5, GoodFrom
<1>6. ASSUME whole.ok, NextCode(v, i) # "DOT" PROVE Right
    <2>1. r = Yes(i)
        BY <1>2, <1>3, <1>6
    <2> QED
        BY <1>1, <1>2, <1>6, <2>1, YesGood, Results
<1> QED
    BY <1>2, <1>4, <1>5, <1>6 DEF r

LEMMA RadixNumGood ==
    ASSUME NEW v, NEW m, NEW P, Vector(v, m, P), NEW i \in 1..m,
           NEW prefix, Len(prefix) \in Nat, NEW digits
    PROVE  Good(RadixNum(v, i, prefix, digits), i, m, P)
<1> DEFINE str == v[i].str
           r == RadixNum(v, i, prefix, digits)
           skip == Skip(str, prefix)
           other == FirstOther(str, skip, digits)
<1>1. /\ i \in Nat /\ m \in Nat /\ i \in i..m /\ Len(str) \in Nat /\ str \in Seq(Chars)
      /\ Code(v, i) = v[i].code /\ Pos(v, i) \in P
      /\ v[i].code = "LITERAL" => \A c \in 0..(Len(str) + 1) : Pos(v, i) + c \in P
    BY WordAt
<1>2. skip \in 0..Len(str)
    BY <1>1, SkipFacts
<1>3. other \in skip..Len(str)
    BY <1>1, <1>2, FirstOtherFacts
<1> HIDE DEF other, skip
<1>4. other \in 0..(Len(str) + 1)
    BY <1>1, <1>2, <1>3
<1>5. CASE v[i].code # "LITERAL"
    <2>1. r = No({Pos(v, i)})
        BY <1>1, <1>5 DEF RadixNum
    <2> QED
        BY <1>1, <2>1, NoGood
<1>6. CASE v[i].code = "LITERAL" /\ (skip = Len(str) \/ other < Len(str))
    <2>1. r = No({Pos(v, i) + other})
        BY <1>1, <1>6 DEF RadixNum, other, skip
    <2>2. Pos(v, i) + other \in P
        BY <1>1, <1>4, <1>6
    <2> QED
        BY <2>1, <2>2, NoGood
<1>7. CASE v[i].code = "LITERAL" /\ ~(skip = Len(str) \/ other < Len(str))
    <2>1. r = Yes(i)
        BY <1>1, <1>7 DEF RadixNum, other, skip
    <2> QED
        BY <1>1, <2>1, YesGood
<1> QED
    BY <1>5, <1>6, <1>7

LEMMA RadicesGood ==
    ASSUME NEW v, NEW m, NEW P, Vector(v, m, P), NEW i \in 1..m
    PROVE  /\ Good(hex_num(v, i), i, m, P)
           /\ Good(oct_num(v, i), i, m, P)
           /\ Good(bin_num(v, i), i, m, P)
<1>1. ASSUME NEW prefix, Len(prefix) \in Nat
      PROVE  \A digits : Good(RadixNum(v, i, prefix, digits), i, m, P)
    BY <1>1, RadixNumGood
<1>2. \A a, b : \A digits : Good(RadixNum(v, i, <<a, b>>, digits), i, m, P)
    BY <1>1, PrefixFacts
<1> QED
    BY Zenon, <1>2 DEF hex_num, oct_num, bin_num

LEMMA sym_nameGood ==
    ASSUME NEW v, NEW m, NEW P, Vector(v, m, P), NEW i \in 1..m
    PROVE  Good(sym_name(v, i), i, m, P)
<1> DEFINE n == Len(v)
           Behind(j) == IF Code(v, j) = "LITERAL" THEN j + 1 ELSE j
           Spoiled(j) == Code(v, j) = "LITERAL" /\ ~SymLiteralGood(v[j].str)
           Joins(j) == Code(v, Behind(j)) \in {"PLUS", "HASH", "PERCENT"}
           next == [j \in DOMAIN v |-> IF ~Spoiled(j) /\ Joins(j) THEN Behind(j) + 1 ELSE 0]
           last == EndOfLoop(next, i)
           r == sym_name(v, i)
<1>1. /\ n \in Nat /\ m \in Nat /\ m \in 1..n /\ DOMAIN v = 1..n /\ i \in Nat
    BY VectorFacts
<1>2. ASSUME NEW Q, NEW q, Vector(v, q, Q), NEW k \in 1..q
      PROVE  Behind(k) \in k..q
    <2>1. Code(v, k) = v[k].code /\ k \in k..q /\ (v[k].code = "LITERAL" => k + 1 \in k..q)
        BY <1>2, WordAt
    <2> QED
        BY <2>1
<1>3. r = IF Spoiled(last) THEN No({Pos(v, last) + 1})
          ELSE IF last # i THEN Yes(Behind(last)) ELSE No({Pos(v, Behind(last))})
    BY DEF sym_name
<1>4. \A k : Spoiled(k) => Code(v, k) = "LITERAL"
    OBVIOUS
<1> HIDE DEF Behind, Spoiled
<1>5. ASSUME NEW Q, NEW q, Vector(v, q, Q), NEW k \in 1..q, k \in 1..n
      PROVE  next[k] = 0 \/ next[k] \in (k + 1)..q
    <2>1. CASE ~(~Spoiled(k) /\ Joins(k))
        BY <1>1, <1>5, <2>1
    <2>2. CASE ~Spoiled(k) /\ Joins(k)
        <3>1. Behind(k) \in k..q /\ q \in Nat /\ k \in Nat
            BY <1>2, <1>5, VectorFacts
        <3>2. Code(v, q) \in {"SEMICOLON", "EOF"}
            BY <1>5, VectorFacts
        <3>3. Behind(k) # q
            BY <2>2, <3>2
        <3>4. next[k] = Behind(k) + 1
            BY <1>1, <1>5, <2>2
        <3> QED
            BY <3>1, <3>3, <3>4
    <2> QED
        BY <2>1, <2>2
<1>6. \A k \in 1..n : next[k] = 0 \/ next[k] \in (k + 1)..n
    BY <1>5, WholeVector
<1>7. \A k \in 1..m : next[k] = 0 \/ next[k] \in (k + 1)..m
    <2>1. \A k \in 1..m : k \in 1..n
        BY <1>1
    <2> QED
        BY <1>5, <2>1
<1>8. DOMAIN next = 1..n
    BY <1>1
<1> HIDE DEF next, n
<1>9. \A k \in i..m : next[k] = 0 \/ next[k] \in i..m
    <2> SUFFICES ASSUME NEW k \in i..m PROVE next[k] = 0 \/ next[k] \in i..m
        OBVIOUS
    <2>1. k \in 1..m
        OBVIOUS
    <2>2. next[k] = 0 \/ next[k] \in (k + 1)..m
        BY <1>7, <2>1
    <2> QED
        BY <1>1, <2>2
<1>10. last \in i..m
    <2>1. i..m \subseteq 1..n /\ i \in i..m
        BY <1>1
    <2> QED
        BY <1>1, <1>6, <1>8, <1>9, <2>1, LoopEnds
<1> HIDE DEF last
<1>11. last \in 1..m
    BY <1>1, <1>10
<1>12. Behind(last) \in last..m
    BY <1>2, <1>11
<1>13. Behind(last) \in i..m /\ Behind(last) \in 1..m
    BY <1>1, <1>10, <1>12
<1> HIDE DEF r
<1>14. Good(r, i, m, P)
    <2>1. CASE Spoiled(last)
        <3>1. v[last].code = "LITERAL"
            BY <1>4, <1>11, <2>1, WordAt
        <3>2. 1 \in 0..(Len(v[last].str) + 1)
            BY <1>11, WordAt
        <3>3. Pos(v, last) + 1 \in P
            BY <1>11, <3>1, <3>2, WordAt
        <3> QED
            BY <1>3, <2>1, <3>3, NoGood
    <2>2. CASE ~Spoiled(last) /\ last # i
        BY <1>1, <1>3, <1>13, <2>2, YesGood
    <2>3. CASE ~Spoiled(last) /\ last = i
        <3>1. Pos(v, Behind(last)) \in P
            BY <1>13, VectorFacts
        <3>2. r = No({Pos(v, Behind(last))})
            BY <1>3, <2>3
        <3> QED
            BY <3>1, <3>2, NoGood
    <2> QED
        BY <2>1, <2>2, <2>3
<1> QED
    BY <1>14 DEF r

LEMMA keyed_numGood ==
    ASSUME NEW v, NEW m, NEW P, Vector(v, m, P), NEW i \in 1..m
    PROVE  Good(keyed_num(v, i), i, m, P)
<1> DEFINE n == Len(v)
           prefix == <<"K", "'">>
           more == {"*", "#"}
           skip(j) == IF j = i THEN Skip(v[j].str, prefix) ELSE 0
           other(j) == FirstOther(v[j].str, skip(j), Digits \union KeyedLetters \union more)
           Spoiled(j) == Code(v, j) = "LITERAL" /\ other(j) < Len(v[j].str)
           Found(j) == \/ j # i
                       \/ Code(v, j) \in {"HASH", "STAR"}
                       \/ Code(v, j) = "LITERAL" /\ skip(j) < Len(v[j].str)
           Joins(j) == NextCode(v, j) \in {"LITERAL", "HASH", "STAR"}
           next == [j \in DOMAIN v |->
                      IF ~Spoiled(j) /\ Found(j) /\ Joins(j) THEN j + 1 ELSE 0]
           last == EndOfLoop(next, i)
           r == keyed_num(v, i)
           R == {j \in i..m : j = i \/ j # m}
<1>1. /\ n \in Nat /\ m \in Nat /\ m \in 1..n /\ DOMAIN v = 1..n /\ i \in Nat
      /\ Code(v, m) \in {"SEMICOLON", "EOF"} /\ i \in i..m
    BY VectorFacts
<1>2. r = IF Spoiled(last) THEN No({Pos(v, last) + other(last)})
          ELSE IF ~Found(last) THEN No({Pos(v, last)}) ELSE Yes(last)
    BY Zenon DEF keyed_num
<1>3. Len(prefix) \in Nat
    BY PrefixFacts
<1> HIDE DEF prefix, more
<1>4. ASSUME NEW k \in 1..m
      PROVE  other(k) \in 0..(Len(v[k].str) + 1)
    <2>1. v[k].str \in Seq(Chars) /\ Len(v[k].str) \in Nat
        BY WordAt
    <2>2. skip(k) \in 0..Len(v[k].str)
        BY <1>3, <2>1, SkipFacts
    <2> HIDE DEF skip
    <2>3. other(k) \in skip(k)..Len(v[k].str)
        BY <2>1, <2>2, FirstOtherFacts
    <2> QED
        BY <2>1, <2>2, <2>3
<1>5. \A k : Spoiled(k) => Code(v, k) = "LITERAL"
    OBVIOUS
<1>6. ~Found(m) \/ i # m
    BY <1>1
<1> HIDE DEF skip, other, Spoiled, Found
<1>7. ASSUME NEW k \in 1..n, Joins(k)
      PROVE  k + 1 \in (k + 1)..n
    <2>1. k + 1 \in DOMAIN v
        BY <1>7 DEF NextCode, Code
    <2> QED
        BY <1>1, <2>1
<1>8. \A k \in 1..n : next[k] = 0 \/ next[k] \in (k + 1)..n
    BY <1>1, <1>7
<1>9. DOMAIN next = 1..n
    BY <1>1
<1>10. \A k \in R : next[k] = 0 \/ next[k] \in R
    <2> SUFFICES ASSUME NEW k \in R, next[k] # 0 PROVE next[k] \in R
        OBVIOUS
    <2>1. k \in 1..n /\ k \in i..m
        BY <1>1
    <2>2. Found(k) /\ Joins(k) /\ next[k] = k + 1
        BY <1>1, <2>1
    <2>3. k # m
        BY <1>6, <2>2
    <2>4. k + 1 # m
        BY <1>1, <2>2 DEF NextCode
    <2>5. k + 1 \in i..m
        BY <1>1, <2>1, <2>3
    <2> QED
        BY <2>2, <2>4, <2>5
<1>11. R \subseteq 1..n /\ i \in R /\ R \subseteq i..m /\ R \subseteq 1..m
    BY <1>1
<1> HIDE DEF next, n, R
<1>12. last \in R
    BY <1>1, <1>8, <1>9, <1>10, <1>11, LoopEnds
<1> HIDE DEF last, r
<1>13. last \in i..m /\ last \in 1..m
    BY <1>11, <1>12
<1>14. Good(r, i, m, P)
    <2>1. CASE Spoiled(last)
        <3>1. v[last].code = "LITERAL"
            BY <1>5, <1>13, <2>1, WordAt
        <3>2. Pos(v, last) + other(last) \in P
            BY <1>4, <1>13, <3>1, WordAt
        <3> QED
            BY <1>2, <2>1, <3>2, NoGood
    <2>2. CASE ~Spoiled(last) /\ ~Found(last)
        <3>1. Pos(v, last) \in P
            BY <1>13, WordAt
        <3> QED
            BY <1>2, <2>2, <3>1, NoGood
    <2>3. CASE ~Spoiled(last) /\ Found(last)
        BY <1>1, <1>2, <1>13, <2>3, YesGood
    <2> QED
        BY <2>1, <2>2, <2>3
<1> QED
    BY <1>14 DEF r

LEMMA arith_exprGood ==
    ASSUME NEW v, NEW m, NEW P, Vector(v, m, P), NEW i \in 1..m
    PROVE  Good(arith_expr(v, i), i, m, P)
<1> DEFINE number == dec_num(v, i + 1, <<>>)
           r == arith_expr(v, i)
<1>1. /\ i \in Nat /\ m \in Nat /\ i \in i..m /\ Code(v, i) = v[i].code /\ Pos(v, i) \in P
    BY WordAt
<1>2. CASE v[i].code # "BRACKET_OPEN"
    <2>1. r = No({Pos(v, i)})
        BY <1>1, <1>2 DEF arith_expr
    <2> QED
        BY <1>1, <2>1, NoGood
<1>3. CASE v[i].code = "BRACKET_OPEN"
    <2>1. i + 1 \in 1..m /\ v[i + 1].code \in {"EMPTY", "LITERAL"}
        BY <1>3, SomeOperators, WordBehind
    <2>2. SignSkipped(v, i + 1) = i + 1
        <3>1. Code(v, i + 1) \in {"EMPTY", "LITERAL"}
            BY <2>1, WordAt
        <3> QED
            BY <3>1 DEF SignSkipped
    <2>3. Good(number, i + 1, m, P) /\ (number.ok => v[number.at].code = "LITERAL")
        BY <2>1, PrefixFacts, dec_numGood
    <2>4. r = IF ~number.ok THEN number
              ELSE IF NextCode(v, number.at) = "BRACKET_CLOSE" THEN Yes(number.at + 1)
              ELSE No({Pos(v, number.at + 1)})
        BY <1>1, <1>3, <2>2 DEF arith_expr, Then
    <2> HIDE DEF number, r
    <2>5. ASSUME ~number.ok PROVE Good(r, i, m, P)
        <3>1. i + 1 \in i..m
            BY <1>1, <2>1
        <3> QED
            BY <1>1, <2>3, <2>4, <2>5, <3>1, GoodFrom
    <2>6. ASSUME number.ok PROVE Good(r, i, m, P)
        <3>1. number.at \in (i + 1)..m /\ v[number.at].code = "LITERAL"
            BY <2>3, <2>6 DEF Good
        <3>2. number.at \in 1..m
            BY <1>1, <3>1
        <3>3. number.at + 1 \in 1..m
            BY <3>1, <3>2, WordAt
        <3>4. number.at + 1 \in i..m /\ Pos(v, number.at + 1) \in P
            BY <1>1, <3>1, <3>3, WordAt
        <3> QED
            BY <1>1, <2>4, <2>6, <3>4, YesGood, NoGood
    <2> QED
        BY <2>5, <2>6 DEF r
<1> QED
    BY <1>2, <1>3

\* num_str accepts no token: a literal is refused, and no other token has characters.
LEMMA num_strFails ==
    ASSUME NEW v, NEW m, NEW P, Vector(v, m, P), NEW i \in 1..m
    PROVE  num_str(v, i) = No({Pos(v, i)}) /\ Good(num_str(v, i), i, m, P)
<1>1. Code(v, i) = "LITERAL" \/ v[i].str = <<>>
    BY VectorFacts
<1>2. num_str(v, i) = No({Pos(v, i)})
    BY <1>1 DEF num_str
<1> QED
    BY <1>2, WordAt, NoGood

LEMMA integerGood ==
    ASSUME NEW v, NEW m, NEW P, Vector(v, m, P), NEW i \in 1..m
    PROVE  Good(integer(v, i), i, m, P)
<1> DEFINE r == integer(v, i)
<1>1. /\ i \in Nat /\ m \in Nat /\ Code(v, i) = v[i].code /\ Pos(v, i) \in P
    BY WordAt
<1>2. CASE v[i].code = "LITERAL"
    <2>1. r = num_str(v, i)
        BY <1>1, <1>2 DEF integer
    <2>2. Good(num_str(v, i), i, m, P)
        BY num_strFails
    <2> HIDE DEF r
    <2>3. Good(r, i, m, P)
        BY <2>1, <2>2
    <2> QED
        BY <2>3 DEF r
<1>3. CASE v[i].code # "LITERAL" /\ v[i].code # "BRACKET_OPEN"
    <2>1. r = No({Pos(v, i)})
        BY <1>1, <1>3 DEF integer
    <2> QED
        BY <1>1, <2>1, NoGood
<1>4. CASE v[i].code = "BRACKET_OPEN"
    <2>1. i + 1 \in 1..m /\ v[i + 1].code \in {"EMPTY", "LITERAL"}
        BY <1>4, SomeOperators, WordBehind
    <2>2. SignSkipped(v, i + 1) = i + 1
        <3>1. Code(v, i + 1) \in {"EMPTY", "LITERAL"}
            BY <2>1, WordAt
        <3> QED
            BY <3>1 DEF SignSkipped
    <2>3. num_str(v, i + 1) = No({Pos(v, i + 1)}) /\ Pos(v, i + 1) \in P
        BY <2>1, num_strFails, WordAt
    <2>4. ~num_str(v, i + 1).ok
        BY <2>3, Results
    <2>5. r = IF Code(v, i + 1) # "LITERAL" THEN No({Pos(v, i + 1)}) ELSE num_str(v, i + 1)
        BY <1>1, <1>4, <2>2, <2>4 DEF integer, Then
    <2> QED
        BY <2>3, <2>5, NoGood
<1> QED
    BY <1>2, <1>3, <1>4

LEMMA infoUnitClassGood ==
    ASSUME NEW v, NEW m, NEW P, Vector(v, m, P), NEW i \in 1..m, NEW behind \in 0..MaxBehind
    PROVE  Good(infoUnitClass(v, i, behind), i, m, P)
<1> DEFINE c1 == identifier(v, i)
           c2 == sym_name(v, i)
           c3 == alphanum(v, i)
           c4 == dec_num(v, i, <<"D", "'">>)
           c5 == arith_expr(v, i)
           c6 == hex_num(v, i)
           c7 == oct_num(v, i)
           c8 == bin_num(v, i)
           c9 == keyed_num(v, i)
           c10 == num_str(v, i)
           c11 == integer(v, i)
           c12 == textStr(v, i, behind)
           classes == <<c1, c2, c3, c4, c5, c6, c7, c8, c9, c10, c11, c12>>
           fits == {k \in DOMAIN classes : classes[k].ok}
           r == infoUnitClass(v, i, behind)
<1>1. r = IF fits = {} THEN No(UNION {classes[k].errs : k \in DOMAIN classes})
          ELSE classes[Min(fits)]
    BY Zenon DEF infoUnitClass
<1>2. /\ Good(c1, i, m, P) /\ Good(c2, i, m, P) /\ Good(c3, i, m, P)
      /\ Good(c5, i, m, P) /\ Good(c9, i, m, P) /\ Good(c10, i, m, P)
      /\ Good(c11, i, m, P) /\ Good(c12, i, m, P)
    BY identifierGood, sym_nameGood, alphanumGood, arith_exprGood, keyed_numGood,
       num_strFails, integerGood, textStrGood
<1>3. Good(c6, i, m, P) /\ Good(c7, i, m, P) /\ Good(c8, i, m, P)
    BY RadicesGood
<1>4. Good(c4, i, m, P)
    <2>1. \A a, b : Good(dec_num(v, i, <<a, b>>), i, m, P)
        BY PrefixFacts, dec_numGood
    <2> QED
        BY Zenon, <2>1
<1> HIDE DEF c1, c2, c3, c4, c5, c6, c7, c8, c9, c10, c11, c12, r
<1>5. DOMAIN classes = 1..12 /\ \A k \in 1..12 : Good(classes[k], i, m, P)
    BY <1>2, <1>3, <1>4
<1> HIDE DEF classes
<1>6. ASSUME fits = {} PROVE Good(r, i, m, P)
    <2> DEFINE errs == UNION {classes[k].errs : k \in DOMAIN classes}
    <2>1. \A k \in 1..12 : classes[k].errs # {} /\ classes[k].errs \subseteq P
        BY <1>5, <1>6 DEF Good
    <2>2. errs # {} /\ errs \subseteq P
        <3>1. classes[1].errs # {} /\ classes[1].errs \subseteq errs
            BY <1>5, <2>1
        <3>2. errs \subseteq P
            BY <1>5, <2>1
        <3> QED
            BY <3>1, <3>2
    <2>3. r = No(errs)
        BY <1>1, <1>6
    <2> HIDE DEF errs
    <2> QED
        BY <2>2, <2>3, Results DEF Good
<1>7. ASSUME fits # {} PROVE Good(r, i, m, P)
    <2>1. fits \subseteq 1..12
        BY <1>5
    <2>2. fits \subseteq Nat
        BY <2>1
    <2>3. Min(fits) \in fits
        BY <1>7, <2>2, MinFacts
    <2> QED
        BY <1>1, <1>5, <1>7, <2>1, <2>3
<1> QED
    BY <1>6, <1>7 DEF r

-----------------------------------------------------------------------------
(* Values.                                                                 *)

\* One rule behind another.
LEMMA ChainGood ==
    ASSUME NEW v, NEW m, NEW P, Vector(v, m, P), NEW i \in 1..m,
           NEW first, Good(first, i, m, P), NEW r, ~first.ok => r = first,
           first.ok /\ first.at \in 1..m => Good(r, first.at, m, P)
    PROVE  Good(r, i, m, P)
<1>1. i \in Nat /\ m \in Nat
    BY WordAt
<1>2. CASE first.ok
    <2>1. first.at \in i..m /\ first.at \in 1..m
        BY <1>1, <1>2 DEF Good
    <2> QED
        BY <1>1, <1>2, <2>1, GoodFrom
<1>3. CASE ~first.ok
    BY <1>3
<1> QED
    BY <1>2, <1>3

LEMMA EndsInGood ==
    ASSUME NEW v, NEW m, NEW P, NEW i, NEW result, Good(result, i, m, P), NEW codes,
           NEW pos, result.ok => pos \in P
    PROVE  LET r == EndsIn(v, result, codes, pos)
           IN  Good(r, i, m, P) /\ (r.ok => r = result)
<1> DEFINE r == EndsIn(v, result, codes, pos)
<1>1. CASE result.ok /\ NextCode(v, result.at) \notin codes
    <2>1. r = No({pos})
        BY <1>1 DEF EndsIn
    <2> QED
        BY <1>1, <2>1, NoGood, Results
<1>2. CASE ~(result.ok /\ NextCode(v, result.at) \notin codes)
    <2>1. r = result
        BY <1>2 DEF EndsIn
    <2> HIDE DEF r
    <2>2. Good(r, i, m, P) /\ (r.ok => r = result)
        BY <2>1
    <2> QED
        BY <2>2 DEF r
<1> QED
    BY <1>1, <1>2

LEMMA RangeEndGood ==
    ASSUME NEW v, NEW m, NEW P, Vector(v, m, P), NEW unit, Table(v, m, P, unit),
           NEW i \in 1..m, NEW operator \in OperatorCodes \ {"SEMICOLON"}
    PROVE  Good(RangeEnd(v, i, operator, unit), i, m, P)
<1> DEFINE r == RangeEnd(v, i, operator, unit)
           f == unit[i + 2]
           Increment(j) == IF NextCode(v, j) = "INCREMENT" THEN dec_num(v, j + 2, <<>>)
                           ELSE Yes(j)
<1>1. i \in Nat /\ m \in Nat /\ i \in i..m
    BY WordAt
<1>2. CASE NextCode(v, i) # operator
    <2>1. r = Yes(i)
        BY <1>2 DEF RangeEnd
    <2> QED
        BY <1>1, <2>1, YesGood
<1>3. CASE NextCode(v, i) = operator
    <2>1. i + 2 \in 1..m
        BY <1>3, StepOver
    <2>2. Good(f, i + 2, m, P) /\ i + 2 \in i..m
        BY <1>1, <2>1 DEF Table
    <2>3. Good(f, i, m, P)
        BY <1>1, <2>2, GoodFrom
    <2>4. r = IF f.ok THEN Increment(f.at) ELSE f
        BY <1>3 DEF RangeEnd, Then
    <2>5. ASSUME NEW j \in 1..m PROVE Good(Increment(j), j, m, P)
        <3>1. j \in Nat /\ j \in j..m
            BY WordAt
        <3>2. CASE NextCode(v, j) = "INCREMENT"
            <4>1. j + 2 \in 1..m
                BY <3>2, StepOver, SomeOperators
            <4>2. Good(dec_num(v, j + 2, <<>>), j + 2, m, P) /\ j + 2 \in j..m
                BY <3>1, <4>1, dec_numGood, PrefixFacts
            <4>3. Good(dec_num(v, j + 2, <<>>), j, m, P)
                BY <1>1, <3>1, <4>2, GoodFrom
            <4> QED
                BY <3>2, <4>3
        <3>3. CASE NextCode(v, j) # "INCREMENT"
            <4>1. Increment(j) = Yes(j)
                BY <3>3
            <4> QED
                BY <1>1, <3>1, <4>1, YesGood
        <3> QED
            BY <3>2, <3>3
    <2> HIDE DEF r, f, Increment
    <2>6. Good(r, i, m, P)
        BY <2>3, <2>4, <2>5, ChainGood
    <2> QED
        BY <2>6 DEF r
<1> QED
    BY <1>2, <1>3

LEMMA UnitAt ==
    ASSUME NEW v, NEW m, NEW P, NEW unit, Table(v, m, P, unit), NEW i \in 1..m
    PROVE  Good(unit[i], i, m, P)
BY DEF Table

LEMMA simpleSeqGood ==
    ASSUME NEW v, NEW m, NEW P, Vector(v, m, P), NEW unit, Table(v, m, P, unit),
           NEW i \in 1..m
    PROVE  Good(simpleSeq(v, i, unit), i, m, P)
<1> DEFINE r == simpleSeq(v, i, unit)
           f == unit[i]
<1>1. Good(f, i, m, P)
    BY UnitAt
<1>2. r = IF f.ok THEN RangeEnd(v, f.at, "RANGE", unit) ELSE f
    BY DEF simpleSeq, Then
<1>3. \A j \in 1..m : Good(RangeEnd(v, j, "RANGE", unit), j, m, P)
    BY RangeEndGood, SomeOperators
<1> HIDE DEF r, f
<1>4. Good(r, i, m, P)
    BY <1>1, <1>2, <1>3, ChainGood
<1> QED
    BY <1>4 DEF r

LEMMA linked_seqGood ==
    ASSUME NEW v, NEW m, NEW P, Vector(v, m, P), NEW unit, Table(v, m, P, unit),
           NEW i \in 1..m
    PROVE  Good(linked_seq(v, i, unit), i, m, P)
<1> DEFINE r == linked_seq(v, i, unit)
           f == unit[i]
<1>1. Good(f, i, m, P)
    BY UnitAt
<1>2. r = IF f.ok THEN RangeEnd(v, f.at, "RANGE_COMP", unit) ELSE f
    BY DEF linked_seq, Then
<1>3. \A j \in 1..m : Good(RangeEnd(v, j, "RANGE_COMP", unit), j, m, P)
    BY RangeEndGood, SomeOperators
<1> HIDE DEF r, f
<1>4. Good(r, i, m, P)
    BY <1>1, <1>2, <1>3, ChainGood
<1> QED
    BY <1>4 DEF r

\* A list behind its separator.
LEMMA ListBehindGood ==
    ASSUME NEW v, NEW m, NEW P, Vector(v, m, P), NEW rule, Table(v, m, P, rule),
           NEW j \in 1..m, NEW separator \in OperatorCodes \ {"SEMICOLON"},
           NextCode(v, j) = separator
    PROVE  Good(SeparatedBy(v, j + 2, rule, separator), j, m, P)
<1>1. j \in Nat /\ m \in Nat
    BY WordAt
<1>2. j + 2 \in 1..m
    BY StepOver
<1>3. j + 2 \in j..m
    BY <1>1, <1>2
<1>4. Good(SeparatedBy(v, j + 2, rule, separator), j + 2, m, P)
    BY <1>2, SeparatedByGood
<1> QED
    BY <1>1, <1>3, <1>4, GoodFrom

LEMMA cmp_argGood ==
    ASSUME NEW v, NEW m, NEW P, Vector(v, m, P), NEW unit, Table(v, m, P, unit),
           NEW i \in 1..m
    PROVE  Good(cmp_arg(v, i, unit), i, m, P)
<1> DEFINE r == cmp_arg(v, i, unit)
           f == unit[i]
           Others(j) == IF NextCode(v, j) = "MINUS"
                        THEN SeparatedBy(v, j + 2, unit, "MINUS") ELSE No({NextPos(v, j)})
<1>1. Good(f, i, m, P)
    BY UnitAt
<1>2. r = IF f.ok THEN Others(f.at) ELSE f
    BY DEF cmp_arg, Then
<1>3. ASSUME NEW j \in 1..m PROVE Good(Others(j), j, m, P)
    <2>1. CASE NextCode(v, j) = "MINUS"
        <3>1. Good(SeparatedBy(v, j + 2, unit, "MINUS"), j, m, P)
            BY <2>1, ListBehindGood, SomeOperators
        <3> QED
            BY <2>1, <3>1
    <2>2. CASE NextCode(v, j) # "MINUS"
        <3>1. Others(j) = No({NextPos(v, j)}) /\ NextPos(v, j) \in P
            BY <2>2, WordAt
        <3> QED
            BY <3>1, NoGood
    <2> QED
        BY <2>1, <2>2
<1> HIDE DEF r, f, Others
<1>4. Good(r, i, m, P)
    BY <1>1, <1>2, <1>3, ChainGood
<1> QED
    BY <1>4 DEF r

LEMMA cmp_seqGood ==
    ASSUME NEW v, NEW m, NEW P, Vector(v, m, P), NEW unit, Table(v, m, P, unit),
           NEW i \in 1..m
    PROVE  Good(cmp_seq(v, i, unit), i, m, P)
<1> DEFINE r == cmp_seq(v, i, unit)
           f == cmp_arg(v, i, unit)
<1>1. Good(f, i, m, P)
    BY cmp_argGood
<1>2. r = IF f.ok THEN RangeEnd(v, f.at, "RANGE_COMP", unit) ELSE f
    BY DEF cmp_seq, Then
<1>3. \A j \in 1..m : Good(RangeEnd(v, j, "RANGE_COMP", unit), j, m, P)
    BY RangeEndGood, SomeOperators
<1> HIDE DEF r, f
<1>4. Good(r, i, m, P)
    BY <1>1, <1>2, <1>3, ChainGood
<1> QED
    BY <1>4 DEF r

LEMMA linksTable ==
    ASSUME NEW v, NEW m, NEW P, Vector(v, m, P), NEW unit, Table(v, m, P, unit)
    PROVE  Table(v, m, P, [j \in DOMAIN v |-> linked_seq(v, j, unit)])
<1>1. DOMAIN v = 1..Len(v) /\ \A k \in 1..m : k \in 1..Len(v)
    BY VectorFacts
<1>2. \A k \in 1..m : Good(linked_seq(v, k, unit), k, m, P)
    BY linked_seqGood
<1>3. \A k \in 1..Len(v) : Good(linked_seq(v, k, unit), k, Len(v), Int)
    BY WholeVector, WholeTable, linked_seqGood
<1> QED
    BY <1>1, <1>2, <1>3 DEF Table

LEMMA cmp_chainGood ==
    ASSUME NEW v, NEW m, NEW P, Vector(v, m, P), NEW unit, Table(v, m, P, unit),
           NEW i \in 1..m
    PROVE  Good(cmp_chain(v, i, unit), i, m, P)
<1> DEFINE r == cmp_chain(v, i, unit)
           f == cmp_seq(v, i, unit)
           links == [j \in DOMAIN v |-> linked_seq(v, j, unit)]
           Others(j) == IF NextCode(v, j) = "GROUP_COMP"
                        THEN SeparatedBy(v, j + 2, links, "GROUP_COMP") ELSE Yes(j)
<1>1. Good(f, i, m, P)
    BY cmp_seqGood
<1>2. r = IF f.ok THEN Others(f.at) ELSE f
    BY DEF cmp_chain, Then
<1>3. Table(v, m, P, links)
    BY linksTable
<1> HIDE DEF links
<1>4. ASSUME NEW j \in 1..m PROVE Good(Others(j), j, m, P)
    <2>1. CASE NextCode(v, j) = "GROUP_COMP"
        <3>1. Good(SeparatedBy(v, j + 2, links, "GROUP_COMP"), j, m, P)
            BY <1>3, <2>1, ListBehindGood, SomeOperators
        <3> QED
            BY <2>1, <3>1
    <2>2. CASE NextCode(v, j) # "GROUP_COMP"
        <3>1. Others(j) = Yes(j) /\ j \in Nat /\ m \in Nat /\ j \in j..m
            BY <2>2, WordAt
        <3> QED
            BY <3>1, YesGood
    <2> QED
        BY <2>1, <2>2
<1> HIDE DEF r, f, Others
<1>5. Good(r, i, m, P)
    BY <1>1, <1>2, <1>4, ChainGood
<1> QED
    BY <1>5 DEF r

\* The errors of two attempts.
LEMMA BothFail ==
    ASSUME NEW i, NEW m, NEW P, NEW a, Good(a, i, m, P), ~a.ok,
           NEW k, NEW b, Good(b, k, m, P), ~b.ok
    PROVE  Good(No(a.errs \union b.errs), i, m, P)
<1>1. a.errs # {} /\ a.errs \union b.errs \subseteq P
    BY DEF Good
<1>2. a.errs \union b.errs # {}
    BY <1>1
<1> QED
    BY <1>1, <1>2, Results DEF Good

LEMMA seq_chainGood ==
    ASSUME NEW v, NEW m, NEW P, Vector(v, m, P), NEW unit, Table(v, m, P, unit),
           NEW i \in 1..m
    PROVE  Good(seq_chain(v, i, unit), i, m, P)
<1> DEFINE r == seq_chain(v, i, unit)
           simple == simpleSeq(v, i, unit)
           from == IF simple.ok THEN simple.at ELSE i
           chain == cmp_chain(v, from, unit)
           fsimple == EndsIn(v, simple, ArgEnds, NextPos(v, simple.at))
           fchain == EndsIn(v, chain, ArgEnds, NextPos(v, chain.at))
<1>1. i \in Nat /\ m \in Nat /\ i \in i..m
    BY WordAt
<1>2. r = IF fsimple.ok THEN simple ELSE IF fchain.ok THEN chain
          ELSE No(fsimple.errs \union fchain.errs)
    BY DEF seq_chain
<1>3. Good(simple, i, m, P)
    BY simpleSeqGood
<1> HIDE DEF simple
<1>4. from \in i..m
    BY <1>1, <1>3 DEF Good
<1>5. from \in 1..m /\ Good(chain, from, m, P)
    <2>1. from \in 1..m
        BY <1>1, <1>4
    <2> HIDE DEF from
    <2> QED
        BY <2>1, cmp_chainGood
<1> HIDE DEF from, chain
<1>6. Good(chain, i, m, P)
    BY <1>1, <1>4, <1>5, GoodFrom
<1>7. ASSUME NEW x, Good(x, i, m, P), x.ok PROVE NextPos(v, x.at) \in P
    <2>1. x.at \in 1..m
        BY <1>1, <1>7 DEF Good
    <2> QED
        BY <2>1, WordAt
<1>8. Good(fsimple, i, m, P)
    BY <1>3, <1>7, EndsInGood
<1>9. Good(fchain, i, m, P)
    BY <1>6, <1>7, EndsInGood
<1> HIDE DEF fsimple, fchain, r
<1>10. Good(r, i, m, P)
    <2>1. ~fsimple.ok /\ ~fchain.ok => Good(No(fsimple.errs \union fchain.errs), i, m, P)
        BY <1>8, <1>9, BothFail
    <2> QED
        BY <1>2, <1>3, <1>6, <2>1
<1> QED
    BY <1>10 DEF r

LEMMA chainsTable ==
    ASSUME NEW v, NEW m, NEW P, Vector(v, m, P), NEW unit, Table(v, m, P, unit)
    PROVE  Table(v, m, P, [j \in DOMAIN v |-> seq_chain(v, j, unit)])
<1>1. DOMAIN v = 1..Len(v) /\ \A k \in 1..m : k \in 1..Len(v)
    BY VectorFacts
<1>2. \A k \in 1..m : Good(seq_chain(v, k, unit), k, m, P)
    BY seq_chainGood
<1>3. \A k \in 1..Len(v) : Good(seq_chain(v, k, unit), k, Len(v), Int)
    BY WholeVector, WholeTable, seq_chainGood
<1> QED
    BY <1>1, <1>2, <1>3 DEF Table

LEMMA param_valueGood ==
    ASSUME NEW v, NEW m, NEW P, Vector(v, m, P), NEW unit, Table(v, m, P, unit),
           NEW i \in 1..m
    PROVE  Good(param_value(v, i, unit), i, m, P)
<1> DEFINE chains == [j \in DOMAIN v |-> seq_chain(v, j, unit)]
           list == SeparatedBy(v, i, chains, "GROUP")
<1>1. Table(v, m, P, chains)
    BY chainsTable
<1> HIDE DEF chains
<1>2. Good(list, i, m, P)
    BY <1>1, SeparatedByGood, SomeOperators
<1> HIDE DEF list
<1>3. Pos(v, i) \in P
    BY WordAt
<1>4. Good(EndsIn(v, list, ParamEnds, Pos(v, i)), i, m, P)
    BY <1>2, <1>3, EndsInGood
<1> QED
    BY <1>4 DEF param_value, paramValueComplex, list, chains

LEMMA valuesTable ==
    ASSUME NEW v, NEW m, NEW P, Vector(v, m, P), NEW unit, Table(v, m, P, unit)
    PROVE  Table(v, m, P, [j \in DOMAIN v |-> param_value(v, j, unit)])
<1>1. DOMAIN v = 1..Len(v) /\ \A k \in 1..m : k \in 1..Len(v)
    BY VectorFacts
<1>2. \A k \in 1..m : Good(param_value(v, k, unit), k, m, P)
    BY param_valueGood
<1>3. \A k \in 1..Len(v) : Good(param_value(v, k, unit), k, Len(v), Int)
    BY WholeVector, WholeTable, param_valueGood
<1> QED
    BY <1>1, <1>2, <1>3 DEF Table

LEMMA unitsTable ==
    ASSUME NEW v, NEW m, NEW P, Vector(v, m, P), NEW behind \in 0..MaxBehind
    PROVE  Table(v, m, P, [j \in DOMAIN v |-> infoUnitClass(v, j, behind)])
<1>1. DOMAIN v = 1..Len(v) /\ \A k \in 1..m : k \in 1..Len(v)
    BY VectorFacts
<1>2. \A k \in 1..m : Good(infoUnitClass(v, k, behind), k, m, P)
    BY infoUnitClassGood
<1>3. \A k \in 1..Len(v) : Good(infoUnitClass(v, k, behind), k, Len(v), Int)
    BY WholeVector, infoUnitClassGood
<1> QED
    BY <1>1, <1>2, <1>3 DEF Table

-----------------------------------------------------------------------------
(* Blocks.                                                                 *)

LEMMA NextIdentifier ==
    ASSUME NEW v, NEW m, NEW P, Vector(v, m, P), NEW j \in 1..m,
           NextCode(v, j) \in OperatorCodes \ {"SEMICOLON"}
    PROVE  Good(identifier(v, j + 2), j, m, P)
<1>1. j \in Nat /\ m \in Nat /\ j + 2 \in 1..m
    BY StepOver, WordAt
<1>2. j + 2 \in j..m /\ Good(identifier(v, j + 2), j + 2, m, P)
    BY <1>1, identifierGood
<1> QED
    BY <1>1, <1>2, GoodFrom

LEMMA NextValue ==
    ASSUME NEW v, NEW m, NEW P, Vector(v, m, P), NEW value, Table(v, m, P, value),
           NEW j \in 1..m, NextCode(v, j) \in OperatorCodes \ {"SEMICOLON"}
    PROVE  Good(value[j + 2], j, m, P)
<1>1. j \in Nat /\ m \in Nat /\ j + 2 \in 1..m
    BY StepOver, WordAt
<1>2. j + 2 \in j..m /\ Good(value[j + 2], j + 2, m, P)
    BY <1>1, UnitAt
<1> QED
    BY <1>1, <1>2, GoodFrom

LEMMA cmd_codeGood ==
    ASSUME NEW v, NEW m, NEW P, Vector(v, m, P), NEW i \in 1..m
    PROVE  Good(cmd_code(v, i), i, m, P)
<1> DEFINE r == cmd_code(v, i)
           first == identifier(v, i)
           second == identifier(v, i + 2)
           Third(j) == IF NextCode(v, j) \in {"MINUS", "HASH"}
                       THEN identifier(v, j + 2) ELSE Yes(j)
           tail == IF second.ok THEN Third(second.at) ELSE second
           rest == IF NextCode(v, i) = "MINUS" THEN tail ELSE Yes(i + 1)
<1>1. i \in Nat /\ m \in Nat
    BY WordAt
<1>2. Good(first, i, m, P) /\ (first.ok => first.at = i /\ v[i].code = "LITERAL")
    BY identifierGood
<1>3. r = IF ~first.ok THEN first
          ELSE IF NextCode(v, first.at) = "MINUS"
               THEN Then(identifier(v, first.at + 2), Third) ELSE Yes(first.at + 1)
    BY DEF cmd_code, Then
<1>4. tail = Then(second, Third)
    BY DEF Then
<1>5. ASSUME NEW j \in 1..m PROVE Good(Third(j), j, m, P)
    <2>1. CASE NextCode(v, j) \in {"MINUS", "HASH"}
        <3>1. Good(identifier(v, j + 2), j, m, P)
            BY <2>1, NextIdentifier, SomeOperators
        <3> QED
            BY <2>1, <3>1
    <2>2. CASE NextCode(v, j) \notin {"MINUS", "HASH"}
        <3>1. Third(j) = Yes(j) /\ j \in Nat /\ j \in j..m
            BY <2>2, WordAt
        <3> QED
            BY <1>1, <3>1, YesGood
    <2> QED
        BY <2>1, <2>2
<1>6. ASSUME NextCode(v, i) = "MINUS" PROVE Good(tail, i, m, P)
    <2>1. Good(second, i, m, P)
        BY <1>6, NextIdentifier, SomeOperators
    <2> HIDE DEF second, Third
    <2> QED
        BY <1>5, <2>1, ChainGood
<1>7. first.ok => r = rest
    BY <1>2, <1>3, <1>4
<1> HIDE DEF r, first, tail, Third
<1>8. Good(r, i, m, P)
    <2>1. CASE ~first.ok
        BY <1>2, <1>3, <2>1
    <2>2. CASE first.ok /\ NextCode(v, i) = "MINUS"
        BY <1>6, <1>7, <2>2
    <2>3. CASE first.ok /\ NextCode(v, i) # "MINUS"
        <3>1. r = Yes(i + 1) /\ i + 1 \in i..m
            BY <1>2, <1>7, <2>3, WordAt
        <3> QED
            BY <1>1, <3>1, YesGood
    <2> QED
        BY <2>1, <2>2, <2>3
<1> QED
    BY <1>8 DEF r

LEMMA tidGood ==
    ASSUME NEW v, NEW m, NEW P, Vector(v, m, P), NEW i \in 1..m, NEW behind \in 0..MaxBehind
    PROVE  Good(tid(v, i, behind), i, m, P)
<1> DEFINE r == tid(v, i, behind)
           first == identifier(v, i)
           Others(j) == IF NextCode(v, j) = "MINUS" THEN identifier(v, j + 1) ELSE Yes(j)
           words == IF first.ok THEN Others(first.at) ELSE first
           quoted == textStr(v, i, behind)
<1>1. i \in Nat /\ m \in Nat /\ i \in i..m
    BY WordAt
<1>2. Good(first, i, m, P) /\ (first.ok => first.at = i /\ v[i].code = "LITERAL")
    BY identifierGood
<1>3. words = Then(first, Others)
    BY DEF Then
<1>4. r = IF words.ok THEN words ELSE IF quoted.ok THEN quoted
          ELSE No(words.errs \union quoted.errs)
    BY <1>3 DEF tid
<1>5. Good(quoted, i, m, P)
    BY textStrGood
<1>6. ASSUME first.ok PROVE Good(Others(i), i, m, P)
    <2>1. CASE NextCode(v, i) = "MINUS"
        <3>1. i + 1 \in 1..m /\ i + 1 \in i..m
            BY <1>2, <1>6, WordAt
        <3>2. Good(identifier(v, i + 1), i + 1, m, P)
            BY <3>1, identifierGood
        <3>3. Good(identifier(v, i + 1), i, m, P)
            BY <1>1, <3>1, <3>2, GoodFrom
        <3> QED
            BY <2>1, <3>3
    <2>2. CASE NextCode(v, i) # "MINUS"
        <3>1. Others(i) = Yes(i)
            BY <2>2
        <3> QED
            BY <1>1, <3>1, YesGood
    <2> QED
        BY <2>1, <2>2
<1> HIDE DEF first, Others, quoted, r
<1>7. Good(words, i, m, P)
    BY <1>2, <1>6
<1> HIDE DEF words
<1>8. Good(r, i, m, P)
    <2>1. ~words.ok /\ ~quoted.ok => Good(No(words.errs \union quoted.errs), i, m, P)
        BY <1>5, <1>7, BothFail
    <2> QED
        BY <1>4, <1>5, <1>7, <2>1
<1> QED
    BY <1>8 DEF r

LEMMA aid_unitGood ==
    ASSUME NEW v, NEW m, NEW P, Vector(v, m, P), NEW value, Table(v, m, P, value),
           NEW i \in 1..m
    PROVE  Good(aid_unit(v, i, value), i, m, P)
<1> DEFINE r == aid_unit(v, i, value)
           name == identifier(v, i)
<1>1. i \in Nat /\ m \in Nat /\ i \in i..m
    BY WordAt
<1>2. Good(name, i, m, P) /\ (name.ok => name.at = i)
    BY identifierGood
<1>3. r = IF NextCode(v, i) = "EQUAL"
          THEN IF name.ok THEN value[name.at + 2] ELSE name
          ELSE IF Code(v, i) = "EMPTY" THEN Yes(i) ELSE value[i]
    BY DEF aid_unit, Then
<1>4. NextCode(v, i) = "EQUAL" => Good(value[i + 2], i, m, P)
    BY NextValue, SomeOperators
<1>5. Good(value[i], i, m, P) /\ Good(Yes(i), i, m, P)
    BY <1>1, UnitAt, YesGood
<1> HIDE DEF r, name
<1>6. Good(r, i, m, P)
    BY <1>2, <1>3, <1>4, <1>5
<1> QED
    BY <1>6 DEF r

LEMMA aidGood ==
    ASSUME NEW v, NEW m, NEW P, Vector(v, m, P), NEW value, Table(v, m, P, value),
           NEW i \in 1..m
    PROVE  /\ Good(aid(v, i, value), i, m, P)
           /\ Good(pos_def_param_seq(v, i, value), i, m, P)
<1> DEFINE units == [j \in DOMAIN v |-> aid_unit(v, j, value)]
<1>1. DOMAIN v = 1..Len(v) /\ \A k \in 1..m : k \in 1..Len(v)
    BY VectorFacts
<1>2. \A k \in 1..m : Good(aid_unit(v, k, value), k, m, P)
    BY aid_unitGood
<1>3. \A k \in 1..Len(v) : Good(aid_unit(v, k, value), k, Len(v), Int)
    BY WholeVector, WholeTable, aid_unitGood
<1>4. Table(v, m, P, units)
    BY <1>1, <1>2, <1>3 DEF Table
<1> HIDE DEF units
<1>5. Good(SeparatedBy(v, i, units, "COMMA"), i, m, P)
    BY <1>4, SeparatedByGood, SomeOperators
<1> QED
    BY <1>5 DEF aid, pos_def_param_seq, pos_def_param, units

LEMMA name_def_paramGood ==
    ASSUME NEW v, NEW m, NEW P, Vector(v, m, P), NEW value, Table(v, m, P, value),
           NEW i \in 1..m
    PROVE  Good(name_def_param(v, i, value), i, m, P)
<1> DEFINE r == name_def_param(v, i, value)
           name == identifier(v, i)
<1>1. Good(name, i, m, P) /\ (name.ok => name.at = i /\ v[i].code = "LITERAL")
    BY identifierGood
<1>2. r = IF ~name.ok THEN name
          ELSE IF NextCode(v, name.at) = "EQUAL" THEN value[name.at + 2]
          ELSE No({Pos(v, name.at + 1)})
    BY DEF name_def_param, Then
<1>3. NextCode(v, i) = "EQUAL" => Good(value[i + 2], i, m, P)
    BY NextValue, SomeOperators
<1>4. v[i].code = "LITERAL" => Pos(v, i + 1) \in P
    BY WordAt
<1>5. v[i].code = "LITERAL" => Good(No({Pos(v, i + 1)}), i, m, P)
    BY <1>4, NoGood
<1> HIDE DEF r, name
<1>6. Good(r, i, m, P)
    BY <1>1, <1>2, <1>3, <1>5
<1> QED
    BY <1>6 DEF r

LEMMA name_def_param_seqGood ==
    ASSUME NEW v, NEW m, NEW P, Vector(v, m, P), NEW value, Table(v, m, P, value),
           NEW i \in 1..m
    PROVE  Good(name_def_param_seq(v, i, value), i, m, P)
<1> DEFINE units == [j \in DOMAIN v |-> name_def_param(v, j, value)]
<1>1. DOMAIN v = 1..Len(v) /\ \A k \in 1..m : k \in 1..Len(v)
    BY VectorFacts
<1>2. \A k \in 1..m : Good(name_def_param(v, k, value), k, m, P)
    BY name_def_paramGood
<1>3. \A k \in 1..Len(v) : Good(name_def_param(v, k, value), k, Len(v), Int)
    BY WholeVector, WholeTable, name_def_paramGood
<1>4. Table(v, m, P, units)
    BY <1>1, <1>2, <1>3 DEF Table
<1> HIDE DEF units
<1>5. Good(SeparatedBy(v, i, units, "COMMA"), i, m, P)
    BY <1>4, SeparatedByGood, SomeOperators
<1> QED
    BY <1>5 DEF name_def_param_seq, units

LEMMA ctagGood ==
    ASSUME NEW v, NEW m, NEW P, Vector(v, m, P), NEW i \in 1..m
    PROVE  Good(ctag(v, i), i, m, P)
<1> DEFINE r == ctag(v, i)
           name == identifier(v, i)
           number == dec_num(v, i, <<"D", "'">>)
           Followed(result) == result.ok /\ NextCode(v, result.at) \in BlockEnds
           errs == Leaf(name.errs \union number.errs, Pos(v, i))
<1>1. r = IF Followed(name) THEN name ELSE IF Followed(number) THEN number ELSE No(errs)
    BY Zenon DEF ctag
<1>2. Good(name, i, m, P)
    BY identifierGood
<1>3. Good(number, i, m, P)
    <2>1. \A a, b : Good(dec_num(v, i, <<a, b>>), i, m, P)
        BY PrefixFacts, dec_numGood
    <2> QED
        BY Zenon, <2>1
<1>4. Pos(v, i) \in P
    BY WordAt
<1> HIDE DEF r, name, number
<1>5. name.errs \subseteq P /\ number.errs \subseteq P
    BY <1>2, <1>3 DEF Good
<1>6. errs # {} /\ errs \subseteq P
    BY <1>4, <1>5 DEF Leaf
<1> HIDE DEF errs
<1>7. Good(No(errs), i, m, P)
    BY <1>6, Results DEF Good
<1>8. Good(r, i, m, P)
    BY <1>1, <1>2, <1>3, <1>7
<1> QED
    BY <1>8 DEF r

LEMMA payload_blockGood ==
    ASSUME NEW v, NEW m, NEW P, Vector(v, m, P), NEW value, Table(v, m, P, value),
           NEW i \in 1..m
    PROVE  Good(payload_block(v, i, value), i, m, P)
<1> DEFINE r == payload_block(v, i, value)
           positional == pos_def_param_seq(v, i, value)
           from == IF positional.ok THEN positional.at ELSE i
           named == name_def_param_seq(v, from, value)
           fpositional == EndsIn(v, positional, BlockEnds, Pos(v, positional.at))
           fnamed == EndsIn(v, named, BlockEnds, Pos(v, named.at))
<1>1. i \in Nat /\ m \in Nat /\ i \in i..m
    BY WordAt
<1>2. r = IF fpositional.ok THEN positional ELSE IF fnamed.ok THEN named
          ELSE No(fpositional.errs \union fnamed.errs)
    BY DEF payload_block
<1>3. Good(positional, i, m, P)
    BY aidGood
<1> HIDE DEF positional
<1>4. from \in i..m
    BY <1>1, <1>3 DEF Good
<1>5. from \in 1..m /\ Good(named, from, m, P)
    <2>1. from \in 1..m
        BY <1>1, <1>4
    <2> HIDE DEF from
    <2> QED
        BY <2>1, name_def_param_seqGood
<1> HIDE DEF from, named
<1>6. Good(named, i, m, P)
    BY <1>1, <1>4, <1>5, GoodFrom
<1>7. ASSUME NEW x, Good(x, i, m, P), x.ok PROVE Pos(v, x.at) \in P
    <2>1. x.at \in 1..m
        BY <1>1, <1>7 DEF Good
    <2> QED
        BY <2>1, WordAt
<1>8. Good(fpositional, i, m, P)
    BY <1>3, <1>7, EndsInGood
<1>9. Good(fnamed, i, m, P)
    BY <1>6, <1>7, EndsInGood
<1> HIDE DEF fpositional, fnamed, r
<1>10. Good(r, i, m, P)
    <2>1. ~fpositional.ok /\ ~fnamed.ok =>
             Good(No(fpositional.errs \union fnamed.errs), i, m, P)
        BY <1>8, <1>9, BothFail
    <2> QED
        BY <1>2, <1>3, <1>6, <2>1
<1> QED
    BY <1>10 DEF r

LEMMA TheOnly ==
    ASSUME NEW x, NEW S, S = {x}
    PROVE  The(S) = x
BY DEF The

LEMMA payload_blocksGood ==
    ASSUME NEW v, NEW m, NEW P, Vector(v, m, P), NEW value, Table(v, m, P, value),
           NEW i \in 1..m
    PROVE  Good(payload_blocks(v, i, value), i, m, P)
<1> DEFINE n == Len(v)
           block(j) == payload_block(v, j + 2, value)
           next == [j \in DOMAIN v |->
                      IF NextCode(v, j) = "COLON"
                      THEN LET payload == block(j) IN IF payload.ok THEN payload.at ELSE 0
                      ELSE 0]
           last == EndOfLoop(next, i)
           Result(k) ==
              CASE NextCode(v, k) = "SEMICOLON" -> Yes(k)
                [] NextCode(v, k) = "COLON" -> block(k)
                [] NextCode(v, k) \notin {"SEMICOLON", "COLON"} -> No({Pos(v, k)})
           results == {Result(k) : k \in {last}}
           r == payload_blocks(v, i, value)
<1>1. /\ n \in Nat /\ m \in Nat /\ m \in 1..n /\ DOMAIN v = 1..n /\ i \in Nat
    BY VectorFacts
<1>2. ASSUME NEW Q, NEW q, Vector(v, q, Q), Table(v, q, Q, value), NEW k \in 1..q,
             NextCode(v, k) = "COLON"
      PROVE  /\ k + 2 \in 1..q /\ Good(block(k), k + 2, q, Q)
             /\ block(k).ok => block(k).at \in (k + 1)..q
    <2>1. k \in Nat /\ q \in Nat /\ k + 2 \in 1..q
        BY <1>2, StepOver, SomeOperators, WordAt
    <2>2. Good(block(k), k + 2, q, Q)
        BY <1>2, <2>1, payload_blockGood
    <2> HIDE DEF block
    <2>3. block(k).ok => block(k).at \in (k + 2)..q
        BY <2>2 DEF Good
    <2>4. \A x \in (k + 2)..q : x \in (k + 1)..q
        BY <2>1
    <2> QED
        BY <2>1, <2>2, <2>3, <2>4
<1>3. r = Result(last)
    <2>1. r = The(results)
        BY DEF payload_blocks
    <2> HIDE DEF block, next, last, r, Result
    <2>2. results = {Result(last)}
        BY Zenon
    <2> HIDE DEF results
    <2> QED
        BY <2>1, <2>2, TheOnly
<1> HIDE DEF block, results
<1>4. ASSUME NEW Q, NEW q, Vector(v, q, Q), Table(v, q, Q, value), NEW k \in 1..q, k \in 1..n
      PROVE  next[k] = 0 \/ next[k] \in (k + 1)..q
    <2>1. CASE NextCode(v, k) = "COLON" /\ block(k).ok
        <3>1. block(k).at \in (k + 1)..q
            BY <1>2, <1>4, <2>1
        <3>2. next[k] = block(k).at
            BY <1>1, <1>4, <2>1
        <3> QED
            BY <3>1, <3>2
    <2>2. CASE ~(NextCode(v, k) = "COLON" /\ block(k).ok)
        BY <1>1, <1>4, <2>2
    <2> QED
        BY <2>1, <2>2
<1>5. \A k \in 1..n : next[k] = 0 \/ next[k] \in (k + 1)..n
    BY <1>4, WholeVector, WholeTable
<1>6. \A k \in 1..m : next[k] = 0 \/ next[k] \in (k + 1)..m
    <2>1. \A k \in 1..m : k \in 1..n
        BY <1>1
    <2> QED
        BY <1>4, <2>1
<1>7. DOMAIN next = 1..n
    BY <1>1
<1> HIDE DEF next, n
<1>8. \A k \in i..m : next[k] = 0 \/ next[k] \in i..m
    <2> SUFFICES ASSUME NEW k \in i..m PROVE next[k] = 0 \/ next[k] \in i..m
        OBVIOUS
    <2>1. k \in 1..m
        OBVIOUS
    <2>2. next[k] = 0 \/ next[k] \in (k + 1)..m
        BY <1>6, <2>1
    <2> QED
        BY <1>1, <2>2
<1>9. last \in i..m
    <2>1. i..m \subseteq 1..n /\ i \in i..m
        BY <1>1
    <2> QED
        BY <1>1, <1>5, <1>7, <1>8, <2>1, LoopEnds
<1> HIDE DEF last, r
<1>10. last \in 1..m /\ Pos(v, last) \in P
    <2>1. last \in 1..m
        BY <1>1, <1>9
    <2> QED
        BY <2>1, WordAt
<1>11. Good(r, i, m, P)
    <2>1. CASE NextCode(v, last) = "SEMICOLON"
        <3>1. r = Yes(last)
            BY <1>3, <2>1
        <3> QED
            BY <1>1, <1>9, <3>1, YesGood
    <2>2. CASE NextCode(v, last) = "COLON"
        <3>1. r = block(last)
            BY <1>3, <2>2
        <3>2. last + 2 \in 1..m /\ Good(block(last), last + 2, m, P)
            BY <1>2, <1>10, <2>2
        <3>3. last + 2 \in i..m
            BY <1>1, <1>9, <3>2
        <3> QED
            BY <1>1, <3>1, <3>2, <3>3, GoodFrom
    <2>3. CASE NextCode(v, last) \notin {"SEMICOLON", "COLON"}
        <3>1. r = No({Pos(v, last)})
            BY <1>3, <2>3
        <3> QED
            BY <1>10, <3>1, NoGood
    <2> QED
        BY <2>1, <2>2, <2>3
<1> QED
    BY <1>11 DEF r

\* A block behind the colon of the one before.
LEMMA FollowGood ==
    ASSUME NEW v, NEW m, NEW P, Vector(v, m, P), NEW i \in 1..m,
           NEW first, Good(first, i, m, P), NEW block,
           first.ok /\ NextCode(v, first.at) = "COLON" /\ first.at + 2 \in 1..m =>
              Good(block, first.at + 2, m, P),
           NEW r,
           r = IF ~first.ok THEN first
               ELSE IF NextCode(v, first.at) = "COLON" THEN block ELSE No({Pos(v, first.at)})
    PROVE  Good(r, i, m, P)
<1>1. i \in Nat /\ m \in Nat
    BY WordAt
<1>2. CASE ~first.ok
    BY <1>2
<1>3. CASE first.ok
    <2>1. first.at \in i..m /\ first.at \in 1..m
        BY <1>1, <1>3 DEF Good
    <2>2. CASE NextCode(v, first.at) = "COLON"
        <3>1. first.at + 2 \in 1..m
            BY <2>1, <2>2, StepOver, SomeOperators
        <3>2. first.at + 2 \in i..m
            BY <1>1, <2>1, <3>1
        <3>3. Good(block, first.at + 2, m, P) /\ r = block
            BY <1>3, <2>2, <3>1
        <3> QED
            BY <1>1, <3>2, <3>3, GoodFrom
    <2>3. CASE NextCode(v, first.at) # "COLON"
        <3>1. r = No({Pos(v, first.at)}) /\ Pos(v, first.at) \in P
            BY <1>3, <2>1, <2>3, WordAt
        <3> QED
            BY <3>1, NoGood
    <2> QED
        BY <2>2, <2>3
<1> QED
    BY <1>2, <1>3

LEMMA parseBlocksGood ==
    ASSUME NEW v, NEW m, NEW P, Vector(v, m, P), NEW value, Table(v, m, P, value),
           NEW behind \in 0..MaxBehind
    PROVE  Good(parseBlocks(v, value, behind), 1, m, P)
<1> DEFINE Tid(i) == IF Code(v, i) = "EMPTY" THEN Yes(i) ELSE tid(v, i, behind)
           Aid(i) == aid(v, i, value)
           Ctag(i) == ctag(v, i)
           General(i) == payload_blocks(v, i, value)
           r1 == cmd_code(v, 1)
           r2 == Follow(v, r1, Tid)
           r3 == Follow(v, r2, Aid)
           r4 == Follow(v, r3, Ctag)
           r == parseBlocks(v, value, behind)
<1>1. 1 \in 1..m /\ m \in Nat
    BY VectorFacts
<1>2. ASSUME NEW i \in 1..m
      PROVE  /\ Good(Tid(i), i, m, P) /\ Good(Aid(i), i, m, P)
             /\ Good(Ctag(i), i, m, P) /\ Good(General(i), i, m, P)
    <2>1. Good(Tid(i), i, m, P)
        <3>1. Good(Yes(i), i, m, P) /\ Good(tid(v, i, behind), i, m, P)
            BY <1>1, WordAt, YesGood, tidGood
        <3> QED
            BY <3>1
    <2>2. Good(Aid(i), i, m, P) /\ Good(Ctag(i), i, m, P) /\ Good(General(i), i, m, P)
        BY aidGood, ctagGood, payload_blocksGood
    <2> QED
        BY <2>1, <2>2
<1>3. /\ r2 = IF ~r1.ok THEN r1
              ELSE IF NextCode(v, r1.at) = "COLON" THEN Tid(r1.at + 2)
              ELSE No({Pos(v, r1.at)})
      /\ r3 = IF ~r2.ok THEN r2
              ELSE IF NextCode(v, r2.at) = "COLON" THEN Aid(r2.at + 2)
              ELSE No({Pos(v, r2.at)})
      /\ r4 = IF ~r3.ok THEN r3
              ELSE IF NextCode(v, r3.at) = "COLON" THEN Ctag(r3.at + 2)
              ELSE No({Pos(v, r3.at)})
    BY Zenon DEF Follow
<1>4. r = IF r4.ok /\ NextCode(v, r4.at) = "SEMICOLON" THEN r4
          ELSE IF ~r4.ok THEN r4
               ELSE IF NextCode(v, r4.at) = "COLON" THEN General(r4.at + 2)
               ELSE No({Pos(v, r4.at)})
    BY Zenon DEF parseBlocks, Follow
<1>5. Good(r1, 1, m, P)
    BY <1>1, cmd_codeGood
<1> HIDE DEF Tid, Aid, Ctag, General, r1, r2, r3, r4, r
<1>6. Good(r2, 1, m, P)
    <2>1. r1.ok /\ NextCode(v, r1.at) = "COLON" /\ r1.at + 2 \in 1..m =>
             Good(Tid(r1.at + 2), r1.at + 2, m, P)
        BY <1>2
    <2> QED
        BY <1>1, <1>3, <1>5, <2>1, FollowGood
<1>7. Good(r3, 1, m, P)
    <2>1. r2.ok /\ NextCode(v, r2.at) = "COLON" /\ r2.at + 2 \in 1..m =>
             Good(Aid(r2.at + 2), r2.at + 2, m, P)
        BY SMTT(30), <1>2
    <2> QED
        BY <1>1, <1>3, <1>6, <2>1, FollowGood
<1>8. Good(r4, 1, m, P)
    <2>1. r3.ok /\ NextCode(v, r3.at) = "COLON" /\ r3.at + 2 \in 1..m =>
             Good(Ctag(r3.at + 2), r3.at + 2, m, P)
        BY <1>2
    <2> QED
        BY <1>1, <1>3, <1>7, <2>1, FollowGood
<1>9. Good(r, 1, m, P)
    <2>1. CASE r4.ok /\ NextCode(v, r4.at) = "SEMICOLON"
        BY <1>4, <1>8, <2>1
    <2>2. CASE ~(r4.ok /\ NextCode(v, r4.at) = "SEMICOLON")
        <3>1. r4.ok /\ NextCode(v, r4.at) = "COLON" /\ r4.at + 2 \in 1..m =>
                 Good(General(r4.at + 2), r4.at + 2, m, P)
            BY <1>2
        <3>2. r = IF ~r4.ok THEN r4
                  ELSE IF NextCode(v, r4.at) = "COLON" THEN General(r4.at + 2)
                  ELSE No({Pos(v, r4.at)})
            BY <1>4, <2>2
        <3> QED
            BY <1>1, <1>8, <3>1, <3>2, FollowGood
    <2> QED
        BY <2>1, <2>2
<1> QED
    BY <1>9 DEF r

LEMMA parseGood ==
    ASSUME NEW v, NEW m, NEW P, Vector(v, m, P), NEW behind \in 0..MaxBehind
    PROVE  Good(parse(v, behind), 1, m, P)
<1> DEFINE unit == [i \in DOMAIN v |-> infoUnitClass(v, i, behind)]
           units == {unit}
           Value(u) == [i \in DOMAIN v |-> param_value(v, i, u)]
           values == {Value(u) : u \in units}
           r == parseBlocks(v, Value(unit), behind)
           results == {parseBlocks(v, value, behind) : value \in values}
<1>1. parse(v, behind) = The(results)
    BY DEF parse
<1>2. Table(v, m, P, unit)
    BY unitsTable
<1> HIDE DEF unit
<1>3. Table(v, m, P, Value(unit))
    BY <1>2, valuesTable
<1> HIDE DEF Value
<1>4. Good(r, 1, m, P)
    BY <1>3, parseBlocksGood
<1>5. results = {r}
    BY Zenon
<1> HIDE DEF results, r
<1>6. The(results) = r
    BY <1>5, TheOnly
<1> QED
    BY <1>1, <1>4, <1>6

-----------------------------------------------------------------------------
(* The tokens of a text in which a command ends.                           *)

\* What the parser makes of them lies in the text: v has a semicolon, and no rule
\* goes on behind it.
LEMMA TokensVector ==
    ASSUME NEW str \in Seq(Chars), Ends(str) # {}
    PROVE  LET v == tokenize(str)
           IN  \E m \in 1..Len(v) : Vector(v, m, 0..(Len(str) + MaxBehind))
<1> DEFINE v == tokenize(str)
           n == Len(v)
           N == Len(str)
           P == 0..(N + MaxBehind)
<1>1. /\ v \in Seq(Token) /\ n \in Nat \ {0} /\ n % 2 = 0
      /\ \A k \in 1..n : v[k].code = "EOF" <=> k = n
      /\ \A j \in 1..N : j \in Ends(str) <=> \E k \in 1..n : EndsAt(v[k], j)
    BY Tokenized
<1>2. PICK cut : Tiled(v, str, cut) /\ cut[n] = N
    BY Tokenized
<1>3. \A k \in 1..n : /\ cut[k - 1] \in 0..N /\ cut[k] \in 0..N
                      /\ cut[k - 1] <= cut[k] /\ v[k].pos = cut[k - 1]
                      /\ Len(TokenText(v[k])) = cut[k] - cut[k - 1]
    BY <1>2, TokenPlaces
<1>4. MaxBehind \in Nat /\ N \in Nat
    BY ParserAssumption
<1>5. \A k \in 1..n : /\ k % 2 = 1 => IsWord(v[k])
                      /\ k % 2 = 0 => /\ v[k].code \in OperatorCodes \union {"EOF"}
                                      /\ v[k].str = <<>>
    BY <1>2 DEF Tiled
<1> HIDE DEF v, N
<1>6. DOMAIN v = 1..n
    BY <1>1
<1>7. PICK m \in 1..n : v[m].code = "SEMICOLON"
    <2>1. PICK j \in Ends(str) : TRUE
        OBVIOUS
    <2>2. j \in 1..N
        BY DEF Ends, N
    <2> QED
        BY <1>1, <2>2 DEF EndsAt
<1>8. \A code \in OperatorCodes \union {"EOF"} : code # "LITERAL" /\ code # "EMPTY"
    BY CodesAre
<1>9. \A k \in 1..n : k % 2 = 0 \/ k % 2 = 1
    OBVIOUS
<1>10. ASSUME NEW k \in 1..n
       PROVE  /\ k % 2 = 1 => v[k].code \in {"EMPTY", "LITERAL"}
              /\ k % 2 = 0 => v[k].code \in OperatorCodes \union {"EOF"} /\ v[k].str = <<>>
              /\ v[k].code = "LITERAL" <=> v[k].str # <<>>
    BY <1>5, <1>8, <1>9 DEF IsWord
<1>11. m % 2 = 0 /\ m # n /\ m + 1 \in 1..n /\ m \in Nat
    <2>1. m % 2 = 0
        BY <1>7, <1>9, <1>10
    <2>2. m # n
        BY <1>1, <1>7
    <2> QED
        BY <1>1, <2>1, <2>2
<1>12. \A k \in 1..m : k \in 1..n /\ k + 1 \in 1..n
    BY <1>1, <1>11
<1>13. ASSUME NEW k \in 1..n PROVE v[k].pos \in P
    <2>1. v[k].pos \in 0..N
        BY <1>3
    <2> QED
        BY <1>4, <2>1
<1>14. ASSUME NEW k \in 1..m
       PROVE  Pos(v, k) \in P /\ NextPos(v, k) \in P
    BY <1>6, <1>12, <1>13 DEF Pos, NextPos
<1>15. ASSUME NEW k \in 1..m, v[k].code = "LITERAL",
              NEW c \in 0..(Len(v[k].str) + 1 + MaxBehind)
       PROVE  Pos(v, k) + c \in P
    <2> DEFINE a == cut[k - 1]
               b == cut[k]
               d == cut[k + 1]
    <2>1. TokenText(v[k]) = v[k].str
        BY <1>15, TextOfWord
    <2>2. a \in 0..N /\ b \in 0..N /\ v[k].pos = a /\ Len(v[k].str) = b - a
        BY <1>3, <1>12, <2>1
    <2>3. d \in 0..N /\ Len(TokenText(v[k + 1])) = d - b
        <3>1. k + 1 - 1 = k
            BY <1>11
        <3> QED
            BY <1>3, <1>12, <3>1
    <2>4. Len(TokenText(v[k + 1])) \in 1..4
        <3>1. k % 2 = 1
            BY <1>8, <1>9, <1>10, <1>12, <1>15
        <3>2. k + 1 \in 1..m /\ (k + 1) % 2 = 0
            <4>1. k # m /\ k \in Nat
                BY <1>11, <3>1
            <4> QED
                BY <1>11, <3>1, <4>1
        <3>3. v[k + 1].code \in OperatorCodes
            <4>1. k + 1 # n
                BY <1>1, <1>11, <3>2
            <4> QED
                BY <1>1, <1>10, <1>12, <3>2, <4>1
        <3>4. PICK o \in 1..17 : v[k + 1].code = Operators[o].code
            BY <3>3, CodesAre
        <3>5. TokenText(v[k + 1]) = Operators[o].str
            BY <3>4, TextOfOperator
        <3> QED
            BY <3>5, OperatorFacts DEF IsOperator
    <2> HIDE DEF a, b, d
    <2>5. Pos(v, k) = a /\ c \in 0..(b - a + 1 + MaxBehind) /\ d - b \in 1..4
        BY <2>2, <2>3, <2>4 DEF Pos
    <2> QED
        BY SMTT(30), <1>4, <2>2, <2>3, <2>5
<1>16. Vector(v, m, P)
    BY <1>1, <1>7, <1>10, <1>11, <1>14, <1>15 DEF Vector
<1> QED
    BY <1>16 DEF v, N

\* The result is that of the tokens, read as far behind a string as memory goes.
ParsedInv ==
    \E behind \in 0..MaxBehind : parsed = parse(tokens, behind)

LEMMA ParsedAlways == Spec => []ParsedInv
<1>1. \A str : Garbage(str) \subseteq 0..MaxBehind
    <2>1. 0 \in 0..MaxBehind
        BY ParserAssumption
    <2> QED
        BY <2>1 DEF Garbage
<1>2. Init => ParsedInv
    BY <1>1 DEF Init, ParsedInv
<1>3. ParsedInv /\ [Next]_vars => ParsedInv'
    <2> SUFFICES ASSUME ParsedInv, [Next]_vars PROVE ParsedInv'
        OBVIOUS
    <2>1. ASSUME NEW str, Edit(str) PROVE ParsedInv'
        <3>1. CASE Ends(text') # {}
            <4>1. \E behind \in Garbage(text') : parsed' = parse(tokens', behind)
                BY <2>1, <3>1 DEF Edit, TL1CommandParse
            <4> QED
                BY <1>1, <4>1 DEF ParsedInv
        <3>2. CASE Ends(text') = {}
            <4>1. tokens' = tokens /\ parsed' = parsed
                BY <2>1, <3>2 DEF Edit
            <4> QED
                BY <4>1 DEF ParsedInv
        <3> QED
            BY <3>1, <3>2
    <2>2. CASE UNCHANGED vars
        BY <2>2 DEF ParsedInv, vars
    <2> QED
        BY <2>1, <2>2 DEF Next, Type, Delete
<1> QED
    BY <1>2, <1>3, PTL DEF Spec

\* Codes and places of tokens; literals alone have characters.
LEMMA TokensWellFormed ==
    ASSUME NEW str \in Seq(Chars)
    PROVE  LET v == tokenize(str)
           IN  \A k \in DOMAIN v : /\ v[k].code \in TokenCodes
                                   /\ v[k].pos \in 0..Len(str)
                                   /\ v[k].code = "LITERAL" <=> v[k].str # <<>>
<1> DEFINE v == tokenize(str)
           n == Len(v)
<1>1. v \in Seq(Token) /\ DOMAIN v = 1..n
    BY Tokenized
<1>2. PICK cut : Tiled(v, str, cut)
    BY Tokenized
<1>3. \A k \in 1..n : v[k].pos \in 0..Len(str)
    BY <1>2, TokenPlaces
<1>4. \A k \in 1..n : /\ k % 2 = 1 => IsWord(v[k])
                      /\ k % 2 = 0 => /\ v[k].code \in OperatorCodes \union {"EOF"}
                                      /\ v[k].str = <<>>
    BY <1>2 DEF Tiled
<1> HIDE DEF v
<1>5. \A code \in OperatorCodes \union {"EOF"} : code # "LITERAL"
    BY CodesAre
<1>6. \A k \in 1..n : k % 2 = 0 \/ k % 2 = 1
    OBVIOUS
<1>7. \A k \in 1..n : v[k].code = "LITERAL" <=> v[k].str # <<>>
    BY <1>4, <1>5, <1>6 DEF IsWord
<1>8. \A k \in 1..n : v[k].code \in TokenCodes
    BY <1>1, TokenFields
<1> QED
    BY <1>1, <1>3, <1>7, <1>8 DEF v

\* What is typed is kept, and what is parsed is well formed: literals alone have
\* characters, and a command is accepted without errors or rejected with errors at
\* places of the text that was parsed, or as far behind it as textStr reads.  No
\* rule of the parser takes a token that is not there (TL1CommandParse).
THEOREM ParserTypeCorrect == Spec => []TypeOK
<1>1. TextInv /\ ParsedInv => TypeOK
    <2> SUFFICES ASSUME TextInv, ParsedInv PROVE TypeOK
        OBVIOUS
    <2> DEFINE P == 0..Len(input) + MaxBehind
    <2>1. /\ input \in Seq(Chars) /\ Ends(input) # {} /\ tokens = tokenize(input)
          /\ frame \in Frames /\ typed \in Seq(frame.keys) /\ Len(typed) <= MaxTyped
        BY DEF TextInv
    <2>2. PICK behind \in 0..MaxBehind : parsed = parse(tokens, behind)
        BY DEF ParsedInv
    <2>3. PICK m \in 1..Len(tokens) : Vector(tokens, m, P)
        BY <2>1, TokensVector
    <2>4. Good(parsed, 1, m, P)
        BY <2>2, <2>3, parseGood
    <2>5. /\ parsed.ok \in BOOLEAN /\ (parsed.ok <=> parsed.errs = {})
          /\ parsed.errs \subseteq P
        BY <2>4 DEF Good
    <2>6. \A k \in DOMAIN tokens :
             /\ tokens[k].code \in TokenCodes
             /\ tokens[k].pos \in 0..Len(input)
             /\ tokens[k].code = "LITERAL" <=> tokens[k].str # <<>>
        BY <2>1, TokensWellFormed
    <2> QED
        BY <2>1, <2>5, <2>6 DEF TypeOK
<1> QED
    BY <1>1, TextAlways, ParsedAlways, PTL
=============================================================================
