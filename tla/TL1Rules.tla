------------------------------ MODULE TL1Rules ------------------------------
(***************************************************************************)
(* The recursive-descent parser of TL1_Command.c.  v is the vector of      *)
(* tokens and i the place of its iterator; every function of the parser is *)
(* an operator from v and i to                                             *)
(*     Yes(at)   PARSE_OK, with the iterator left at "at", or              *)
(*     No(errs)  an error, with the positions of the leaves the function   *)
(*               adds to the error stack.                                  *)
(* The names of the errors are only printed and are left out.  So is the   *)
(* iterator after an error: no caller reads it before it puts its own back. *)
(*                                                                         *)
(* A token is dereferenced as v[i], so that TLC would report an iterator   *)
(* that has run off the vector.                                            *)
(***************************************************************************)
EXTENDS TL1Tokens, FiniteSetsExt

Yes(at) == [ok |-> TRUE, at |-> at, errs |-> {}]
No(errs) == [ok |-> FALSE, at |-> 0, errs |-> errs]

\* The only element of S.  F(x) as The({F(y) : y \in {x}}) lets TLC evaluate x once.
The(S) == CHOOSE x \in S : TRUE

Then(result, Rule(_)) == IF result.ok THEN Rule(result.at) ELSE result

\* getTokenCode and its relatives: past the last token everything is EOF.
Code(v, i) == IF i \in DOMAIN v THEN v[i].code ELSE "EOF"
NextCode(v, i) == Code(v, i + 1)
Pos(v, i) == v[i].pos
NextPos(v, i) == IF i + 1 \in DOMAIN v THEN v[i + 1].pos ELSE -1

\* What may follow an argument, a parameter and a block.
BlockEnds == {"COLON", "SEMICOLON", "EOF"}
ParamEnds == BlockEnds \union {"COMMA"}
ArgEnds == ParamEnds \union {"GROUP"}

\* A result that holds only if what follows is right.
EndsIn(v, result, codes, pos) ==
    IF result.ok /\ NextCode(v, result.at) \notin codes THEN No({pos}) ELSE result

\* A loop: where it ends that begins at i, and goes on from k at next[k] unless
\* that is 0.
EndOfLoop(next, i) ==
    LET last[k \in DOMAIN next] ==
           LET to == next[k] IN IF to = 0 THEN k ELSE last[to]
    IN  last[i]

\* Rule ( separator Rule )*, the loop of most lists.  rule[i] is what the rule
\* makes of the tokens from i on.
SeparatedBy(v, first, rule, separator) ==
    LET next == [i \in DOMAIN v |->
                   LET unit == rule[i]
                   IN  IF unit.ok /\ NextCode(v, unit.at) = separator
                       THEN unit.at + 2 ELSE 0]
    IN  rule[EndOfLoop(next, first)]

-----------------------------------------------------------------------------
(* Characters and words *)

Digits == {"0", "1", "2", "3", "4", "5", "6", "7", "8", "9"}
OctDigits == Digits \ {"8", "9"}
BinDigits == {"0", "1"}
KeyedLetters == {"A", "B", "C", "D", "a", "b", "c", "d"}
HexLetters == KeyedLetters \union {"E", "F", "e", "f"}
Letters == HexLetters \union
    {"G", "H", "I", "J", "K", "L", "M", "N", "O", "P", "Q", "R", "S", "T", "U",
     "V", "W", "X", "Y", "Z", "g", "h", "i", "j", "k", "l", "m", "n", "o", "p",
     "q", "r", "s", "t", "u", "v", "w", "x", "y", "z"}

\* The first position from "from" whose character is not one of chars.
FirstOther(str, from, chars) ==
    Min({k \in from..Len(str) : k = Len(str) \/ str[k + 1] \notin chars})

\* The radix prefix, when there is one, is skipped.
Skip(str, prefix) == IF check_sequence(str, 0, prefix) THEN Len(prefix) ELSE 0

\* Mutant: the position within the token for the position in the text.
IdentifierInToken(v, i) ==
    LET str == v[i].str
        other == FirstOther(str, 0, Letters \union Digits)
    IN  IF Code(v, i) # "LITERAL" \/ str = <<>> THEN No({Pos(v, i)})
        ELSE IF str[1] \notin Letters THEN No({0})
        ELSE IF other < Len(str) THEN No({other})
        ELSE Yes(i)

identifier(v, i) ==
    LET str == v[i].str
        other == FirstOther(str, 0, Letters \union Digits)
    IN  IF Code(v, i) # "LITERAL" \/ str = <<>> THEN No({Pos(v, i)})
        ELSE IF str[1] \notin Letters THEN No({Pos(v, i)})
        ELSE IF other < Len(str) THEN No({Pos(v, i) + other})
        ELSE Yes(i)

alphanum(v, i) ==
    LET other == FirstOther(v[i].str, 0, Letters \union Digits)
    IN  IF Code(v, i) # "LITERAL" \/ v[i].str = <<>> THEN No({Pos(v, i)})
        ELSE IF other < Len(v[i].str) THEN No({Pos(v, i) + other})
        ELSE Yes(i)

\* Where the loop of textStr stops.  It steps over an escape and the character
\* behind it, and reads on behind the string: behind stands for how many of the
\* bytes it finds there happen to pass for characters of a quotation.
QuotationStop(str, behind) ==
    LET next == [k \in 1..Len(str) + 1 |->
                   IF k >= Len(str) THEN 0
                   ELSE IF str[k + 1] \notin {"\"", "\\"} THEN k + 1
                   ELSE IF \/ check_sequence(str, k, <<"\\", "\\">>)
                           \/ check_sequence(str, k, <<"\\", "\"">>) THEN k + 3
                   ELSE 0]
        stop == EndOfLoop(next, 1)
    IN  IF stop >= Len(str) THEN stop + behind ELSE stop

textStr(v, i, behind) ==
    LET str == v[i].str
        stop == QuotationStop(str, behind)
    IN  IF Code(v, i) # "LITERAL" \/ str = <<>> THEN No({Pos(v, i)})
        ELSE IF str[1] # "\"" THEN No({Pos(v, i)})
        ELSE IF stop >= Len(str) \/ str[stop + 1] # "\"" THEN No({Pos(v, i) + stop})
        ELSE IF stop + 1 < Len(str) THEN No({Pos(v, i) + stop + 1})
        ELSE Yes(i)

dec_num(v, i, prefix) ==
    LET digits(j, from) ==
           LET other == FirstOther(v[j].str, from, Digits)
           IN  IF Code(v, j) # "LITERAL" THEN No({Pos(v, j)})
               ELSE IF other < Len(v[j].str) THEN No({Pos(v, j) + other})
               ELSE Yes(j)
        Fraction(j) == IF NextCode(v, j) = "DOT" THEN digits(j + 2, 0) ELSE Yes(j)
    IN  Then(digits(i, Skip(v[i].str, prefix)), Fraction)

\* Every error of a literal of a symbolic name is put at its second character.
SymLiteralGood(str) ==
    str # <<>> /\ Range(str) \subseteq Letters \union Digits /\ Last(str) \in Letters
sym_name(v, i) ==
    LET Behind(j) == IF Code(v, j) = "LITERAL" THEN j + 1 ELSE j
        Spoiled(j) == Code(v, j) = "LITERAL" /\ ~SymLiteralGood(v[j].str)
        Joins(j) == Code(v, Behind(j)) \in {"PLUS", "HASH", "PERCENT"}
        next == [j \in DOMAIN v |-> IF ~Spoiled(j) /\ Joins(j) THEN Behind(j) + 1 ELSE 0]
        last == EndOfLoop(next, i)
    IN  IF Spoiled(last) THEN No({Pos(v, last) + 1})
        ELSE IF last # i THEN Yes(Behind(last))
        ELSE No({Pos(v, Behind(last))})

RadixNum(v, i, prefix, digits) ==
    LET str == v[i].str
        skip == Skip(str, prefix)
        other == FirstOther(str, skip, digits)
    IN  IF Code(v, i) # "LITERAL" THEN No({Pos(v, i)})
        ELSE IF skip = Len(str) \/ other < Len(str) THEN No({Pos(v, i) + other})
        ELSE Yes(i)

hex_num(v, i) == RadixNum(v, i, <<"H", "'">>, Digits \union HexLetters)
oct_num(v, i) == RadixNum(v, i, <<"O", "'">>, OctDigits)
bin_num(v, i) == RadixNum(v, i, <<"B", "'">>, BinDigits)

keyed_num(v, i) ==
    LET skip(j) == IF j = i THEN Skip(v[j].str, <<"K", "'">>) ELSE 0
        other(j) == FirstOther(v[j].str, skip(j), Digits \union KeyedLetters \union {"*", "#"})
        Spoiled(j) == Code(v, j) = "LITERAL" /\ other(j) < Len(v[j].str)
        Found(j) == \/ j # i
                    \/ Code(v, j) \in {"HASH", "STAR"}
                    \/ Code(v, j) = "LITERAL" /\ skip(j) < Len(v[j].str)
        Joins(j) == NextCode(v, j) \in {"LITERAL", "HASH", "STAR"}
        next == [j \in DOMAIN v |->
                   IF ~Spoiled(j) /\ Found(j) /\ Joins(j) THEN j + 1 ELSE 0]
        last == EndOfLoop(next, i)
    IN  IF Spoiled(last) THEN No({Pos(v, last) + other(last)})
        ELSE IF ~Found(last) THEN No({Pos(v, last)})
        ELSE Yes(last)

SignSkipped(v, i) == IF Code(v, i) \in {"PLUS", "MINUS"} THEN i + 1 ELSE i

arith_expr(v, i) ==
    LET Close(j) == IF NextCode(v, j) = "BRACKET_CLOSE" THEN Yes(j + 1)
                    ELSE No({Pos(v, j + 1)})
    IN  IF Code(v, i) # "BRACKET_OPEN" THEN No({Pos(v, i)})
        ELSE Then(dec_num(v, SignSkipped(v, i + 1), <<>>), Close)

\* The test for a literal is inverted, and no other token has characters.
num_str(v, i) ==
    IF Code(v, i) = "LITERAL" \/ v[i].str = <<>> THEN No({Pos(v, i)})
    ELSE IF Range(v[i].str) \subseteq Digits THEN Yes(i)
    ELSE No({Pos(v, i)})

integer(v, i) ==
    LET number == SignSkipped(v, i + 1)
        Close(j) == IF NextCode(v, j) = "BRACKET_CLOSE" THEN Yes(j + 1)
                    ELSE No({Pos(v, j + 1)})
    IN  IF Code(v, i) = "LITERAL" THEN num_str(v, i)
        ELSE IF Code(v, i) # "BRACKET_OPEN" THEN No({Pos(v, i)})
        ELSE IF Code(v, number) # "LITERAL" THEN No({Pos(v, number)})
        ELSE Then(num_str(v, number), Close)

\* The first class that fits; if none does, all their errors.
infoUnitClass(v, i, behind) ==
    LET classes == << identifier(v, i), sym_name(v, i), alphanum(v, i),
                      dec_num(v, i, <<"D", "'">>), arith_expr(v, i),
                      hex_num(v, i), oct_num(v, i), bin_num(v, i), keyed_num(v, i),
                      num_str(v, i), integer(v, i), textStr(v, i, behind) >>
        fits == {k \in DOMAIN classes : classes[k].ok}
    IN  IF fits = {} THEN No(UNION {classes[k].errs : k \in DOMAIN classes})
        ELSE classes[Min(fits)]

-----------------------------------------------------------------------------
(* Values.  After a range the iterator stands on its last unit.  *)
(* unit[i] is what infoUnitClass makes of the tokens from i on.           *)

RangeEnd(v, i, operator, unit) ==
    LET Increment(j) == IF NextCode(v, j) = "INCREMENT" THEN dec_num(v, j + 2, <<>>)
                        ELSE Yes(j)
    IN  IF NextCode(v, i) = operator
        THEN Then(unit[i + 2], Increment) ELSE Yes(i)

simpleSeq(v, i, unit) ==
    LET End(j) == RangeEnd(v, j, "RANGE", unit)
    IN  Then(unit[i], End)

linked_seq(v, i, unit) ==
    LET End(j) == RangeEnd(v, j, "RANGE_COMP", unit)
    IN  Then(unit[i], End)

cmp_arg(v, i, unit) ==
    LET Others(j) == IF NextCode(v, j) = "MINUS"
                     THEN SeparatedBy(v, j + 2, unit, "MINUS") ELSE No({NextPos(v, j)})
    IN  Then(unit[i], Others)

cmp_seq(v, i, unit) ==
    LET End(j) == RangeEnd(v, j, "RANGE_COMP", unit)
    IN  Then(cmp_arg(v, i, unit), End)

cmp_chain(v, i, unit) ==
    LET links == [j \in DOMAIN v |-> linked_seq(v, j, unit)]
        Others(j) == IF NextCode(v, j) = "GROUP_COMP"
                     THEN SeparatedBy(v, j + 2, links, "GROUP_COMP") ELSE Yes(j)
    IN  Then(cmp_seq(v, i, unit), Others)

\* A simple sequence that is not followed as it should be leaves the iterator on
\* its last unit, and the chain is tried from there.
seq_chain(v, i, unit) ==
    LET simple == simpleSeq(v, i, unit)
        chain == cmp_chain(v, IF simple.ok THEN simple.at ELSE i, unit)
        Followed(result) == EndsIn(v, result, ArgEnds, NextPos(v, result.at))
    IN  IF Followed(simple).ok THEN simple
        ELSE IF Followed(chain).ok THEN chain
        ELSE No(Followed(simple).errs \union Followed(chain).errs)

paramValueComplex(v, i, unit) ==
    SeparatedBy(v, i, [j \in DOMAIN v |-> seq_chain(v, j, unit)], "GROUP")

param_value(v, i, unit) ==
    EndsIn(v, paramValueComplex(v, i, unit), ParamEnds, Pos(v, i))

-----------------------------------------------------------------------------
(* Blocks *)

\* With one word the iterator is left behind it, otherwise on the last word.
cmd_code(v, i) ==
    LET Third(j) == IF NextCode(v, j) \in {"MINUS", "HASH"}
                    THEN identifier(v, j + 2) ELSE Yes(j)
        Second(j) == IF NextCode(v, j) = "MINUS"
                     THEN Then(identifier(v, j + 2), Third) ELSE Yes(j + 1)
    IN  Then(identifier(v, i), Second)

\* The loop stops on the minus itself, so that a second word is never read.
tid(v, i, behind) ==
    LET Others(j) == IF NextCode(v, j) = "MINUS" THEN identifier(v, j + 1) ELSE Yes(j)
        words == Then(identifier(v, i), Others)
        quoted == textStr(v, i, behind)
    IN  IF words.ok THEN words
        ELSE IF quoted.ok THEN quoted
        ELSE No(words.errs \union quoted.errs)

\* value[i] is what param_value makes of the tokens from i on.

\* Mutant: the name before = is not looked at.
AnyName(v, i, value) ==
    IF NextCode(v, i) = "EQUAL" THEN value[i + 2]
    ELSE IF Code(v, i) = "EMPTY" THEN Yes(i)
    ELSE value[i]

aid_unit(v, i, value) ==
    LET Value(j) == value[j + 2]
    IN  IF NextCode(v, i) = "EQUAL" THEN Then(identifier(v, i), Value)
        ELSE IF Code(v, i) = "EMPTY" THEN Yes(i)
        ELSE value[i]

aid(v, i, value) ==
    SeparatedBy(v, i, [j \in DOMAIN v |-> aid_unit(v, j, value)], "COMMA")

\* The rules of aid_unit and aid again, with other names for their errors.
pos_def_param(v, i, value) == aid_unit(v, i, value)

pos_def_param_seq(v, i, value) ==
    SeparatedBy(v, i, [j \in DOMAIN v |-> pos_def_param(v, j, value)], "COMMA")

name_def_param(v, i, value) ==
    LET Value(j) == IF NextCode(v, j) = "EQUAL" THEN value[j + 2]
                    ELSE No({Pos(v, j + 1)})
    IN  Then(identifier(v, i), Value)

name_def_param_seq(v, i, value) ==
    SeparatedBy(v, i, [j \in DOMAIN v |-> name_def_param(v, j, value)], "COMMA")

\* An error that adds nothing to the stack is a leaf itself, at pos.
Leaf(errs, pos) == IF errs = {} THEN {pos} ELSE errs

ctag(v, i) ==
    LET name == identifier(v, i)
        number == dec_num(v, i, <<"D", "'">>)
        Followed(result) == result.ok /\ NextCode(v, result.at) \in BlockEnds
    IN  IF Followed(name) THEN name
        ELSE IF Followed(number) THEN number
        ELSE No(Leaf(name.errs \union number.errs, Pos(v, i)))

\* As in seq_chain, the second attempt starts where the first one stopped.
payload_block(v, i, value) ==
    LET positional == pos_def_param_seq(v, i, value)
        named == name_def_param_seq(v, IF positional.ok THEN positional.at ELSE i, value)
        Followed(result) == EndsIn(v, result, BlockEnds, Pos(v, result.at))
    IN  IF Followed(positional).ok THEN positional
        ELSE IF Followed(named).ok THEN named
        ELSE No(Followed(positional).errs \union Followed(named).errs)

\* The colon behind a block and the next block.
Follow(v, result, Block(_)) ==
    IF ~result.ok THEN result
    ELSE IF NextCode(v, result.at) = "COLON" THEN Block(result.at + 2)
    ELSE No({Pos(v, result.at)})

\* Payload blocks up to the semicolon.
payload_blocks(v, i, value) ==
    LET block(j) == payload_block(v, j + 2, value)
        next == [j \in DOMAIN v |->
                   IF NextCode(v, j) = "COLON"
                   THEN LET payload == block(j) IN IF payload.ok THEN payload.at ELSE 0
                   ELSE 0]
        Result(last) ==
           CASE NextCode(v, last) = "SEMICOLON" -> Yes(last)
             [] NextCode(v, last) = "COLON" -> block(last)
             [] NextCode(v, last) \notin {"SEMICOLON", "COLON"} -> No({Pos(v, last)})
    IN  The({Result(last) : last \in {EndOfLoop(next, i)}})

\* The blocks in their order; general_block accepts whatever stands in its place.
parseBlocks(v, value, behind) ==
    LET Tid(i) == IF Code(v, i) = "EMPTY" THEN Yes(i) ELSE tid(v, i, behind)
        Aid(i) == aid(v, i, value)
        Ctag(i) == ctag(v, i)
        General(i) == payload_blocks(v, i, value)
        required == Follow(v, Follow(v, Follow(v, cmd_code(v, 1), Tid), Aid), Ctag)
    IN  IF required.ok /\ NextCode(v, required.at) = "SEMICOLON" THEN required
        ELSE Follow(v, required, General)

\* unit and value are tables of what infoUnitClass and param_value make of the
\* tokens from each place on, which TLC fills once.
parse(v, behind) ==
    LET units == {[i \in DOMAIN v |-> infoUnitClass(v, i, behind)]}
        values == {[i \in DOMAIN v |-> param_value(v, i, unit)] : unit \in units}
    IN  The({parseBlocks(v, value, behind) : value \in values})
=============================================================================
