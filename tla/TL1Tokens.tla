----------------------------- MODULE TL1Tokens -----------------------------
(***************************************************************************)
(* The tokenizer of TL1_Command.c.  Characters are strings of length one,  *)
(* a text is a sequence of them.  Positions (pos) are the code's: they     *)
(* count from 0.                                                           *)
(***************************************************************************)
EXTENDS Integers, Sequences, SequencesExt

\* The operators in the order in which the code tries them: the longer ones
\* stand before their own beginnings.
Operators ==
    << [code |-> "RANGE_COMP",    str |-> <<"&", "&", "-">>],
       [code |-> "RANGE",         str |-> <<"&", "&">>],
       [code |-> "GROUP_COMP",    str |-> <<"&", "-">>],
       [code |-> "GROUP",         str |-> <<"&">>],
       [code |-> "INCREMENT",     str |-> <<".", "+", "+", ".">>],
       [code |-> "COLON",         str |-> <<":">>],
       [code |-> "SEMICOLON",     str |-> <<";">>],
       [code |-> "COMMA",         str |-> <<",">>],
       [code |-> "EQUAL",         str |-> <<"=">>],
       [code |-> "STAR",          str |-> <<"*">>],
       [code |-> "HASH",          str |-> <<"#">>],
       [code |-> "PLUS",          str |-> <<"+">>],
       [code |-> "MINUS",         str |-> <<"-">>],
       [code |-> "PERCENT",       str |-> <<"%">>],
       [code |-> "BRACKET_OPEN",  str |-> <<"(">>],
       [code |-> "BRACKET_CLOSE", str |-> <<")">>],
       [code |-> "DOT",           str |-> <<".">>] >>

OperatorCodes == {Operators[k].code : k \in DOMAIN Operators}
TokenCodes == OperatorCodes \union {"EOF", "EMPTY", "LITERAL"}

check_sequence(text, pos, str) ==
    /\ pos + Len(str) <= Len(text)
    /\ SubSeq(text, pos + 1, pos + Len(str)) = str

\* The operators that may be read at pos; the first of them is taken.
OperatorsAt(text, pos) ==
    {k \in DOMAIN Operators : check_sequence(text, pos, Operators[k].str)}
FirstOperator(text, pos) ==
    Operators[CHOOSE k \in OperatorsAt(text, pos) :
                 \A j \in OperatorsAt(text, pos) : k <= j]

putToken(code, pos) == [code |-> code, str |-> <<>>, pos |-> pos]

\* Mutant: an empty literal in the place of EMPTY.
PutEmptyLiteral(text, from, to) ==
    [code |-> "LITERAL", str |-> SubSeq(text, from + 1, to), pos |-> from]

putTokenS(text, from, to) ==
    IF from = to THEN putToken("EMPTY", from)
    ELSE [code |-> "LITERAL", str |-> SubSeq(text, from + 1, to), pos |-> from]

\* Mutant: a quotation mark ends a quotation although it is escaped.
EscapeForgotten(state, char) ==
    IF state = "quotation" /\ char = "\"" THEN "plain" ELSE "quotation"

\* The state of the tokenizer after a quote or a character of a quotation.
QuotationState(state, char) ==
    CASE state = "escape" -> "quotation"
      [] state = "plain"  -> "quotation"
      [] state = "quotation" /\ char = "\""  -> "plain"
      [] state = "quotation" /\ char = "\\"  -> "escape"
      [] state = "quotation" /\ char \notin {"\"", "\\"} -> "quotation"

\* Mutant: the loop goes on behind the first character of a longer operator.
ScanOneChar(text, scan, pos) ==
    IF scan.state # "plain" \/ text[pos + 1] = "\""
    THEN [scan EXCEPT !.state = QuotationState(@, text[pos + 1])]
    ELSE IF OperatorsAt(text, pos) = {} THEN scan
    ELSE [scan EXCEPT !.tokens = @ \o << putTokenS(text, scan.start, pos),
                                         putToken(FirstOperator(text, pos).code, pos) >>,
                      !.start = pos + 1]

\* One round of the for loop: scan.start is start_token; the positions before
\* it that the loop comes to are the rest of an operator, which it skips.
ScanChar(text, scan, pos) ==
    LET op == FirstOperator(text, pos)
    IN  CASE pos < scan.start -> scan
          [] pos >= scan.start /\ (scan.state # "plain" \/ text[pos + 1] = "\"") ->
               [scan EXCEPT !.state = QuotationState(@, text[pos + 1])]
          [] OTHER ->
               IF OperatorsAt(text, pos) = {} THEN scan
               ELSE [scan EXCEPT
                       !.tokens = @ \o << putTokenS(text, scan.start, pos),
                                          putToken(op.code, pos) >>,
                       !.start = pos + Len(op.str)]

\* What the loop has found in the first n characters.
NotScanned == [state |-> "plain", start |-> 0, tokens |-> <<>>]
Scanned(text) ==
    LET scan[n \in 0..Len(text)] ==
           IF n = 0 THEN NotScanned ELSE ScanChar(text, scan[n - 1], n - 1)
    IN  scan

tokenize(text) ==
    LET scan == Scanned(text)[Len(text)]
    IN  scan.tokens \o << putTokenS(text, scan.start, Len(text)),
                          putToken("EOF", Len(text)) >>
=============================================================================
