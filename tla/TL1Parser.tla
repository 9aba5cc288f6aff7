----------------------------- MODULE TL1Parser -----------------------------
(***************************************************************************)
(* A command as it is edited, with what TL1CommandParse makes of it.  As   *)
(* pre_parseInput does, the text is parsed when a command ends in it.      *)
(***************************************************************************)
EXTENDS TL1Rules, CommandText

CONSTANTS Chars,      \* the characters a user types
          Frames,     \* texts with a gap: [before, after, keys], what stands
                      \* around the characters being edited and the keys used
          MaxTyped,   \* bound on the characters in the gap
          MaxBehind   \* bound on the bytes textStr reads behind a string

ASSUME ParserAssumption ==
    /\ MaxTyped \in Nat /\ MaxBehind \in Nat
    /\ \A f \in Frames :
          /\ f.before \in Seq(Chars) /\ f.after \in Seq(Chars)
          /\ f.keys \subseteq Chars
          /\ Ends(f.before \o f.after) # {}

VARIABLES frame,      \* one of Frames
          typed,      \* the characters in its gap
          input,      \* the text that was parsed last
          tokens,     \* its tokens
          parsed      \* the result and the leaves of con->errorStack

vars == <<frame, typed, input, tokens, parsed>>

text == frame.before \o typed \o frame.after

Has(str, char) == \E k \in DOMAIN str : str[k] = char

\* What lies behind a string in memory matters only if it is read.
Garbage(str) == IF Has(str, "\\") THEN 0..MaxBehind ELSE {0}

TL1CommandParse(str) ==
    /\ input' = str
    /\ tokens' = tokenize(str)
    /\ \E behind \in Garbage(str) : parsed' = parse(tokens', behind)

Init ==
    /\ frame \in Frames
    /\ typed = <<>>
    /\ input = text
    /\ tokens = tokenize(text)
    /\ \E behind \in Garbage(text) : parsed = parse(tokens, behind)

Edit(str) ==
    /\ typed' = str
    /\ UNCHANGED frame
    /\ IF Ends(text') # {} THEN TL1CommandParse(text')
       ELSE UNCHANGED <<input, tokens, parsed>>

Type(char) == Len(typed) < MaxTyped /\ Edit(Append(typed, char))
Delete == typed # <<>> /\ Edit(Front(typed))

Next == Delete \/ \E char \in frame.keys : Type(char)

Spec == Init /\ [][Next]_vars

-----------------------------------------------------------------------------
(* Properties.  The command is what stands before the first semicolon outside *)
(* a quotation.                                                               *)

Command == SubSeq(input, 1, Min(Ends(input)))

\* Tokens and errors are well formed: literals alone have characters, a command
\* is rejected with errors or accepted without, at places of the text (a string
\* with an escape may be read past its end, textStr, TL1_Command.c:589).
TypeOK ==
    /\ frame \in Frames
    /\ typed \in Seq(frame.keys) /\ Len(typed) <= MaxTyped
    /\ \A k \in DOMAIN tokens :
          /\ tokens[k].code \in TokenCodes
          /\ tokens[k].pos \in 0..Len(input)
          /\ tokens[k].code = "LITERAL" <=> tokens[k].str # <<>>
    /\ parsed.ok \in BOOLEAN /\ (parsed.ok <=> parsed.errs = {})
    /\ parsed.errs \subseteq 0..Len(input) + MaxBehind

TokenText(token) ==
    IF token.code \in OperatorCodes
    THEN Operators[CHOOSE k \in DOMAIN Operators : Operators[k].code = token.code].str
    ELSE token.str

\* The tokens cover the text without a gap or an overlap, whatever is quoted and
\* however operators touch, and operators and what stands between them alternate,
\* with EOF last: the parser steps over two tokens at a time and dereferences the
\* second without a test on the strength of it (simpleSeq, TL1_Command.c:1225).
TokensTile ==
    /\ FlattenSeq([k \in DOMAIN tokens |-> TokenText(tokens[k])]) = input
    /\ \A k \in DOMAIN tokens :
          /\ tokens[k].pos = IF k = 1 THEN 0
                             ELSE tokens[k - 1].pos + Len(TokenText(tokens[k - 1]))
          /\ tokens[k].code \in OperatorCodes \union {"EOF"} <=> k % 2 = 0
    /\ Last(tokens).code = "EOF"

\* The tokenizer and the line editor, which cuts the line into commands with a
\* state machine of its own (pre_parseInput, hello.c:210), agree on which of the
\* semicolons end a command.
SemicolonsAgree ==
    {tokens[k].pos + 1 : k \in {j \in DOMAIN tokens : tokens[j].code = "SEMICOLON"}}
        = Ends(input)

\* A good rest of a command, after the colon of block n.
GoodRest(n) == CASE n = 0 -> <<"a", "-", "a", ":", ":", ":", "a", ";">>
                 [] n = 1 -> <<":", ":", "a", ";">>
                 [] n = 2 -> <<":", "a", ";">>
                 [] n = 3 -> <<"a", ";">>
                 [] n > 3 -> <<";">>

\* The characters that are highlighted (hello.c:146) lie in one block of the
\* command, and that block is the first wrong one: with a good rest in its place,
\* what stands before it is accepted.  Symbolic names are left out: sym_name leaves
\* the iterator behind the name, where every other class leaves it on its last
\* token, and a value that ends in one may be taken to end in the next block.
ErrorsInBlock ==
    (input = text /\ parsed.errs # {} /\ \A k \in DOMAIN typed : typed[k] \notin {"+", "#", "%"}) =>
        LET colons == {tokens[k].pos : k \in {j \in DOMAIN tokens : tokens[j].code = "COLON"}}
            passed == {pos \in colons : pos < Min(parsed.errs)}
            from == IF passed = {} THEN 0 ELSE Max(passed) + 1
            to == Min((colons \ passed) \union {Len(Command)})
        IN  /\ Has(input, "\\") \/ parsed.errs \subseteq from..to
            /\ parse(tokenize(SubSeq(input, 1, from) \o GoodRest(Cardinality(passed))), 0).ok
=============================================================================
