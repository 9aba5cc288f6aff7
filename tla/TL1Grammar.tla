----------------------------- MODULE TL1Grammar -----------------------------
(***************************************************************************)
(* The grammar of doc/EBNF/index.html, over characters, and the places     *)
(* where what the server understands departs from it: what the parser is   *)
(* compared with.  It is stated only for texts with no prefix but D', no   *)
(* backslash and none of the characters * # + % ( ), except in the         *)
(* operator ".++.".                                                        *)
(*                                                                         *)
(* A phrase of the grammar is the set of the spans <<i, j>> of the text it *)
(* matches: the characters i + 1 .. j.                                     *)
(***************************************************************************)
EXTENDS Naturals, Sequences, SequencesExt

OutOfGrammar == {"\\", "*", "#", "+", "%", "(", ")"}

\* Each is a rule of the document that the code does not keep to.
Departures ==
    { "two words",        \* a command has more than one word
      "one tid word",     \* a tid has no more than one
      "digit first",      \* a number does not begin with its point
      "prefix alone",     \* after D' no digit is needed
      "value fraction",   \* in a value only a number with its D' has a fraction
      "plain increment",  \* an increment has no D'
      "chained range",    \* the end of a simple range may go on as a chain
      "empty units",      \* the units of an aid may be empty
      "any general" }     \* the general block has no form

P ** Q == UNION {{<<p[1], q[2]>> : q \in {s \in Q : s[1] = p[2]}} : p \in P}

\* The documented language with some of the departures made.
Accepts(text, letters, digits, departures) ==
    LET spans == {r \in (0..Len(text)) \X (0..Len(text)) : r[1] <= r[2]}
        nothing == {r \in spans : r[1] = r[2]}
        Opt(P) == nothing \union P
        Made(departure, P) == IF departure \in departures THEN P ELSE {}
        Kept(departure, P) == IF departure \in departures THEN {} ELSE P
        Word(w) == {r \in spans : SubSeq(text, r[1] + 1, r[2]) = w}
        Run(chars) == {r \in spans : /\ r[1] < r[2]
                                     /\ \A k \in r[1] + 1..r[2] : text[k] \in chars}
        Operators == {":", ";", ",", "=", "-", "&", "."}
        Other == Range(text) \ (Operators \union {"\""})
        \* Twice as many units in each round: lists of up to eight more.
        Star(P) == LET Double(Q, n) == Q ** Q
                   IN  FoldLeft(Double, Opt(P), [n \in 1..3 |-> n])
        List(P, separator) == P ** Star(Word(separator) ** P)

        ident == {r \in Run(letters \union digits) : text[r[1] + 1] \in letters}
        words == List(ident, <<"-">>)
        fraction == Word(<<".">>) ** Run(digits)
        number == (Run(digits) ** Opt(fraction)) \union Kept("digit first", fraction)
        prefixed == Word(<<"D", "'">>)
                    ** ((Run(digits) ** Opt(fraction)) \union fraction
                        \union Made("prefix alone", nothing))
        dec_num == number \union prefixed
        text_str == Word(<<"\"">>) ** Opt(Run(Range(text) \ {"\""})) ** Word(<<"\"">>)
        unit == Run(letters \union digits) \union prefixed \union text_str
                \union Kept("value fraction", number)
        to(operator) == Word(operator) ** unit
        inc == Word(<<".", "+", "+", ".">>)
               ** (number \union Kept("plain increment", prefixed))

        simple_seq == unit ** Opt(to(<<"&", "&">>) ** Opt(inc))
        linked_seq == unit ** Opt(to(<<"&", "&", "-">>) ** Opt(inc))
        linked == Word(<<"-">>) ** List(unit, <<"-">>)
                  ** Opt(to(<<"&", "&", "-">>) ** Opt(inc))
                  ** Star(Word(<<"&", "-">>) ** linked_seq)
        cmp_chain == (unit \union Made("chained range", simple_seq)) ** linked
        seq_chain == simple_seq \union cmp_chain
        param_value == List(seq_chain, <<"&">>)
        aid_unit == Opt(ident ** Word(<<"=">>)) ** param_value
        params == List(Opt(aid_unit), <<",">>)
        aid == List(aid_unit, <<",">>) \union Made("empty units", params)

        cmd == (ident ** Word(<<"-">>) ** ident ** Opt(Word(<<"-">>) ** ident))
               \union Kept("two words", ident)
        tid == ident \union Kept("one tid word", words) \union text_str
        ctag == ident \union dec_num

        comma == Word(<<",">>)
        Named(name, P) == Opt(Word(name) ** Word(<<"=">>) ** P)
        two == {r \in Run(digits) : r[2] = r[1] + 2}
        date == two ** Word(<<"-">>) ** two ** Word(<<"-">>) ** two
        flag == Word(<<"0">>) \union Word(<<"1">>)
        pos_def_gen_blk == Opt(dec_num) ** comma ** Opt(date) ** comma ** Opt(date)
                           ** comma ** Opt(flag) ** Opt(comma ** words)
        name_def_gen_blk ==
            Named(<<"O", "N">>, dec_num) ** comma ** Named(<<"D", "A", "T", "E">>, date)
            ** comma ** Named(<<"T", "I", "M", "E">>, date)
            ** comma ** Named(<<"C", "F">>, flag)
            ** Opt(comma ** Word(<<"R", "T", "R", "V", "I", "N", "D">>) ** Word(<<"=">>)
                   ** words)
        general == Kept("any general", pos_def_gen_blk \union name_def_gen_blk)
                   \union Made("any general", Star(Run(Other) \union text_str))

        colon == Word(<<":">>)
        input == cmd ** colon ** Opt(tid) ** colon ** Opt(aid) ** colon ** ctag
                 ** Opt(colon ** Opt(general) ** Star(colon ** params)) ** Word(<<";">>)
    IN  <<0, Len(text)>> \in input
=============================================================================
