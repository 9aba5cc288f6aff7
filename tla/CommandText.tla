---------------------------- MODULE CommandText ----------------------------
(***************************************************************************)
(* What a line of TL1 text means, without saying how it is found out: a    *)
(* command ends at every ';' outside a quotation, a backslash protects the *)
(* next character of a quotation, and letters outside quotations are shown *)
(* in upper case.                                                          *)
(***************************************************************************)
EXTENDS Naturals, Sequences, FiniteSets

Quote == "\""
Backslash == "\\"
Semicolon == ";"

\* One small letter stands for all.
Upper(char) == IF char = "a" THEN "A" ELSE char

\* The mode after a character, given the mode before it.
NextMode(mode, char) ==
    CASE mode = "plain"  -> IF char = Quote THEN "quoted" ELSE "plain"
      [] mode = "quoted" -> IF char = Quote THEN "plain"
                            ELSE IF char = Backslash THEN "escape" ELSE "quoted"
      [] mode = "escape" -> "quoted"

\* Modes(text)[k]: the mode after the first k characters.
Modes(text) ==
    LET mode[k \in 0..Len(text)] ==
           IF k = 0 THEN "plain" ELSE NextMode(mode[k - 1], text[k])
    IN  mode

\* The text as it is shown, and its positions where a command ends.
Shown(text) ==
    [k \in 1..Len(text) |->
       IF Modes(text)[k - 1] = "plain" THEN Upper(text[k]) ELSE text[k]]
Ends(text) ==
    {k \in 1..Len(text) : text[k] = Semicolon /\ Modes(text)[k - 1] = "plain"}

\* The commands of a text, as they are shown, and what follows the last of them.
CommandsOf(text) ==
    LET nth(n) == IF n = 0 THEN 0
                  ELSE CHOOSE k \in Ends(text) :
                          Cardinality({j \in Ends(text) : j <= k}) = n
    IN  [n \in 1..Cardinality(Ends(text)) |->
           SubSeq(Shown(text), nth(n - 1) + 1, nth(n))]
RestOf(text) ==
    LET last == CHOOSE k \in Ends(text) \union {0} : \A j \in Ends(text) : j <= k
    IN  SubSeq(text, last + 1, Len(text))
=============================================================================
