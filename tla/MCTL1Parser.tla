---------------------------- MODULE MCTL1Parser ----------------------------
(* Commands with a gap in each of their blocks, and the keys tried there. *)
EXTENDS TL1Language

A == <<"a", "-", "a", ":">>           \* A command code
Usual == {"a", "1", ",", "=", ":", ";"}

MCChars == Usual \union {"-", "#", "\"", "\\", "&", "+", "*", "(", ")", ".", "D", "'"}

MCFrames ==
    { [before |-> <<"a">>, after |-> <<":", ":", ":", "a", ";">>,
       keys |-> {"a", "1", "-", "#", ":", "\""}],
      [before |-> A, after |-> <<":", ":", "a", ";">>,
       keys |-> {"a", "1", "-", "\"", "\\", ":"}],
      [before |-> A \o <<":">>, after |-> <<":", "a", ";">>, keys |-> Usual],
      [before |-> A \o <<":">>, after |-> <<":", "a", ";">>, keys |-> {"a", "1", "-", "&", "="}],
      [before |-> A \o <<":">>, after |-> <<":", "a", ";">>,
       keys |-> {"1", "a", "+", "#", "*"}],
      [before |-> A \o <<":">>, after |-> <<":", "a", ";">>,
       keys |-> {"1", "+", "-", "(", ")", "."}],
      [before |-> A \o <<":", "a", "-", "1">>, after |-> <<":", "a", ";">>,
       keys |-> {"1", "-", "&", ","}],
      [before |-> A \o <<":", "a", "-", "1", "&", "&", "-">>, after |-> <<":", "a", ";">>,
       keys |-> {"1", "-", "&", "="}],
      [before |-> A \o <<":", "1", "&", "&", "1", ".", "+", "+", ".">>,
       after |-> <<":", "a", ";">>,
       keys |-> {"1", "D", "'", ".", "-", "&"}],
      [before |-> A \o <<":", ":">>, after |-> <<";">>, keys |-> {"a", "1", ".", ":", ";", "-"}],
      [before |-> A \o <<":", ":", "a", ":">>, after |-> <<";">>, keys |-> Usual],
      [before |-> A \o <<":", ":", "a", ":", ":", "D", "'">>, after |-> <<";">>,
       keys |-> {"1", ".", ",", "&", "="}] }
=============================================================================
