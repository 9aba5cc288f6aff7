---------------------------- MODULE TL1Language ----------------------------
(* The language of the parser, compared with the documented one.           *)
EXTENDS TL1Parser, TL1Grammar

\* The texts TL1Grammar speaks of.
InGrammar == input = text /\ \A k \in DOMAIN typed : typed[k] \notin OutOfGrammar

\* What parse accepts is the documented grammar but for the departures TL1Grammar
\* names: neither the order in which classes and sequences are tried nor an
\* iterator left behind by an attempt lets in or keeps out anything else
\* (TL1_Command.c:653-795, 1186-1240, 1361-1531, 1572).
DepartsAsNamed ==
    InGrammar => (parsed.ok <=> Accepts(Command, Letters, Digits, Departures))
=============================================================================
