----------------------------- MODULE MCExecPool -----------------------------
(* Two slots and four commands: two run while two wait, so that the order  *)
(* of the queue shows.                                                     *)
EXTENDS ExecPool, SequencesExt

CONSTANTS r1, r2, r3, r4

Four == {r1, r2, r3, r4}
TwoSlots == 2

(* The commands are interchangeable, so that one order of asking stands    *)
(* for all; a symmetry set would not do where liveness is checked.         *)
InOrder == IsPrefix(asked', <<r1, r2, r3, r4>>)
OrderedSpec == Init /\ [][Next /\ InOrder]_vars /\ Fairness
=============================================================================
