----------------------------- MODULE MCMsgList -----------------------------
(* Small instances of MsgList. *)
EXTENDS MsgList, TLC

CONSTANTS im, po, m1, m2, m3, m4

OneImap == {im}
OnePop == {po}
FourNodes == {m1, m2, m3, m4}
Heap == Permutations(FourNodes)

NotInAFetch == {"calm", "apart"}
AtAnyTime == {"any"}
=============================================================================
