------------------------------- MODULE MCMbox -------------------------------
(* Small instances of Mbox. *)
EXTENDS Mbox

MCSetups == {[sizeTells |-> FALSE, timing |-> "between"], [sizeTells |-> TRUE, timing |-> "growing"]}
MCKinds == {"plain", "empty", "from", "status"}
=============================================================================
