------------------------------ MODULE MCSession ------------------------------
(* One name, two addresses and two operators for TLC.                          *)
EXTENDS Session, TLC

CONSTANTS a1, a2

MCAddresses == {a1, a2}
MCSymmetry == Permutations(MCAddresses)

MCSchemas == {{"int"}, {"int", "string"}}
=============================================================================
