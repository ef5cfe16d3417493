----------------------------- MODULE MCSession -----------------------------
(* One device, an old account and one that signs up. *)
EXTENDS Session

CONSTANTS alice, bob
=============================================================================
