----------------------------- MODULE MCRatchet -----------------------------
(* Constant values for the runs of Ratchet. *)
EXTENDS Ratchet

CONSTANTS alice, bob
=============================================================================
