-------------------------- MODULE MCSessionInputGate --------------------------
(* Small instances of SessionInputGate for TLC. *)
EXTENDS SessionInputGate
=============================================================================
