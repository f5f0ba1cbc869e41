--------------------------- MODULE MCMirrorRecovery ---------------------------
(* Small instances of MirrorRecovery for TLC. *)
EXTENDS MirrorRecovery

Own == [p \in Clients |-> p]

\* The end of a session is followed as long as its helper runs and may be told.
EndTold == \A p \in Clients : host[SessionOf[p]] = "gone" => helper[p].alive /\ p \notin dead

=============================================================================
