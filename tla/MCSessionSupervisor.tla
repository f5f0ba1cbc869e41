------------------------- MODULE MCSessionSupervisor -------------------------
(***************************************************************************)
(* Two small instances for TLC, side by side: the helper's loop among      *)
(* arbitrary coordinators, and the same loop with its manual control.  The *)
(* constants of the configuration are those of the manual instance, which  *)
(* needs a third attempt; the loop among arbitrary coordinators has two    *)
(* attempts, and two packets and two generations to make up for it.        *)
(***************************************************************************)
EXTENDS ManualControl

VARIABLE peer    \* whom the loop talks to: "coordinator" or "manual"

Loop == INSTANCE SessionSupervisor
            WITH MaxAttempts <- 2, MaxQueue <- 2, MaxOpens <- 2

peerVars == <<manualVars, peer>>

PeerInit == ManualInit /\ peer \in {"coordinator", "manual"}

CoordinatorNext ==
    /\ peer = "coordinator" /\ Loop!Next
    /\ UNCHANGED <<control, answer, asked, requests, peer>>

Manual(A) == peer = "manual" /\ A /\ UNCHANGED peer

PeerSpec ==
    /\ PeerInit /\ [][CoordinatorNext \/ Manual(ManualNext)]_peerVars
    /\ WF_peerVars(Manual(Ticks))
    /\ SF_peerVars(Manual(Consults)) /\ SF_peerVars(Manual(Replied))
=============================================================================
