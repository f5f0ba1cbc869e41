-------------------------- MODULE MCSessionRecovery --------------------------
(* Small instances of SessionRecovery for TLC. *)
EXTENDS SessionRecovery, TLC

CONSTANTS p1, p2, p3

\* A helper of one session, one after another of either that one or a second,
\* and one of a third: sharing a session, identities that are refused, and
\* three members for two slots.  Client, token and session of a helper are one
\* model value.
MCIdentities == {[client |-> p, token |-> p, session |-> p] : p \in Clients}
                    \cup {[client |-> p2, token |-> p2, session |-> p1]}

\* Two instances in one, told apart by whether the third session exists.  If
\* not, the second one may be created and end while probes are in flight; if
\* it does, every helper has a session of its own that lasts.
ThirdOrMortal ==
    host[p3] = "live" =>
        /\ \A p \in Clients : host[p] = "live"
        /\ \A p \in DOMAIN s.members : s.members[p].session = p

\* Nothing is stamped with the later reading of the clock, though requests and
\* ticks at that reading find leases expired and retries due.
StampedEarly ==
    /\ \A p \in DOMAIN s.members : s.members[p].deadline <= 2
    /\ s.nextProbe <= 2 /\ s.lastProbe <= 1

-----------------------------------------------------------------------------
(* The admission loop as the code runs it, one member of the order after   *)
(* the other: the reference that Admit is checked against.                 *)

RECURSIVE AdmitLoop(_, _, _)
AdmitLoop(c, now, left) ==
    IF left = 0 \/ ~FewerThanTwo(Pending(c)) THEN c
    ELSE LET x == Head(c.order)
             m == c.members[x]
             turned == [c EXCEPT !.order = Append(Tail(c.order), x)]
             admitted == SetMember(turned, x, [m EXCEPT !.active = m.proposed,
                                                        !.deadline = now + Lease])
         IN AdmitLoop(IF Admissible(c, now, x) THEN admitted ELSE turned, now, left - 1)

\* In every reachable state the closed form of admit (two passes, then one
\* rotation) admits the members, and leaves the order, that the loop over the
\* rotating order does (lines 220-250).
AdmitFollowsLoop ==
    \A now \in Times :
        LET c == Expire(s, now)
        IN Admit(s, now) = IF c.available THEN AdmitLoop(c, now, Len(c.order)) ELSE c

=============================================================================
