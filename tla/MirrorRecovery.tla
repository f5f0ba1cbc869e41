---------------------------- MODULE MirrorRecovery ----------------------------
(***************************************************************************)
(* Projection helpers, their control connections and the coordinator       *)
(* process, composed (internal/mirror/session_recovery_server.go and       *)
(* session_recovery_runtime.go).                                           *)
(*                                                                         *)
(* The coordinator's methods are those of SessionRecovery (C!...), a       *)
(* helper does what ProjectionHelper allows (H(p)!...).  Here are the      *)
(* parts between them: one control call at a time over a Unix connection   *)
(* that may be abandoned with its request unread; the owners map that      *)
(* binds a member to one connection of one live process; the death and     *)
(* replacement of the coordinator, elected by a lock that a probe in       *)
(* flight keeps; the death of helpers; the two kernel slots.               *)
(*                                                                         *)
(* Assumed: the requests of one helper are read in the order in which they *)
(* were written, also when they were written on two connections.           *)
(***************************************************************************)
EXTENDS Integers, Sequences, FiniteSets

CONSTANTS
    Clients,       \* the helper processes
    Sessions,      \* session incarnations of the source host
    SessionOf,     \* the session each helper mirrors
    Mortal,        \* the sessions that may end
    None,
    Slots,         \* kernel locks for unproved children (2 in the code)
    MaxAttempts,                                       \* bound of a helper
    Times, FailureCap, Lease, ProbeFloor, ProbePeriod, \* the coordinator's
    MaxStarts      \* bound on the coordinator processes

ASSUME MirrorConstants ==
    /\ SessionOf \in [Clients -> Sessions]
    /\ Slots \in Nat \ {0} /\ MaxStarts \in Nat
    /\ MaxAttempts \in Nat \ {0} /\ None \notin Nat \cup {"ready", "lost", "leave"}
    /\ Mortal \subseteq Sessions /\ Times \subseteq Nat \ {0}
    /\ FailureCap \in Nat /\ Lease \in Nat /\ ProbeFloor \in Nat /\ ProbePeriod \in Nat

VARIABLES
    s, host, probes,  \* as in SessionRecovery; s is void while none runs
    starts,           \* how many coordinators were started
    up,               \* a coordinator process runs
    orphan,           \* a dead coordinator's probe still holds the lock
    owner,            \* the owners map: which connection speaks for p
    link,             \* the helper's connection, None if it has none
    stale,            \* a connection the helper gave up, None if there is none
    helper,           \* the helpers, as in ProjectionHelper
    dead              \* the helper processes that are gone

coordinator == <<s, host, probes, starts, up, orphan>>
vars == <<coordinator, owner, link, stale, helper, dead>>

Identity(p) == [client |-> p, token |-> p, session |-> SessionOf[p]]

C == INSTANCE SessionRecovery
       WITH Tokens <- Clients, Attempts <- 1..MaxAttempts,
            Identities <- {Identity(p) : p \in Clients}

H(p) == INSTANCE ProjectionHelper WITH helper <- helper[p]

-----------------------------------------------------------------------------
(* Connections.  A call is written once; the server answers or hangs up.   *)

NewLink == [request |-> None, reply |-> None, served |-> TRUE]

\* The request of a call, and that of an orderly departure.
Frame(p, call) ==
    [client |-> p, token |-> p, session |-> SessionOf[p], attempt |-> call.attempt,
     event |-> call.event, state |-> call.state, retry |-> call.retry]

Leave(p) == Frame(p, [attempt |-> helper[p].attempt, event |-> "leave",
                      state |-> "offline", retry |-> FALSE])

Idle(k) == k # None /\ k.served /\ k.request = None /\ k.reply = None

-----------------------------------------------------------------------------
(* The helper.                                                             *)

HelperBecomes(p, x) == helper' = [helper EXCEPT ![p] = x]

Running(p) == helper[p].alive

\* acquirePendingSlot finds one of the kernel locks free.
FreeSlot == Cardinality({p \in Clients : helper[p].child /\ ~helper[p].opened}) < Slots

Controls == <<s, host, probes, starts, up, orphan, owner, link, stale, dead>>

\* What the helper does on its own.
HelperSteps(p) ==
    /\ Running(p)
    /\ \E x \in H(p)!Changes(helper[p]) : HelperBecomes(p, x)
    /\ UNCHANGED Controls

\* call: the frame is written on the connection there is, or on a new one.
WriteFrame(p, r) ==
    /\ (link[p] = None /\ up) \/ Idle(link[p])
    /\ link' = [link EXCEPT ![p] = [NewLink EXCEPT !.request = r]]

CallCoordinator(p) ==
    /\ Running(p) /\ helper[p].call # None
    /\ WriteFrame(p, Frame(p, helper[p].call))
    /\ UNCHANGED <<coordinator, owner, stale, helper, dead>>

\* start: a call that finds no coordinator starts one, unless the lock of
\* the last one is still held.
StartCoordinator(p) ==
    /\ Running(p) /\ helper[p].call # None /\ link[p] = None
    /\ ~up /\ ~orphan /\ starts < MaxStarts
    /\ up' = TRUE /\ starts' = starts + 1
    /\ UNCHANGED <<s, host, probes, orphan, owner, link, stale, helper, dead>>

\* disconnect: the server may not have read the request, nor noticed yet.
Disconnect(p) ==
    /\ link[p] # None
    /\ link[p].served => stale[p] = None
    /\ link' = [link EXCEPT ![p] = None]
    /\ stale' = IF link[p].served THEN [stale EXCEPT ![p] = [request |-> link[p].request]]
                ELSE stale
    /\ owner' = [owner EXCEPT ![p] = IF @ = "link" THEN "stale" ELSE @]

\* The reply is read while the call is in time.
CallReturns(p) ==
    /\ Running(p) /\ link[p] # None /\ link[p].reply # None
    /\ helper[p].call.event = "lost" => helper[p].attempt < MaxAttempts
    /\ \E begun \in IF FreeSlot THEN H(p)!Outcomes ELSE {"late", "failed"} :
         \E x \in H(p)!Answered(helper[p], link[p].reply, begun) : HelperBecomes(p, x)
    /\ link' = [link EXCEPT ![p].reply = None]
    /\ UNCHANGED <<coordinator, owner, stale, dead>>

\* Timed out, refused, or the coordinator is gone.  A reply read just too
\* late is dropped, with the connection or (the supervisor's own deadline
\* check) without it.
CallFails(p) ==
    /\ Running(p) /\ helper[p].call # None
    /\ HelperBecomes(p, H(p)!CallDropped(helper[p]))
    /\ \/ Disconnect(p)
       \/ /\ link[p] = None
          /\ UNCHANGED <<owner, link, stale>>
       \/ /\ link[p] # None /\ link[p].reply # None
          /\ link' = [link EXCEPT ![p].reply = None]
          /\ UNCHANGED <<owner, stale>>
    /\ UNCHANGED <<coordinator, dead>>

\* Close, after the loop returned: a call cut off by the return disconnects,
\* then the departure is announced if a coordinator is there to hear it.
Departs(p) ==
    /\ ~Running(p) /\ p \notin dead
    /\ \/ Disconnect(p)
       \/ WriteFrame(p, Leave(p)) /\ UNCHANGED <<owner, stale>>
    /\ UNCHANGED <<coordinator, helper, dead>>

\* The process ends or is killed; its children and locks go with it.
Dies(p) ==
    /\ p \notin dead
    /\ dead' = dead \cup {p}
    /\ HelperBecomes(p, H(p)!Returned(helper[p]))
    /\ UNCHANGED <<coordinator, owner, link, stale>>

-----------------------------------------------------------------------------
(* The coordinator process.                                                *)

\* The owner is another connection that the server has not seen closed.
Elsewhere(p, w) == owner[p] \in {"link", "stale"} \ {w}

Answer(p, w, k) ==
    /\ link'  = IF w = "link"  THEN [link EXCEPT ![p] = k] ELSE link
    /\ stale' = IF w = "stale" THEN [stale EXCEPT ![p] = [request |-> None]] ELSE stale

\* serve: one request of a live process, read on connection w.  A refusal
\* ends the connection, of which w is not the owner.
Serve(p, w, r, now) ==
    /\ p \notin dead
    /\ \/ /\ Elsewhere(p, w)
          /\ link'  = IF w = "link"  THEN [link EXCEPT ![p] = [@ EXCEPT !.request = None,
                                                                        !.served = FALSE]] ELSE link
          /\ stale' = IF w = "stale" THEN [stale EXCEPT ![p] = None] ELSE stale
          /\ UNCHANGED <<s, owner>>
       \/ /\ ~Elsewhere(p, w) /\ r.event = "leave"
          /\ s' = IF p \in DOMAIN s.members THEN C!Remove(s, p) ELSE s
          /\ owner' = [owner EXCEPT ![p] = "none"]
          /\ Answer(p, w, [NewLink EXCEPT !.served = FALSE])
       \/ /\ ~Elsewhere(p, w) /\ r.event # "leave"
          /\ LET x == C!Exchange(s, r, now) IN
             /\ s' = x.state
             /\ Answer(p, w, [NewLink EXCEPT !.reply = x.reply])
          /\ owner' = [owner EXCEPT ![p] = w]
    /\ UNCHANGED <<host, probes, starts, up, orphan, helper, dead>>

ServeStale(p, now) ==
    /\ stale[p] # None /\ stale[p].request # None
    /\ Serve(p, "stale", stale[p].request, now)

ServeLink(p, now) ==
    /\ stale[p] # None => stale[p].request = None
    /\ link[p] # None /\ link[p].served /\ link[p].request # None
    /\ Serve(p, "link", link[p].request, now)

\* What the server keeps of a connection that ended, if it was p's owner.
\* Only a member whose child may be running keeps its place.
ReleaseAlways(p) ==
    /\ owner' = [owner EXCEPT ![p] = "none"]
    /\ s' = C!Remove(s, p)

Release(p) ==
    IF C!IsPending(s.members[p]) /\ p \notin dead
    THEN owner' = [owner EXCEPT ![p] = "kept"] /\ UNCHANGED s
    ELSE owner' = [owner EXCEPT ![p] = "none"] /\ s' = C!Remove(s, p)

\* serve ends: the connection was closed by its helper, or was silent for
\* too long.
HangUp(p, w) ==
    /\ \/ w = "stale" /\ stale[p] # None /\ (p \in dead \/ stale[p].request = None)
       \/ w = "link" /\ link[p] # None /\ link[p].served
    /\ IF owner[p] = w THEN Release(p) ELSE UNCHANGED <<s, owner>>
    /\ link'  = IF w = "link"  THEN [link EXCEPT ![p] = [@ EXCEPT !.request = None,
                                                                  !.served = FALSE]] ELSE link
    /\ stale' = IF w = "stale" THEN [stale EXCEPT ![p] = None] ELSE stale
    /\ UNCHANGED <<host, probes, starts, up, orphan, helper, dead>>

\* The ticker: kept members whose process is gone leave, then admit and probe.
ServerTick(now) ==
    LET gone == {p \in dead : owner[p] = "kept"}
        c == C!Admit(C!RemoveAll(s, gone), now)
        probe == C!CanProbe(c, now)
    IN /\ up
       /\ owner' = [p \in Clients |-> IF p \in gone THEN "none" ELSE owner[p]]
       /\ s' = IF probe THEN C!BeginProbe(c, now) ELSE c
       /\ probes' = IF probe THEN probes \cup {host} ELSE probes
       /\ UNCHANGED <<host, starts, up, orphan, link, stale, helper, dead>>

ProbeEnds(now) ==
    /\ \E began \in probes : C!ProbeSucceeds(began, now) \/ C!ProbeFails(began, now)
    /\ UNCHANGED <<starts, up, orphan, owner, link, stale, helper, dead>>

\* The process is killed, or exits for want of members: its connections
\* close, and a probe in flight keeps the election lock until it is reaped.
Crash ==
    /\ up /\ up' = FALSE
    /\ s' = C!NewSessionRecovery
    /\ probes' = {} /\ orphan' = (probes # {})
    /\ owner' = [p \in Clients |-> "none"]
    /\ link' = [p \in Clients |-> IF link[p] = None THEN None
                                  ELSE [link[p] EXCEPT !.request = None, !.served = FALSE]]
    /\ stale' = [p \in Clients |-> None]
    /\ UNCHANGED <<host, starts, helper, dead>>

OrphanEnds ==
    /\ orphan /\ orphan' = FALSE
    /\ UNCHANGED <<s, host, probes, starts, up, owner, link, stale, helper, dead>>

HostStep(x) ==
    /\ C!HostStep(x)
    /\ UNCHANGED <<starts, up, orphan, owner, link, stale, helper, dead>>

-----------------------------------------------------------------------------
(* The specification.                                                      *)

Init ==
    /\ s = C!NewSessionRecovery
    /\ host = [x \in Sessions |-> "live"] /\ probes = {}
    /\ starts = 0 /\ up = FALSE /\ orphan = FALSE
    /\ owner = [p \in Clients |-> "none"]
    /\ link = [p \in Clients |-> None] /\ stale = [p \in Clients |-> None]
    /\ helper = [p \in Clients |-> H(p)!Send(H(p)!NewHelper, FALSE)]
    /\ dead = {}

Next ==
    \/ \E p \in Clients : \/ HelperSteps(p) \/ CallCoordinator(p) \/ StartCoordinator(p)
                          \/ CallReturns(p) \/ CallFails(p) \/ Departs(p) \/ Dies(p)
                          \/ HangUp(p, "link") \/ HangUp(p, "stale")
    \/ \E p \in Clients, now \in Times : ServeLink(p, now) \/ ServeStale(p, now)
    \/ \E now \in Times : ServerTick(now) \/ ProbeEnds(now)
    \/ Crash \/ OrphanEnds
    \/ \E x \in Mortal : HostStep(x)

Spec == Init /\ [][Next]_vars

(* Fairness: what the schedulers and timers of the processes bring about.  *)

Calls(p)   == /\ Running(p)
              /\ \E retry \in BOOLEAN : HelperBecomes(p, H(p)!Send(helper[p], retry))
              /\ UNCHANGED Controls
Reaps(p)   == /\ Running(p) /\ helper[p].child /\ ~helper[p].gate
              /\ \E x \in H(p)!Sends(H(p)!Reaped(helper[p])) : HelperBecomes(p, x)
              /\ UNCHANGED Controls
Ends(p)    == ~Running(p) /\ Dies(p)

\* A request the coordinator could answer, and the step that answers one.
Answerable(p) ==
    /\ p \notin dead /\ (stale[p] # None => stale[p].request = None)
    /\ link[p] # None /\ link[p].served /\ link[p].request # None
    /\ ~Elsewhere(p, "link") /\ link[p].request.event # "leave"

Answers(p) == link[p] # None /\ link[p].reply = None
              /\ link'[p] # None /\ link'[p].reply # None

\* The helper's 250ms ticker calls while no call is under way; a child whose
\* gate is closed is overrun by its lease, killed and reaped; a call returns
\* or times out; a returned helper exits.  The coordinator reads an abandoned
\* connection to its end and notices processes that are gone.  A call that is
\* repeated for ever once gets through, is answered, and is read in time.
Fairness ==
    \A p \in Clients :
        /\ WF_vars(Calls(p)) /\ WF_vars(Reaps(p)) /\ WF_vars(Ends(p))
        /\ SF_vars(CallCoordinator(p)) /\ WF_vars(CallReturns(p) \/ CallFails(p))
        /\ []<>(stale[p] = None)
        /\ []<>(p \notin dead \/ owner[p] = "none")
        /\ []<>Answerable(p) => []<><<Answers(p)>>_vars
        /\ SF_vars(CallReturns(p))

FairSpec == Spec /\ Fairness

-----------------------------------------------------------------------------
(* Properties.                                                             *)

Members == DOMAIN s.members

\* No grant alongside an unaccounted child: while a registered helper runs a
\* child that was not announced ready, its member holds that very attempt or
\* is waiting for its reap, whatever coordinator knew of it before
\* (session_recovery.go, lines 151-160).
ChildAccounted ==
    \A p \in Members :
        LET m == s.members[p]
            x == helper[p]
        IN x.child /\ ~x.opened /\ ~m.ended
             => m.active = x.attempt \/ (m.active = None /\ m.reset)

\* Nothing is reserved for good: the attempt a member holds, or waits to see
\* reaped, is the one its helper would still report as lost.
Releasable ==
    \A p \in Members \ dead :
        LET m == s.members[p] IN
        /\ m.active # None => m.active = helper[p].attempt
        /\ m.active = None /\ m.reset /\ ~m.ended => m.retired = helper[p].attempt

\* A healthy attachment survives its coordinators: once the readiness of an
\* attempt was acknowledged, no answer of this or of a later coordinator
\* revokes it, only the end of its session does (lines 151-156).
ReadyNotRevoked ==
    \A p \in Clients :
        LET x == helper[p] IN
        x.gate /\ x.reports = <<>> /\ link[p] # None /\ link[p].reply # None
          => link[p].reply.cancel # x.grant \/ link[p].reply.ended

\* Control EOF is not reap evidence: while a live helper runs an admitted
\* child that has not been opened, no lost connection, takeover, late message
\* or probe gives its place away, only the end of the session or of the
\* coordinator does (session_recovery_server.go, lines 75-91).
ReservedUntilReaped ==
    [][\A p \in C!Pending(s) :
          helper[p].child /\ ~helper[p].opened /\ p \notin dead' /\ up'
            => p \in DOMAIN s'.members
               /\ (C!IsPending(s'.members[p]) \/ s'.members[p].ended)]_vars

\* A helper is told that its session ended only if it is gone, also by a
\* reply of an earlier coordinator or to an abandoned call (lines 104-112).
EndIsTrue ==
    \A p \in Clients :
        link[p] # None /\ link[p].reply # None /\ link[p].reply.ended
          => host[SessionOf[p]] = "gone"

\* A reservation ends: an admission that overran its lease is given back
\* while its coordinator runs, however many calls and connections fail
\* before, unless the member leaves (session_supervisor.go, 420-424).
ReservationEnds ==
    \A p \in Clients :
        (up /\ p \in C!Pending(s) /\ s.members[p].reset)
          ~> (~up \/ p \notin C!Pending(s))

=============================================================================
