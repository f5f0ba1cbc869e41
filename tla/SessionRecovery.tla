--------------------------- MODULE SessionRecovery ---------------------------
(***************************************************************************)
(* The shared recovery coordinator of internal/mirror/session_recovery.go. *)
(* One coordinator serves every projection helper of one SSH transport: it *)
(* probes the source host, decides which remote sessions still exist and   *)
(* admits at most two not-yet-ready attachments at a time.                 *)
(*                                                                         *)
(* The Go struct sessionRecovery is the record s; each of its methods is   *)
(* an operator from a record to a record, so the composed models reuse     *)
(* them.  The runtime server serializes the methods under one mutex, so    *)
(* each call is one step.  Every method takes the wall clock as an         *)
(* argument (now.UTC() strips the monotonic reading), which may go back:   *)
(* now is an input of every step and no relation between two readings is   *)
(* assumed.  0 stands for Go's zero time.                                  *)
(*                                                                         *)
(* A session is one incarnation, the pair (Session, SessionID) of a        *)
(* request; the inventory is the set of the incarnations a probe listed,   *)
(* so "inventory.SessionIDs[name] = id" is membership.                     *)
(***************************************************************************)
EXTENDS Integers, Sequences, FiniteSets

CONSTANTS
    Clients,      \* recovery clients (one per projection helper)
    Tokens,       \* projection correlation tokens
    Sessions,     \* session incarnations of the source host
    Mortal,       \* those that may be created or end while the model runs
    Attempts,     \* attachment attempt nonces
    Times,        \* clock readings a step may be given
    Identities,   \* the [client, token, session] records helpers present
    None,         \* the empty string: no attempt, no event
    FailureCap,   \* where the failure counters saturate (6 in the code)
    Lease,        \* time an admitted attachment has to become ready (15s)
    ProbeFloor,   \* least time between the starts of two probes (1s)
    ProbePeriod   \* time to the next routine probe (30s)

ASSUME RecoveryConstants ==
    /\ Times \subseteq Nat \ {0}
    /\ None \notin Attempts \cup {"ready", "lost"}
    /\ Mortal \subseteq Sessions
    /\ Identities \subseteq [client : Clients, token : Tokens, session : Sessions]
    /\ FailureCap \in Nat
    /\ Lease \in Nat /\ ProbeFloor \in Nat /\ ProbePeriod \in Nat

VARIABLES
    s,       \* the coordinator's struct sessionRecovery
    host,    \* the incarnations of the source host: unborn, live or gone
    probes   \* the probes in flight: the host as it was when each began

vars == <<s, host, probes>>

-----------------------------------------------------------------------------
(* Requests, replies and the coordinator's types.                          *)

\* The requests that validRecoveryRequest accepts.  The state "checking" is
\* handled exactly as "offline" and is represented by it.
RequestsOf(identities) ==
    {r \in [client : Clients, token : Tokens, session : Sessions, attempt : Attempts,
            event : {None, "ready", "lost"}, state : {"offline", "connecting", "ready"},
            retry : BOOLEAN] :
       [client |-> r.client, token |-> r.token, session |-> r.session] \in identities}

Requests == RequestsOf(Identities)

\* "observed" holds of the members that observing, the map taken when the
\* probe in flight began, still points to.
Member ==
    [token : Tokens, session : Sessions,
     proposed : Attempts, active : Attempts \cup {None},
     retired : Attempts \cup {None}, deadline : Nat,
     ready : BOOLEAN, ended : BOOLEAN, reset : BOOLEAN, observed : BOOLEAN]

SessionRetry == [failures : 0..FailureCap, at : Nat]

\* Go maps: functions of some of the keys.
IsMap(f, keys, values) == f \in [DOMAIN f -> values] /\ DOMAIN f \subseteq keys

IsCoordinator(c) ==
    /\ DOMAIN c = {"members", "order", "sessions", "available", "checking", "wanted",
                   "nextProbe", "lastProbe", "failures", "inventory"}
    /\ IsMap(c.members, Clients, Member)
    /\ c.order \in Seq(Clients)
    /\ IsMap(c.sessions, Sessions, SessionRetry)
    /\ c.available \in BOOLEAN /\ c.checking \in BOOLEAN /\ c.wanted \in BOOLEAN
    /\ c.nextProbe \in Nat /\ c.lastProbe \in Nat
    /\ c.failures \in 0..FailureCap
    /\ c.inventory \subseteq Sessions

Fresh == [failures |-> 0, at |-> 0]

NewSessionRecovery ==
    [members   |-> [c \in {} |-> None],
     order     |-> <<>>,
     sessions  |-> [x \in {} |-> Fresh],
     available |-> FALSE, checking |-> FALSE, wanted |-> FALSE,
     nextProbe |-> 0, lastProbe |-> 0,
     failures  |-> 0,
     inventory |-> {}]

-----------------------------------------------------------------------------
(* Time.                                                                   *)

\* min(30s, 1s << min(failures, 5)), in seconds.
RecoveryDelay(failures) ==
    CASE failures = 0 -> 1
      [] failures = 1 -> 2
      [] failures = 2 -> 4
      [] failures = 3 -> 8
      [] failures = 4 -> 16
      [] OTHER -> 30

Saturate(failures) == IF failures < FailureCap THEN failures + 1 ELSE failures

-----------------------------------------------------------------------------
(* Members.                                                                *)

IsPending(m) == m.active # None /\ ~m.ready

Pending(c) == {x \in DOMAIN c.members : IsPending(c.members[x])}

\* A session is busy while one of its members is pending.
Busy(c, session) == \E x \in Pending(c) : c.members[x].session = session

SetMember(c, x, m) ==
    [c EXCEPT !.members = [y \in DOMAIN c.members \cup {x} |->
                             IF y = x THEN m ELSE c.members[y]]]

SetRetry(c, session, retry) ==
    [c EXCEPT !.sessions = [y \in DOMAIN c.sessions \cup {session} |->
                              IF y = session THEN retry ELSE c.sessions[y]]]

-----------------------------------------------------------------------------
(* Probing the host.                                                       *)

\* While a probe is in flight a request for another one is dropped.
RequestProbe(c, now) ==
    LET floor == c.lastProbe + ProbeFloor
        due   == IF now < floor THEN floor ELSE now
    IN IF c.checking THEN c
       ELSE [c EXCEPT !.wanted = TRUE,
                      !.nextProbe = IF @ = 0 \/ due < @ THEN due ELSE @]

CanProbe(c, now) ==
    /\ ~c.checking
    /\ DOMAIN c.members # {}
    /\ now >= c.nextProbe
    /\ \/ c.wanted
       \/ \E x \in DOMAIN c.members : ~c.members[x].ready /\ ~c.members[x].ended

\* The sequence number beginProbe returns is left out: checking admits one
\* probe at a time, so the probe that finishes is always the latest one
\* (UnknownMemberIsProbed below).
BeginProbe(c, now) ==
    [c EXCEPT !.checking = TRUE, !.wanted = FALSE, !.lastProbe = now,
              !.members = [x \in DOMAIN c.members |->
                             [c.members[x] EXCEPT !.observed = TRUE]]]

-----------------------------------------------------------------------------
(* Admission.                                                              *)

ExpireFreeing(c, now) ==
    [c EXCEPT !.members = [x \in DOMAIN c.members |->
        LET m == c.members[x] IN
        IF IsPending(m) /\ now >= m.deadline
        THEN [m EXCEPT !.active = None, !.retired = m.active] ELSE m]]

\* A pending attachment that has overrun its lease is to be reaped.
Expire(c, now) ==
    [c EXCEPT !.members = [x \in DOMAIN c.members |->
        LET m == c.members[x] IN
        IF IsPending(m) /\ now >= m.deadline THEN [m EXCEPT !.reset = TRUE] ELSE m]]

Admissible(c, now, x) ==
    LET m == c.members[x] IN
    /\ ~m.ended /\ ~m.reset
    /\ m.active = None /\ m.proposed # m.retired
    /\ ~Busy(c, m.session)
    /\ now >= c.sessions[m.session].at
    /\ m.session \in c.inventory

FewerThanTwo(S) == \A x, y \in S : x = y

\* The places of the order the admission loop would stop at.
Candidates(c, now) == {i \in 1..Len(c.order) : Admissible(c, now, c.order[i])}

IsFirst(i, I) == i \in I /\ \A j \in I : i <= j

NextAdmittedOverCapacity(c, now) ==
    LET I == Candidates(c, now)
    IN IF (\A x, y, z \in Pending(c) : x = y \/ y = z \/ x = z) /\ I # {}
       THEN CHOOSE i \in I : IsFirst(i, I) ELSE 0

\* The place of the member admitted next, 0 when there is none.
NextAdmitted(c, now) ==
    LET I == Candidates(c, now)
    IN IF FewerThanTwo(Pending(c)) /\ I # {} THEN CHOOSE i \in I : IsFirst(i, I) ELSE 0

Grant(c, now, i) ==
    IF i = 0 THEN c
    ELSE LET x == c.order[i]
             m == c.members[x]
         IN SetMember(c, x, [m EXCEPT !.active = m.proposed, !.deadline = now + Lease])

RotateAlways(c, i) ==
    LET n == Len(c.order) IN
    IF i = 0 THEN c
    ELSE [c EXCEPT !.order = [j \in 1..n |-> IF i + j <= n THEN c.order[i + j]
                                             ELSE c.order[i + j - n]]]

\* The loop moves every member it passes to the tail.  Over a whole round
\* that restores the order; it stops earlier, after place i, when i filled
\* the second slot.
RotateOrder(c, i) ==
    LET n == Len(c.order) IN
    IF i = 0 \/ FewerThanTwo(Pending(c)) THEN c
    ELSE [c EXCEPT !.order = [j \in 1..n |-> IF i + j <= n THEN c.order[i + j]
                                             ELSE c.order[i + j - n]]]

\* At most two passes can admit: admitting a member never makes another one
\* admissible, so the second pass starts where the first one stopped.
Admit(c, now) ==
    LET c0 == Expire(c, now)
        i  == NextAdmitted(c0, now)
        c1 == Grant(c0, now, i)
        j  == NextAdmitted(c1, now)
        c2 == Grant(c1, now, j)
    IN IF ~c.available THEN c0
       ELSE RotateOrder(c2, IF j = 0 THEN i ELSE j)

-----------------------------------------------------------------------------
(* The exchange with a helper.                                             *)

\* A member as a coordinator first hears of it; holds and unknown are what
\* it makes of the state the helper reports.
MemberOf(r, holds, unknown) ==
    [token |-> r.token, session |-> r.session, proposed |-> r.attempt,
     active |-> IF holds THEN r.attempt ELSE None,
     retired |-> IF unknown THEN r.attempt ELSE None,
     deadline |-> 0, ready |-> holds, ended |-> FALSE, reset |-> unknown, observed |-> FALSE]

NewMemberUnretired(r) ==
    [MemberOf(r, r.state = "ready", r.state = "connecting") EXCEPT !.retired = None]

NewMemberOnLease(r) ==
    [MemberOf(r, r.state = "ready", r.state = "connecting") EXCEPT !.ready = FALSE]

\* A restarted coordinator accounts for what the helper already holds: a
\* ready transport is kept, an unproved child must be reaped first.
NewMember(r) ==
    LET holds == r.state = "ready"
    IN MemberOf(r, holds, r.state = "connecting" \/ (r.event # None /\ ~holds))

Register(c, r, now) ==
    LET c1 == SetMember(c, r.client, NewMember(r))
        c2 == IF r.session \in DOMAIN c.sessions THEN c1 ELSE SetRetry(c1, r.session, Fresh)
    IN RequestProbe([c2 EXCEPT !.order = Append(@, r.client)], now)

\* A second client with a registered token, or a client that changed its
\* identity, gets an error and changes nothing.
Refused(c, r) ==
    \/ /\ r.client \notin DOMAIN c.members
       /\ \E x \in DOMAIN c.members : c.members[x].token = r.token
    \/ /\ r.client \in DOMAIN c.members
       /\ \/ c.members[r.client].token # r.token
          \/ c.members[r.client].session # r.session

Fail(c, x, now) ==
    LET m == c.members[x]
        retry == c.sessions[m.session]
        c1 == SetMember(c, x, [m EXCEPT !.retired = m.active, !.active = None,
                                        !.ready = FALSE, !.reset = FALSE])
    IN SetRetry(c1, m.session, [failures |-> Saturate(retry.failures),
                                at |-> now + RecoveryDelay(retry.failures)])

\* What every accepted request does first.
Enter(c, r, now) ==
    LET c1 == IF r.client \in DOMAIN c.members THEN c ELSE Register(c, r, now)
        c2 == IF r.retry THEN RequestProbe(c1, now) ELSE c1
    IN Expire(c2, now)

Releases(m, r) == r.event = "lost" /\ r.attempt = m.retired

StaleByClockOnly(m, r, now) ==
    \/ m.active # None /\ r.attempt # m.active
    \/ r.event # None /\ ~Releases(m, r) /\ r.attempt # m.active
    \/ r.event = "ready" /\ r.attempt = m.active /\ ~m.ready /\ now >= m.deadline

\* Messages about another attempt than the live one, and readiness after
\* the lease has expired, only resynchronize their sender.
Stale(m, r, now) ==
    \/ m.active # None /\ r.attempt # m.active
    \/ /\ r.event # None /\ ~Releases(m, r)
       /\ r.attempt # m.active
    \/ /\ r.event = "ready" /\ r.attempt = m.active
       /\ ~m.ready /\ (m.reset \/ now >= m.deadline)

\* The request's event, or the attempt it proposes.
ApplyEvent(c, r, now) ==
    LET x == r.client
        m == c.members[x]
    IN CASE Releases(m, r) ->
              SetMember(c, x, [m EXCEPT !.reset = m.reset /\ m.active # None])
         [] r.event = "ready" ->
              SetRetry(SetMember(c, x, [m EXCEPT !.ready = TRUE]), m.session, Fresh)
         [] r.event = "lost" /\ ~Releases(m, r) ->
              RequestProbe(Fail(c, x, now), now)
         [] r.event = None ->
              IF m.active = None /\ ~m.reset /\ r.attempt # m.retired
              THEN SetMember(c, x, [m EXCEPT !.proposed = r.attempt]) ELSE c

\* A child that runs without an admission has to be reaped.
CheckChild(c, r) ==
    LET m == c.members[r.client]
    IN IF r.state = "connecting" /\ m.active # r.attempt /\ r.attempt # m.retired
       THEN SetMember(c, r.client, [m EXCEPT !.reset = TRUE]) ELSE c

Reply(c, x, reset) ==
    LET m == c.members[x]
        held == IsPending(m)
    IN [checking |-> c.checking, ended |-> m.ended, reset |-> reset,
        cancel |-> IF m.reset /\ held THEN m.active ELSE None,
        grant |-> IF ~reset /\ ~m.ended /\ held THEN m.active ELSE None,
        deadline |-> IF ~reset /\ ~m.ended /\ held THEN m.deadline ELSE 0]

\* exchange: the coordinator after the call and the reply it returns.
Exchange(c, r, now) ==
    LET c1 == Enter(c, r, now)
        c2 == Admit(CheckChild(ApplyEvent(c1, r, now), r), now)
        m2 == c2.members[r.client]
    IN IF Stale(c1.members[r.client], r, now)
       THEN [state |-> c1, reply |-> Reply(c1, r.client, TRUE)]
       ELSE [state |-> c2, reply |-> Reply(c2, r.client, m2.reset \/ r.attempt = m2.retired)]

-----------------------------------------------------------------------------
(* The end of a probe, and of a member.                                    *)

FailProbeAsEmpty(c, now) ==
    [c EXCEPT !.checking = FALSE, !.available = FALSE,
              !.nextProbe = now + RecoveryDelay(c.failures),
              !.failures = Saturate(@),
              !.members = [x \in DOMAIN c.members |->
                             [c.members[x] EXCEPT !.observed = FALSE, !.ended = TRUE]]]

\* Failed, timed out or invalid: the host's state is unknown.
FailProbe(c, now) ==
    [c EXCEPT !.checking = FALSE, !.available = FALSE,
              !.nextProbe = now + RecoveryDelay(c.failures),
              !.failures = Saturate(@),
              !.members = [x \in DOMAIN c.members |->
                             [c.members[x] EXCEPT !.observed = FALSE]]]

EndUnobserved(m, inventory) ==
    IF m.session \notin inventory
    THEN [m EXCEPT !.ended = TRUE, !.active = None, !.ready = FALSE, !.observed = FALSE]
    ELSE [m EXCEPT !.observed = FALSE]

\* Only a member that was registered when the probe began can be ended by it.
EndMember(m, inventory) ==
    IF m.observed /\ m.session \notin inventory
    THEN [m EXCEPT !.ended = TRUE, !.active = None, !.ready = FALSE, !.observed = FALSE]
    ELSE [m EXCEPT !.observed = FALSE]

FinishProbeForgetful(c, now, inventory) ==
    Admit([c EXCEPT !.checking = FALSE, !.available = TRUE, !.failures = 0,
                    !.inventory = inventory, !.nextProbe = now + ProbePeriod,
                    !.members = [x \in DOMAIN c.members |->
                                   EndMember(c.members[x], inventory)]], now)

FinishProbe(c, now, inventory) ==
    LET c1 == [c EXCEPT !.checking = FALSE, !.available = TRUE, !.failures = 0,
                        !.inventory = inventory, !.nextProbe = now + ProbePeriod,
                        !.members = [x \in DOMAIN c.members |->
                                       EndMember(c.members[x], inventory)]]
        missed == \E x \in DOMAIN c1.members :
                     ~c1.members[x].ended /\ c1.members[x].session \notin inventory
    IN Admit(IF missed THEN RequestProbe(c1, now) ELSE c1, now)

WithoutLast(order, x) == SubSeq(order, 1, Len(order) - 1)

Without(order, x) ==
    LET n == Len(order)
        i == CHOOSE k \in 1..n : order[k] = x
    IN [k \in 1..(n - 1) |-> IF k < i THEN order[k] ELSE order[k + 1]]

\* The last member of a session takes the session's backoff with it.
Remove(c, x) ==
    LET m      == c.members[x]
        others == DOMAIN c.members \ {x}
        kept   == IF \E y \in others : c.members[y].session = m.session
                  THEN DOMAIN c.sessions ELSE DOMAIN c.sessions \ {m.session}
    IN [c EXCEPT !.members  = [y \in others |-> c.members[y]],
                 !.order    = Without(c.order, x),
                 !.sessions = [y \in kept |-> c.sessions[y]]]

\* The places of I, in their order.
InOrder(I) ==
    CHOOSE at \in [1..Cardinality(I) -> I] : \A i, j \in DOMAIN at : i < j => at[i] < at[j]

\* The members of gone are removed, one after the other.
RemoveAll(c, gone) ==
    LET kept == DOMAIN c.members \ gone
        at   == InOrder({i \in 1..Len(c.order) : c.order[i] \in kept})
    IN [c EXCEPT !.members  = [y \in kept |-> c.members[y]],
                 !.order    = [i \in DOMAIN at |-> c.order[at[i]]],
                 !.sessions = [y \in {c.members[x].session : x \in kept} |-> c.sessions[y]]]

-----------------------------------------------------------------------------
(* The source host.  An incarnation that is gone never comes back, and a   *)
(* helper is given an incarnation that exists.                             *)

Status == {"unborn", "live", "gone"}

\* Sessions come and go while the catalog is read: a listing holds every
\* session that was live throughout and none that was live at no time.
Listings(began, now) ==
    {I \in SUBSET Sessions :
        \A x \in Sessions :
            /\ began[x] = "live" /\ now[x] = "live" => x \in I
            /\ x \in I => began[x] # "gone" /\ now[x] # "unborn"}

HostSteps == {<<"unborn", "live">>, <<"live", "gone">>}

-----------------------------------------------------------------------------
(* The specification.                                                      *)

Init ==
    /\ s = NewSessionRecovery
    /\ host \in [Sessions -> {"unborn", "live"}]
    /\ probes = {}

\* A request reaches the coordinator (serve).
HandleRequest(r, now) ==
    /\ host[r.session] # "unborn"
    /\ ~Refused(s, r)
    /\ s' = Exchange(s, r, now).state
    /\ UNCHANGED <<host, probes>>

\* The helper leaves, or its connection and process are gone.
RemoveClient(x) ==
    /\ x \in DOMAIN s.members
    /\ s' = Remove(s, x)
    /\ UNCHANGED <<host, probes>>

\* The 50ms ticker.
Tick(now) ==
    LET c == Admit(s, now) IN
    /\ s' = IF CanProbe(c, now) THEN BeginProbe(c, now) ELSE c
    /\ probes' = IF CanProbe(c, now) THEN probes \cup {host} ELSE probes
    /\ UNCHANGED host

ProbeSucceeds(began, now) ==
    /\ \E inventory \in Listings(began, host) : s' = FinishProbe(s, now, inventory)
    /\ probes' = probes \ {began}
    /\ UNCHANGED host

ProbeFails(began, now) ==
    /\ s' = FailProbe(s, now)
    /\ probes' = probes \ {began}
    /\ UNCHANGED host

HostStep(x) ==
    /\ \E status \in Status : /\ <<host[x], status>> \in HostSteps
                              /\ host' = [host EXCEPT ![x] = status]
    /\ UNCHANGED <<s, probes>>

Next ==
    \/ \E r \in Requests, now \in Times : HandleRequest(r, now)
    \/ \E x \in Clients : RemoveClient(x)
    \/ \E now \in Times : Tick(now)
    \/ \E began \in probes, now \in Times : ProbeSucceeds(began, now)
    \/ \E began \in probes, now \in Times : ProbeFails(began, now)
    \/ \E x \in Mortal : HostStep(x)

Spec == Init /\ [][Next]_vars

-----------------------------------------------------------------------------
(* Properties.                                                             *)

\* The coordinator's state, the host and the probes have their types.
TypeOK ==
    /\ IsCoordinator(s)
    /\ host \in [Sessions -> Status]
    /\ probes \in SUBSET [Sessions -> Status]

WithinCapacity(c) ==
    /\ \A x, y, z \in Pending(c) : x = y \/ y = z \/ x = z
    /\ \A x, y \in Pending(c) : c.members[x].session = c.members[y].session => x = y

\* Admission capacity: however requests, losses, expiries, probe results and
\* departures interleave, at most two members hold an admission that is not
\* yet ready, and at most one of each session (admit, lines 225-249).
PendingBound == WithinCapacity(s)

Elements(order) == {order[i] : i \in 1..Len(order)}

Consistent(c) ==
    /\ \A i, j \in 1..Len(c.order) : c.order[i] = c.order[j] => i = j
    /\ Elements(c.order) = DOMAIN c.members
    /\ DOMAIN c.sessions = {c.members[x].session : x \in DOMAIN c.members}

\* The rotation order lists every member exactly once and every member's
\* session has its backoff record, so that admit, fail and reply never
\* dereference a missing entry and no member is forgotten by the rotation
\* (lines 145-150, 236-248, 268-286).
Bookkeeping == Consistent(s)

\* A member is told that its session ended only if that incarnation is gone
\* from the host, although a listing may have been read before a session was
\* created or before its member registered (finishProbe, lines 104-112).
EndedOnlyIfGone ==
    \A x \in DOMAIN s.members : s.members[x].ended => host[s.members[x].session] = "gone"

\* At most one probe is in flight, so the result that arrives is that of the
\* latest (lines 57-86); and a member the current inventory does not know is
\* never left waiting for the routine period: a probe is in flight or wanted
\* (lines 114-119, 161).
UnknownMemberIsProbed ==
    /\ FewerThanTwo(probes)
    /\ s.available /\ (\E x \in DOMAIN s.members : ~s.members[x].ended
                                                  /\ s.members[x].session \notin s.inventory)
         => probes # {} \/ s.wanted

\* An expired lease cannot be revived.  A pending
\* attempt that was told to stop stays pending and stopped, whatever the
\* clock does, until its loss is reported, its session ends or its member
\* leaves; a late readiness report never makes it ready (lines 184-189).
ExpiredStaysExpired ==
    [][\A x \in DOMAIN s.members :
          LET m == s.members[x] IN
          IsPending(m) /\ m.reset /\ x \in DOMAIN s'.members
             => LET n == s'.members[x] IN
                \/ n.active = m.active /\ ~n.ready /\ n.reset
                \/ n.active = None /\ (n.retired = m.active \/ n.ended)]_vars

=============================================================================
