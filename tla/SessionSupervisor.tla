-------------------------- MODULE SessionSupervisor --------------------------
(***************************************************************************)
(* The projection helper of internal/mirror/session_supervisor.go: one     *)
(* physical terminal, kept across disposable SSH children.  The helper is  *)
(* a single event loop; every case of its select is one step here.  It     *)
(* never admits itself: it asks the shared coordinator, starts a child for *)
(* a grant, opens its input gate when the child has proved its attachment, *)
(* and reports "ready" and "lost".                                         *)
(*                                                                         *)
(* The loop's local variables are the fields of the record h and its       *)
(* closures (send, lose, open, ...) operators from records to records.     *)
(* Clock comparisons (overdue, due) are inputs, so that no relation        *)
(* between two readings is assumed.  Rendering and resizing are left out.  *)
(* Replies, in this module, are arbitrary: what is shown of the helper     *)
(* holds whatever coordinator it talks to.                                 *)
(***************************************************************************)
EXTENDS Integers, Sequences

CONSTANTS
    None,          \* no attempt, no event, no call, no child
    MaxAttempts,   \* bound on the attempt nonces drawn
    MaxQueue,      \* capacity of the child's packet channel (16 in the code)
    MaxOpens       \* bound on the gate's generations

\* Nonces are fresh, so they are numbered in the order they are drawn.
Nonces == 1..MaxAttempts

\* The SSH children: an attempt, its process, what the decoder of its output
\* remembers, and the packets decoded but not yet taken.
Children ==
    [attempt : Nonces, running : BOOLEAN, killed : BOOLEAN, ready : BOOLEAN,
     outcome : {None, "detached", "failed"},
     queue : Seq(Seq({"ready", "detached", "failed"}))]

ASSUME SupervisorConstants ==
    /\ MaxAttempts \in Nat \ {0} /\ MaxQueue \in Nat \ {0} /\ MaxOpens \in Nat \ {0}
    /\ None \notin Nat \cup Children

VARIABLES
    h,          \* the loop's local variables
    started,    \* history: attempts a child was started for
    acked,      \* history: attempts whose loss the coordinator acknowledged
    announced,  \* history: the origins [attempt, generation] of every opening
    pasted      \* history: the last paste written, [origin, attempt], or None

vars == <<h, started, acked, announced, pasted>>

-----------------------------------------------------------------------------
(* The child: an SSH transport and the decoder of its output.  A packet is *)
(* the sequence of lifecycle events decoded from one read; the decoder     *)
(* emits "ready" once, then one final event, and nothing afterwards.       *)

NewChild(attempt) ==
    [attempt |-> attempt, running |-> TRUE, killed |-> FALSE,
     ready |-> FALSE, outcome |-> None, queue |-> <<>>]

Packets(child) ==
    IF child.outcome # None THEN {<<>>}
    ELSE IF child.ready THEN {<<>>, <<"detached">>, <<"failed">>}
    ELSE {<<>>, <<"ready">>, <<"failed">>, <<"ready", "detached">>, <<"ready", "failed">>}

\* What the decoder remembers of a packet's events.
Decoded(child, packet) ==
    [child EXCEPT !.queue = Append(@, packet),
                  !.ready = @ \/ \E i \in DOMAIN packet : packet[i] = "ready",
                  !.outcome = IF packet # <<>> /\ packet[Len(packet)] # "ready"
                              THEN packet[Len(packet)] ELSE @]

-----------------------------------------------------------------------------
(* The loop's closures.                                                    *)

NewHelper ==
    [alive |-> TRUE, attempt |-> 1, grant |-> None, child |-> None,
     proved |-> FALSE, stopping |-> FALSE, slot |-> FALSE,
     gate |-> 0, next |-> 0,
     reports |-> <<>>, call |-> None, retry |-> FALSE, polling |-> FALSE]

Phase(x) ==
    IF x.gate # 0 THEN "ready" ELSE IF x.child # None THEN "connecting" ELSE "offline"

\* One control call at a time; it carries the oldest unacknowledged report.
Send(x) ==
    LET report == IF x.reports = <<>> THEN [attempt |-> x.attempt, event |-> None]
                  ELSE Head(x.reports)
    IN IF x.call # None THEN x
       ELSE [x EXCEPT !.call = [attempt |-> report.attempt, event |-> report.event,
                                state |-> Phase(x), retry |-> x.retry],
                      !.retry = FALSE]

\* The group of the child is killed; its exit is observed later.
StopChild(child) == IF child = None THEN None ELSE [child EXCEPT !.killed = TRUE]

LoseSlot(x) == [x EXCEPT !.gate = 0, !.proved = FALSE, !.stopping = TRUE,
                         !.slot = FALSE, !.child = StopChild(x.child)]

LoseLater(x) == [x EXCEPT !.proved = FALSE, !.stopping = TRUE,
                          !.child = StopChild(x.child)]

Lose(x) == [x EXCEPT !.gate = 0, !.proved = FALSE, !.stopping = TRUE,
                     !.child = StopChild(x.child)]

Report(x, attempt, event) ==
    [x EXCEPT !.reports = Append(@, [attempt |-> attempt, event |-> event])]

\* open: proof and an input boundary turn the child into the attachment.
\* boundary is the outcome of the gate's drain, drawn whether the first
\* screen could be written.
Open(x, overdue, boundary, drawn) ==
    IF x.child = None \/ x.stopping \/ ~x.proved \/ x.gate # 0 THEN x
    ELSE IF overdue \/ boundary = "error" THEN Lose(x)
    ELSE IF boundary = "unfinished" THEN x
    ELSE LET opened == [x EXCEPT !.next = @ + 1, !.gate = x.next + 1]
         IN IF ~drawn THEN Lose(opened)
            ELSE Send(Report([opened EXCEPT !.slot = FALSE], x.grant, "ready"))

Boundaries == {"open", "unfinished", "error"}

\* The deferred cleanup: the child is stopped and reaped before the slot.
Return(x) ==
    [x EXCEPT !.alive = FALSE, !.gate = 0, !.child = None, !.slot = FALSE, !.call = None]

-----------------------------------------------------------------------------
(* The cases of the select.                                                *)

\* Typing and pastes from the terminal (current: read under this gate).
Typed(x, written) == IF x.child # None /\ x.gate # 0 /\ ~written THEN Lose(x) ELSE x

Enter(x) == IF x.gate = 0 THEN Send([x EXCEPT !.retry = TRUE]) ELSE x

\* A bounded packet of output: shown once the gate is open, else kept.
OnPacket(x, kept) ==
    LET packet == Head(x.child.queue)
        x1 == [x EXCEPT !.child.queue = Tail(@)]
        x2 == IF (x1.gate # 0 \/ ~x1.stopping) /\ ~kept THEN Lose(x1) ELSE x1
        proof == packet # <<>> /\ packet[1] = "ready" /\ ~x2.stopping
        x3 == IF proof THEN [x2 EXCEPT !.proved = TRUE] ELSE x2
    IN IF packet = <<>> \/ (proof /\ Len(packet) = 1) THEN x3 ELSE Lose(x3)

\* The child was reaped.
OnDone(x) ==
    LET x1 == [x EXCEPT !.gate = 0, !.slot = FALSE, !.child = None, !.proved = FALSE]
    IN IF x.child.outcome = "detached" THEN Return(x1)
       ELSE Send(Report(x1, x.grant, "lost"))

\* A control call that failed leaves the reports for the next one.
OnCallError(x) == [x EXCEPT !.call = None, !.retry = @ \/ x.call.retry]

AcknowledgeSame(x) ==
    IF x.call.event # None /\ x.reports # <<>>
          /\ Head(x.reports) = [attempt |-> x.call.attempt, event |-> x.call.event]
    THEN [x EXCEPT !.reports = Tail(@),
                   !.grant = IF x.call.event = "lost" THEN None ELSE @]
    ELSE x

\* An acknowledged report leaves the queue; an acknowledged loss draws the
\* next attempt.
Acknowledge(x) ==
    IF x.call.event # None /\ x.reports # <<>>
          /\ Head(x.reports) = [attempt |-> x.call.attempt, event |-> x.call.event]
    THEN IF x.call.event = "lost"
         THEN [x EXCEPT !.reports = Tail(@), !.grant = None, !.attempt = @ + 1]
         ELSE [x EXCEPT !.reports = Tail(@)]
    ELSE x

\* Revocations: of exactly this attempt, or of everything not yet ready.
Revoke(x, reply) ==
    LET x1 == IF x.child # None /\ reply.cancel = x.grant THEN Lose(x) ELSE x
    IN IF ~reply.reset \/ x1.gate # 0 THEN x1
       ELSE IF x1.child # None THEN Lose(x1)
       ELSE IF x1.reports # <<>> THEN x1
       ELSE LET x2 == [x1 EXCEPT !.grant = None]
            IN IF reply.cancel = x.attempt THEN Report(x2, x.attempt, "lost") ELSE x2

Accepts(x, call, reply) ==
    /\ reply.grant # None /\ ~reply.reset
    /\ call.event = None /\ x.child = None /\ x.reports = <<>>
    /\ x.grant = None /\ reply.grant = x.attempt

\* A child for the grant.  begun tells how far it came: "late" (the grant
\* had expired), "failed" (no slot, or no transport) or "started".
Begin(x, begun) ==
    CASE begun = "late"    -> Send(Report(x, x.attempt, "lost"))
      [] begun = "failed"  -> Report([x EXCEPT !.grant = x.attempt, !.stopping = FALSE,
                                               !.proved = FALSE], x.attempt, "lost")
      [] begun = "started" -> [x EXCEPT !.grant = x.attempt, !.stopping = FALSE,
                                        !.proved = FALSE, !.slot = TRUE,
                                        !.child = NewChild(x.attempt)]

\* due: the coordinator's next retry time has come.
AwaitAdmission(x, reply, due) ==
    [x EXCEPT !.polling = x.child = None /\ x.gate = 0 /\ (reply.checking \/ due)]

OnReply(x, reply, begun, due) ==
    LET call == x.call
        x1 == [Acknowledge(x) EXCEPT !.call = None]
        x2 == Revoke(x1, reply)
        x3 == IF Accepts(x2, call, reply) THEN Begin(x2, begun) ELSE x2
        x4 == IF x3.reports # <<>> \/ x3.retry THEN Send(x3) ELSE x3
    IN IF reply.ended THEN Return(x1)
       ELSE IF Accepts(x2, call, reply) /\ begun = "late" THEN x3
       ELSE AwaitAdmission(x4, reply, due)

OnAdmission(x) == Send([x EXCEPT !.polling = FALSE])

OnTicker(x, overdue, boundary, drawn) ==
    LET x1 == IF x.child # None /\ x.gate = 0 /\ overdue THEN Lose(x) ELSE x
    IN Send(Open(x1, overdue, boundary, drawn))

-----------------------------------------------------------------------------
(* The specification of one helper among arbitrary peers.                  *)

Init ==
    /\ h = Send(NewHelper)
    /\ started = {} /\ acked = {} /\ announced = {} /\ pasted = None

\* What localState tells the clients that later broker a paste.
Origin(x) == [attempt |-> x.grant, generation |-> x.gate]

\* The loop moves to x; the history variables follow.
Becomes(x) ==
    /\ h.alive
    /\ h' = x
    /\ started' = IF h.child = None /\ x.child # None
                  THEN started \cup {x.child.attempt} ELSE started
    /\ acked' = IF x.attempt # h.attempt THEN acked \cup {h.call.attempt} ELSE acked
    /\ announced' = IF x.gate # 0 /\ h.gate = 0 THEN announced \cup {Origin(x)} ELSE announced

\* open at the end of a case; MaxOpens bounds the generations.
Settled(S, x) ==
    {Open(y, overdue, boundary, drawn) :
        y \in S, overdue \in BOOLEAN, drawn \in BOOLEAN,
        boundary \in IF x.next < MaxOpens THEN Boundaries ELSE Boundaries \ {"open"}}

\* What each case may make of the loop x, without the trailing Becomes.
InputSteps(x) == Settled({Typed(x, written) : written \in BOOLEAN} \cup {Enter(x)}, x)

OutputSteps(x) ==
    IF x.child = None \/ x.child.queue = <<>> THEN {}
    ELSE Settled({OnPacket(x, kept) : kept \in BOOLEAN}, x)

\* The select may take the end of the child before its queued output.
DoneSteps(x) == IF x.child = None \/ x.child.running THEN {} ELSE {OnDone(x)}

AdmissionSteps(x) == IF x.polling THEN {OnAdmission(x)} ELSE {}

TickerSteps(x) ==
    {OnTicker(x, overdue, boundary, drawn) : overdue \in BOOLEAN, drawn \in BOOLEAN,
        boundary \in IF x.next < MaxOpens THEN Boundaries ELSE Boundaries \ {"open"}}

ReplySteps(x, reply, outcomes) ==
    {OnReply(x, reply, begun, due) : begun \in outcomes, due \in BOOLEAN}

\* The child writes a packet, while its channel has room, or exits.
ChildSteps(x) ==
    IF x.child = None \/ ~x.child.running THEN {}
    ELSE {[x EXCEPT !.child.running = FALSE]} \cup
         {[x EXCEPT !.child = Decoded(@, packet)] :
             packet \in IF Len(x.child.queue) < MaxQueue THEN Packets(x.child) ELSE {}}

\* The terminal: typing, Enter on the status screen, or its end.
Input          == (\E x \in InputSteps(h) : Becomes(x)) /\ UNCHANGED pasted
TerminalCloses == Becomes(Return(h)) /\ UNCHANGED pasted
Output         == (\E x \in OutputSteps(h) : Becomes(x)) /\ UNCHANGED pasted
Done           == (\E x \in DoneSteps(h) : Becomes(x)) /\ UNCHANGED pasted
Admission      == (\E x \in AdmissionSteps(h) : Becomes(x)) /\ UNCHANGED pasted
Ticker         == (\E x \in TickerSteps(h) : Becomes(x)) /\ UNCHANGED pasted
Child          == (\E x \in ChildSteps(h) : Becomes(x)) /\ UNCHANGED pasted

\* A paste brokered for an earlier or the present state of this terminal.
PasteAnywhere(origin, written) ==
    LET mine == h.child # None /\ h.gate # 0 IN
    /\ Becomes(IF mine /\ ~written THEN Lose(h) ELSE h)
    /\ pasted' = IF mine THEN [origin |-> origin, attempt |-> h.child.attempt] ELSE pasted

LocalPaste(origin, written) ==
    LET mine == h.child # None /\ h.gate # 0 /\ origin = Origin(h) IN
    /\ Becomes(IF mine /\ ~written THEN Lose(h) ELSE h)
    /\ pasted' = IF mine THEN [origin |-> origin, attempt |-> h.child.attempt] ELSE pasted

CallFails == h.call # None /\ Becomes(OnCallError(h)) /\ UNCHANGED pasted

Replies ==
    [checking : BOOLEAN, ended : BOOLEAN, reset : BOOLEAN,
     cancel : Nonces \cup {None}, grant : Nonces \cup {None}]

Outcomes == {"late", "failed", "started"}

\* MaxAttempts bounds the nonces an acknowledged loss draws.
CallReturns(reply) ==
    /\ h.call # None
    /\ h.call.event = "lost" => h.attempt < MaxAttempts
    /\ \E x \in ReplySteps(h, reply, Outcomes) : Becomes(x)
    /\ UNCHANGED pasted

Next ==
    \/ Input \/ TerminalCloses \/ Output \/ Done \/ Admission \/ Ticker \/ Child
    \/ \E origin \in announced, written \in BOOLEAN : LocalPaste(origin, written)
    \/ CallFails
    \/ \E reply \in Replies : CallReturns(reply)

Spec == Init /\ [][Next]_vars

-----------------------------------------------------------------------------
(* The protocol that this loop implements.                                 *)

View(x) ==
    [alive |-> x.alive, attempt |-> x.attempt, grant |-> x.grant,
     child |-> x.child # None, gate |-> x.gate # 0,
     opened |-> \E o \in announced : o.attempt = x.attempt,
     reports |-> x.reports, call |-> x.call]

Protocol == INSTANCE ProjectionHelper WITH helper <- View(h)

-----------------------------------------------------------------------------
(* Properties.                                                             *)

\* Terminal input goes to a child only after that very child, still wanted,
\* proved its attachment: the gate is never open towards a child that is
\* being stopped, was lost, or replaced one that had been proved.
InputOnlyToProved ==
    h.gate # 0 => /\ h.child # None /\ h.proved /\ ~h.stopping
                  /\ h.child.ready /\ h.child.attempt = h.grant
                  /\ Origin(h) \in announced

\* Until it is announced ready, a running child holds its kernel slot: the
\* slot is returned by readiness or by the reap, never by a lost control
\* connection or a revocation (session_admission.go, lines 11-13).
SlotCoversChild ==
    h.child # None /\ (\A o \in announced : o.attempt # h.child.attempt) => h.slot

\* A paste reaches only the attachment it was captured for: a generation is
\* never used again for a later child (lines 309-324).
PasteReachesOrigin ==
    pasted # None => pasted.attempt = pasted.origin.attempt

\* The loop implements the protocol the other processes rely on, whatever
\* its child, its terminal and the clock do in between.
ImplementsProtocol == Protocol!Spec

=============================================================================
