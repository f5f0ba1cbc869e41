--------------------------- MODULE ProjectionHelper ---------------------------
(***************************************************************************)
(* What a projection helper promises to the rest of the system, whatever   *)
(* its terminal, its SSH child and the clock do: the protocol of           *)
(* internal/mirror/session_supervisor.go without the loop that runs it.    *)
(* SessionSupervisor implements it; MirrorRecovery composes it with the    *)
(* coordinator and the connections between them.                           *)
(***************************************************************************)
EXTENDS Integers, Sequences

CONSTANTS
    None,         \* no attempt, no event, no call
    MaxAttempts   \* bound on the attempt nonces drawn

VARIABLE helper

Attempts == 1..MaxAttempts

\* child: an unreaped child exists; gate: terminal input goes to it;
\* opened: that gate was opened for the present attempt.
NewHelper ==
    [alive |-> TRUE, attempt |-> 1, grant |-> None,
     child |-> FALSE, gate |-> FALSE, opened |-> FALSE,
     reports |-> <<>>, call |-> None]

Phase(x) == IF x.gate THEN "ready" ELSE IF x.child THEN "connecting" ELSE "offline"

Report(x, attempt, event) ==
    [x EXCEPT !.reports = Append(@, [attempt |-> attempt, event |-> event])]

Send(x, retry) ==
    LET report == IF x.reports = <<>> THEN [attempt |-> x.attempt, event |-> None]
                  ELSE Head(x.reports)
    IN IF x.call # None THEN x
       ELSE [x EXCEPT !.call = [attempt |-> report.attempt, event |-> report.event,
                                state |-> Phase(x), retry |-> retry]]

\* x, and x with the next control call under way.
Sends(x) == {x} \cup {Send(x, retry) : retry \in BOOLEAN}

-----------------------------------------------------------------------------
(* What may happen to a helper.                                            *)

\* The attachment is lost, or given up: its input stops at once.
Closed(x) == [x EXCEPT !.gate = FALSE]

\* A child proves its attachment, once.
Opened(x) == Report([x EXCEPT !.gate = TRUE, !.opened = TRUE], x.attempt, "ready")

\* A child is gone for good.
Reaped(x) == Report([x EXCEPT !.gate = FALSE, !.child = FALSE], x.grant, "lost")

Returned(x) == [x EXCEPT !.alive = FALSE, !.gate = FALSE, !.child = FALSE, !.call = None]

\* Losing, opening and reaping, with a call before or after.
Changes(x) ==
    Sends(x) \cup {Closed(x), Returned(x)}
    \cup (IF x.child /\ ~x.gate /\ ~x.opened THEN UNION {Sends(Opened(y)) : y \in Sends(x)} ELSE {})
    \cup (IF x.child THEN Sends(Reaped(x)) ELSE {})

Acknowledge(x) ==
    IF x.call.event # None /\ x.reports # <<>>
          /\ Head(x.reports) = [attempt |-> x.call.attempt, event |-> x.call.event]
    THEN IF x.call.event = "lost"
         THEN [x EXCEPT !.reports = Tail(@), !.grant = None, !.attempt = @ + 1, !.opened = FALSE]
         ELSE [x EXCEPT !.reports = Tail(@)]
    ELSE x

RevokeSilently(x, reply) ==
    IF x.child THEN IF reply.cancel = x.grant THEN Closed(x) ELSE x
    ELSE IF ~reply.reset \/ x.reports # <<>> THEN x
    ELSE [x EXCEPT !.grant = None]

Revoke(x, reply) ==
    IF x.child THEN IF reply.cancel = x.grant THEN Closed(x) ELSE x
    ELSE IF ~reply.reset \/ x.reports # <<>> THEN x
    ELSE LET y == [x EXCEPT !.grant = None]
         IN IF reply.cancel = x.attempt THEN Report(y, x.attempt, "lost") ELSE y

Accepts(x, call, reply) ==
    /\ reply.grant # None /\ ~reply.reset
    /\ call.event = None /\ ~x.child /\ x.reports = <<>>
    /\ x.grant = None /\ reply.grant = x.attempt

Begin(x, begun) ==
    CASE begun = "late"    -> Report(x, x.attempt, "lost")
      [] begun = "failed"  -> Report([x EXCEPT !.grant = x.attempt], x.attempt, "lost")
      [] begun = "started" -> [x EXCEPT !.grant = x.attempt, !.child = TRUE]

\* A reply to the call under way; begun is what became of a grant.
Answered(x, reply, begun) ==
    LET y == [Acknowledge(x) EXCEPT !.call = None]
        z == Revoke(y, reply)
    IN IF reply.ended THEN {Returned(y)}
       ELSE Sends(IF Accepts(z, x.call, reply) THEN Begin(z, begun) ELSE z)

CallDropped(x) == [x EXCEPT !.call = None]

-----------------------------------------------------------------------------
(* The specification: a helper among arbitrary peers.                      *)

Replies ==
    [checking : BOOLEAN, ended : BOOLEAN, reset : BOOLEAN,
     cancel : Attempts \cup {None}, grant : Attempts \cup {None}]

Outcomes == {"late", "failed", "started"}

Init == helper \in Sends(NewHelper)

Step ==
    /\ helper.alive
    /\ \/ helper' \in Changes(helper)
       \/ helper.call # None /\ helper' = CallDropped(helper)
       \/ /\ helper.call # None
          /\ \E reply \in Replies, begun \in Outcomes : helper' \in Answered(helper, reply, begun)

Spec == Init /\ [][Step]_helper

=============================================================================
