---------------------------- MODULE ManualControl ----------------------------
(***************************************************************************)
(* A mirrored terminal without a coordinator: on macOS the helper is       *)
(* driven by internal/mirror/session_manual.go, which lives in its own     *)
(* process, probes nothing and never ends a session.  The first attachment *)
(* begins by itself, every later one when the user presses Enter.          *)
(*                                                                         *)
(* The loop is that of SessionSupervisor, without the brokered pastes      *)
(* (cfg.Local = nil).  A control call runs beside the loop: Exchange under *)
(* the control's mutex, then the reply.  It has one second by the wall     *)
(* clock (session_time.go), which a suspended machine uses up at any point *)
(* of it, so that a call may fail before or after it took effect.          *)
(***************************************************************************)
EXTENDS SessionSupervisor

ASSUME ManualConstants == None \notin {"ready", "lost"} \cup Replies

VARIABLES
    control,   \* the fields of manualSessionControl; the deadline is in Begin
    answer,    \* the reply of the call under way once it took effect, or None
    asked,     \* history: Enter was pressed, and nothing came of it so far
    requests   \* history: how often it was pressed, or a request that took
               \* effect was sent again, up to what MaxAttempts allows

manualVars == <<vars, control, answer, asked, requests>>

-----------------------------------------------------------------------------
(* manualSessionControl.Exchange.                                          *)

NewControl == [attempt |-> None, started |-> FALSE, retryPending |-> FALSE]

ReportedAny(c, request) ==
    IF request.event # None /\ request.attempt = c.attempt
    THEN [c EXCEPT !.attempt = None, !.retryPending = FALSE] ELSE c

\* A report speaks of the present attempt or of none.
Reported(c, request) ==
    CASE request.event = "lost" /\ request.attempt = c.attempt ->
           [c EXCEPT !.attempt = None]
      [] request.event = "ready" /\ request.attempt = c.attempt ->
           [c EXCEPT !.retryPending = FALSE]
      [] OTHER -> c

Asking(c, request) ==
    [c EXCEPT !.retryPending = @ \/ (request.retry /\ request.state # "ready")]

GrantingAgain(c, request) ==
    IF request.event = None /\ c.attempt = None /\ (~c.started \/ c.retryPending)
    THEN [c EXCEPT !.attempt = request.attempt, !.started = TRUE]
    ELSE c

Granting(c, request) ==
    IF request.event = None /\ c.attempt = None /\ (~c.started \/ c.retryPending)
    THEN [attempt |-> request.attempt, started |-> TRUE, retryPending |-> FALSE]
    ELSE c

ExchangeAskingFirst(c, request) ==
    Granting(Reported(Asking(c, request), request), request)

Exchange(c, request) == Granting(Asking(Reported(c, request), request), request)

\* A grant is repeated for as long as it stands.
Answer(c, request) ==
    [checking |-> FALSE, ended |-> FALSE, reset |-> FALSE, cancel |-> None,
     grant |-> IF request.event = None /\ request.attempt = c.attempt THEN c.attempt ELSE None]

-----------------------------------------------------------------------------
(* The loop and its calls.                                                 *)

ManualInit ==
    /\ Init
    /\ control = NewControl /\ answer = None
    /\ asked = FALSE /\ requests = 0

\* Counted as far as it matters to MaxAttempts attempts.
More(n) == IF n + 1 < MaxAttempts THEN n + 1 ELSE n

\* The loop moves to x; an attempt answers an Enter.
Goes(x) ==
    /\ Becomes(x)
    /\ asked' = (asked /\ x.alive /\ x.child = None)
    /\ UNCHANGED <<pasted, control, requests>>

\* The call goes on beside the loop, and is dropped with it.
CallGoesOn == answer' = IF h'.alive THEN answer ELSE None

Runs ==
    /\ \E x \in OutputSteps(h) \cup DoneSteps(h) \cup ChildSteps(h) \cup {Return(h)}
              \cup Settled({Typed(h, written) : written \in BOOLEAN}, h) : Goes(x)
    /\ CallGoesOn

Ticks == (\E x \in TickerSteps(h) : Goes(x)) /\ CallGoesOn

\* Enter on the status screen.
Presses ==
    /\ h.gate = 0
    /\ \E x \in Settled({Enter(h)}, h) : Becomes(x) /\ asked' = (x.child = None)
    /\ requests' = More(requests)
    /\ CallGoesOn
    /\ UNCHANGED <<pasted, control>>

\* The call takes effect.
Consults ==
    /\ h.alive /\ h.call # None /\ answer = None
    /\ control' = Exchange(control, h.call)
    /\ answer' = Answer(control', h.call)
    /\ asked' = (asked /\ answer'.grant = None)
    /\ UNCHANGED <<vars, requests>>

\* The reply; MaxAttempts bounds the nonces an acknowledged loss draws.
Replied ==
    /\ answer # None
    /\ h.call.event = "lost" => h.attempt < MaxAttempts
    /\ \E begun \in Outcomes : Goes(OnReply(h, answer, begun, FALSE))
    /\ answer' = None

\* The second is over, whether the call took effect or not.
TimesOut ==
    /\ h.call # None
    /\ Becomes(OnCallError(h))
    /\ answer' = None
    /\ requests' = IF answer # None /\ h.call.retry THEN More(requests) ELSE requests
    /\ UNCHANGED <<pasted, control, asked>>

ManualNext == Runs \/ Ticks \/ Presses \/ Consults \/ Replied \/ TimesOut

\* The ticker fires; calls do not time out for ever.
ManualSpec ==
    /\ ManualInit /\ [][ManualNext]_manualVars
    /\ WF_manualVars(Ticks) /\ SF_manualVars(Consults) /\ SF_manualVars(Replied)

-----------------------------------------------------------------------------
(* Properties.                                                             *)

\* A child is the one attachment that the control has granted, until its
\* reported loss takes effect: no late, repeated or reordered report, and no
\* request, makes the control forget it or grant another beside it.
ChildIsGranted == h.child # None => control.attempt = h.child.attempt

\* Every attempt after the first is due to an Enter of its own, or to a
\* request that was repeated because its reply came too late.
AttemptsAsked == control.attempt # None => control.attempt <= 1 + requests

\* Enter on the status screen of a terminal without a child brings another
\* attempt about, whatever reports are still under way, queued behind one
\* another, or lost with their calls.
EnterReconnects == asked ~> (~asked \/ h.attempt = MaxAttempts)

=============================================================================
