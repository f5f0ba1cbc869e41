---------------------------- MODULE SharedDesktop ----------------------------
(***************************************************************************)
(* The mirror commands that open windows by themselves, on one desktop:    *)
(* follow, apply and save, beside a user who does as he pleases.           *)
(***************************************************************************)
EXTENDS PinWorkflow

CONSTANT Pins      \* what the pin file may hold at first

vars == <<desktop, runs, store, following, pinning>>

Init == InitDesktop /\ InitStore(Pins) /\ InitFollow /\ InitPinning

Next ==
    \/ DesktopStep /\ UNCHANGED <<runs, store, following, pinning>>
    \/ FollowStep /\ UNCHANGED pinning
    \/ ApplyStep
    \/ SaveStep

Spec == Init /\ [][Next]_vars

\* The worker's steps are scheduled: once the run is cancelled, each of them
\* is over in bounded time.
FairSpec == Spec /\ WF_vars(quit /\ FollowWork /\ UNCHANGED pinning)

-----------------------------------------------------------------------------
(* Properties.                                                             *)

\* A launch that still may have, or has, a window.
Lives(t) == t \in launches \/ \E w \in windows : w.token = t

\* follow and apply never have two launches of one session alive unless one of
\* the session's launches ended in uncertainty, or its window was copied by the
\* user: neither looks only at what it opened itself, and both hold the
\* pin's lock from their look at the desktop to their last effect.
OneProjectionEach ==
    \A t, u \in DOMAIN log :
       t # u /\ log[t].session = log[u].session /\ Lives(t) /\ Lives(u) =>
          \E a \in DOMAIN log : /\ log[a].session = log[t].session
                                /\ log[a].fate = "abandoned" \/ log[a].copied

\* A process launches and moves windows only while it holds the lock: the
\* follow command joins its worker before it unlocks.
EffectsUnderLock ==
    [][/\ Len(log') > Len(log) => lock = log'[Len(log')].by
       /\ (\E w \in windows, x \in windows' : w.id = x.id /\ w.place # x.place) => lock \in Owners]_vars

\* Only the window of the process's own confirmed launch is ever moved; the
\* user's windows, those of other launches and those that were there before
\* are left where they are.  What follow moves lands in the destination that
\* was frozen at its start, unless the user rearranged the workspaces after
\* the selector was resolved.
OnlyOwnWindowsMoved ==
    [][\A w \in windows, x \in windows' : w.id = x.id /\ w.place # x.place =>
          /\ w.token # None
          /\ log[w.token].by = lock /\ log[w.token].fate = "confirmed"
          /\ lock = "follow" => x.place = follow.dest \/ shape # follow.seen]_vars

\* One run of follow never starts more launches than --max-total, one poll
\* never more than --max-per-poll, whatever becomes of them.
LaunchesBounded ==
    /\ \A t \in DOMAIN log : log[t].by = "follow" =>
          Cardinality({u \in DOMAIN log : log[u].by = "follow" /\ log[u].run = log[t].run}) <= MaxTotal
    /\ follow.batch <= MaxPerPoll

\* The pin that apply works from is the pin in the file until it is done, and
\* no reader can ever find a half-written one.
PinWholeAndHeld ==
    /\ pin # Torn
    /\ apc \in ApplyHolding /\ apply.pin # None => apply.pin = ReadPin

\* A cancelled follow ends and releases the lock, though nobody reads the
\* results of its polls any more.
QuitEnds == quit ~> lock # "follow"

=============================================================================
