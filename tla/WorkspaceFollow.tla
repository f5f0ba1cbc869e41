--------------------------- MODULE WorkspaceFollow ---------------------------
(***************************************************************************)
(* redeem mirror follow: the worker that polls one source workspace and    *)
(* opens a local window for each eligible session that has none, in a      *)
(* local workspace frozen by its runtime ID, and the status screen.        *)
(***************************************************************************)
EXTENDS PinStore

CONSTANTS
    Snapshots,      \* snapshots the source may answer with
    Profile,        \* the source profile the command was started for
    MaxPerPoll, MaxTotal

ASSUME FollowAssumption ==
    /\ MaxPerPoll \in Nat \ {0} /\ MaxTotal \in Nat \ {0}
    /\ \A s \in Snapshots : Len(s.windows) \in Nat /\ DOMAIN s.windows = 1..Len(s.windows)

VARIABLES
    fpc,        \* where the command is
    follow,     \* the worker's state
    feed,       \* poll results on their way to the screen
    quit        \* the run's context is cancelled

following == <<fpc, follow, feed, quit>>

NoFollow == [run |-> None, sel |-> None, dest |-> None, elig |-> {}, known |-> {}, before |-> {},
             plans |-> {}, item |-> None, token |-> None, match |-> None, target |-> None, seen |-> <<>>,
             attempts |-> 0, batch |-> 0]

FollowPlaces == {"off", "lock", "poll", "observe", "gate", "launch", "wait", "aim", "move",
                 "report", "sleep", "join"}

Holding == FollowPlaces \ {"off", "lock"}

InitFollow == fpc = "off" /\ follow = NoFollow /\ feed = <<>> /\ quit = FALSE

\* A fresh snapshot over SSH: any that decodes.
AcquireRemote == {s \in Snapshots : DecodeSnapshot(s)}

-----------------------------------------------------------------------------
(* The frozen destination.                                                 *)

ResolveFollowDestination(space) ==
    LET match == Only(shape, IF space.name # None THEN Matching(shape, "name", space.name)
                                                  ELSE Matching(shape, "index", space.index))
    IN IF match = None THEN None ELSE match.id

CurrentTarget(rows, dest) ==
    LET current == Only(rows, Matching(rows, "id", dest))
    IN IF current = None THEN None
       ELSE IF current.name # None
       THEN IF Only(rows, Matching(rows, "name", current.name)) = current
            THEN Target(dest, current.name, current.index) ELSE None
       ELSE IF Only(rows, Matching(rows, "index", current.index)) = current
            THEN Target(dest, None, current.index) ELSE None

-----------------------------------------------------------------------------
(* The command before its first poll.                                      *)

FollowStart ==
    /\ fpc = "off" /\ MayRun("follow")
    /\ \E s \in {x \in AcquireRemote : ValidFollowSnapshot(x)} :
          \E choice \in FollowWorkspaceChoices(s) :
             LET space == choice.space
                 dest == ResolveFollowDestination(space)
             IN /\ s.profile = Profile
                /\ dest # None
                /\ follow' = [NoFollow EXCEPT !.run = runs["follow"], !.sel = space.id, !.dest = dest]
    /\ fpc' = "lock" /\ Run("follow")
    /\ feed' = <<>> /\ quit' = FALSE
    /\ UNCHANGED <<desktop, store>>

FollowLocks ==
    /\ fpc = "lock"
    /\ IF Locked THEN fpc' = "off" /\ UNCHANGED store ELSE fpc' = "poll" /\ Acquire("follow")
    /\ UNCHANGED <<desktop, follow, feed, quit, runs>>

-----------------------------------------------------------------------------
(* One poll.  It stops at the first thing it is not certain of.            *)

Quiet == UNCHANGED <<desktop, store, feed, quit, runs>>

\* What a run keeps from one poll to the next.
BetweenPolls == [NoFollow EXCEPT !.run = follow.run, !.sel = follow.sel, !.dest = follow.dest,
                                 !.attempts = follow.attempts]

EndPoll == fpc' = "report" /\ follow' = BetweenPolls

PollFails == fpc \in {"poll", "observe", "gate"} /\ EndPoll /\ Quiet

FollowPolls ==
    /\ fpc = "poll" /\ ~quit
    /\ \E s \in AcquireRemote :
          /\ s.profile = Profile /\ ValidFollowSnapshot(s)
          /\ \E i \in DOMAIN s.spaces : s.spaces[i].id = follow.sel
          /\ follow' = [follow EXCEPT !.elig = Eligible(s, follow.sel), !.batch = 0,
                                      !.known = {x \in ToSet(s.active) : ExactSessionID(s, x) # None}]
    /\ fpc' = "observe"
    /\ Quiet

\* Only when every owned window is an exact projection does the poll go on.
Certain(inventory) == inventory.untracked = {} /\ inventory.ambiguous = {}

FollowObserves ==
    /\ fpc = "observe" /\ ~quit
    /\ \E inventory \in InspectProjections :
          /\ Certain(inventory)
          /\ \A x \in Sessions : Cardinality(ExactProjections(inventory, x)) <= 1
          /\ follow' = [follow EXCEPT !.before = WindowIDs(windows),
                                      !.elig = {p \in @ : ExactProjections(inventory, p.session) = {}}]
    /\ fpc' = "gate"
    /\ Quiet

Limit == LET remaining == MaxTotal - follow.attempts
         IN IF remaining < MaxPerPoll THEN remaining ELSE MaxPerPoll

\* The destination must have a selector and every launch a plan.
FollowPlans ==
    /\ fpc = "gate" /\ ~quit
    /\ CurrentTarget(shape, follow.dest) # None
    /\ LET missing == FirstOf(follow.elig, Limit)
       IN /\ \A p \in missing : p.session \in follow.known
          /\ IF missing = {} THEN EndPoll
             ELSE /\ follow' = [follow EXCEPT !.plans = missing, !.elig = {}, !.known = {}]
                  /\ fpc' = "launch"
    /\ Quiet

ChargeBatchOnly == [follow EXCEPT !.batch = @ + 1]

Charge == [follow EXCEPT !.attempts = @ + 1, !.batch = @ + 1]

\* The attempt is charged before the launcher runs.
FollowLaunches ==
    /\ fpc = "launch" /\ ~quit
    /\ \E p \in follow.plans :
          /\ Leads(p, follow.plans)
          /\ Launch("follow", follow.run, p.session)
          /\ follow' = [Charge EXCEPT !.plans = @ \ {p}, !.item = p.session, !.token = Len(log) + 1]
    /\ fpc' = "wait"
    /\ UNCHANGED <<store, feed, quit, runs>>

FollowLaunchFails ==
    /\ fpc = "launch"
    /\ \E p \in follow.plans :
          Leads(p, follow.plans) /\ LaunchFails("follow", follow.run, p.session)
    /\ follow' = [BetweenPolls EXCEPT !.attempts = @ + 1]
    /\ fpc' = "report"
    /\ UNCHANGED <<store, feed, quit, runs>>

\* Cancelled before the next launch: nothing is charged.
FollowStopsBatch == fpc = "launch" /\ quit /\ EndPoll /\ Quiet

FollowConfirms ==
    /\ fpc = "wait" /\ ~quit
    /\ \E inventory \in InspectProjections :
          LET matches == NewMatches(inventory, follow.item, follow.token, follow.before)
          IN /\ Certain(inventory)
             /\ Cardinality(matches) = 1
             /\ follow' = [follow EXCEPT !.match = CHOOSE id \in WindowIDs(matches) : TRUE]
    /\ Resolve(follow.token, "confirmed")
    /\ fpc' = "aim"
    /\ UNCHANGED <<windows, launches, shape, left, store, feed, quit, runs>>

\* Timeout, cancellation, degraded or contradictory evidence.
FollowAbandons ==
    /\ fpc = "wait"
    /\ Resolve(follow.token, "abandoned")
    /\ EndPoll
    /\ UNCHANGED <<windows, launches, shape, left, store, feed, quit, runs>>

FollowAims ==
    /\ fpc = "aim"
    /\ IF ~quit /\ CurrentTarget(shape, follow.dest) # None
       THEN /\ follow' = [follow EXCEPT !.target = CurrentTarget(shape, follow.dest), !.seen = shape]
            /\ fpc' = "move"
       ELSE EndPoll
    /\ Quiet

FollowMoveFails == fpc \in {"aim", "move"} /\ EndPoll /\ Quiet

FollowMoves ==
    /\ fpc = "move" /\ ~quit
    /\ Landing(shape, follow.target) # None
    /\ MoveToWorkspace(follow.match, follow.target)
    /\ IF follow.plans = {} THEN EndPoll
       ELSE /\ follow' = [follow EXCEPT !.item = None, !.token = None, !.match = None,
                                        !.target = None, !.seen = <<>>]
            /\ fpc' = "launch"
    /\ UNCHANGED <<launches, shape, log, left, store, feed, quit, runs>>

-----------------------------------------------------------------------------
(* The worker and the status screen.                                       *)

FollowReportsAnyway ==
    /\ fpc = "report" /\ Len(feed) < 1
    /\ feed' = Append(feed, "result") /\ fpc' = "sleep"
    /\ UNCHANGED <<desktop, store, follow, quit, runs>>

FollowReports ==
    /\ fpc = "report"
    /\ \/ Len(feed) < 1 /\ feed' = Append(feed, "result") /\ fpc' = "sleep"
       \/ quit /\ fpc' = "join" /\ UNCHANGED feed
    /\ UNCHANGED <<desktop, store, follow, quit, runs>>

\* When the timer and the cancellation are both there, select takes either.
FollowSleeps ==
    /\ fpc = "sleep"
    /\ fpc' \in {"poll"} \cup (IF quit THEN {"join"} ELSE {})
    /\ UNCHANGED <<desktop, store, follow, feed, quit, runs>>

\* The worker has ended: only now is the lock released.
FollowUnlocks ==
    /\ fpc = "join"
    /\ Release("follow")
    /\ fpc' = "off" /\ follow' = NoFollow /\ feed' = <<>> /\ quit' = FALSE
    /\ UNCHANGED <<desktop, runs>>

ScreenReads ==
    /\ feed # <<>> /\ ~quit
    /\ feed' = <<>>
    /\ UNCHANGED <<desktop, store, fpc, follow, quit, runs>>

QuitsUnlocking ==
    /\ fpc \in Holding /\ ~quit
    /\ quit' = TRUE /\ Release("follow")
    /\ UNCHANGED <<desktop, fpc, follow, feed, runs>>

\* q, Ctrl+C, a signal or a screen that failed: the run is cancelled, and
\* nobody reads the results any more.
Quits ==
    /\ fpc \in Holding /\ ~quit
    /\ quit' = TRUE
    /\ UNCHANGED <<desktop, store, fpc, follow, feed, runs>>

\* The process is killed.
FollowDies ==
    /\ fpc \in Holding
    /\ Release("follow")
    /\ IF fpc = "wait" THEN Resolve(follow.token, "abandoned") ELSE UNCHANGED log
    /\ fpc' = "off" /\ follow' = NoFollow /\ feed' = <<>> /\ quit' = FALSE
    /\ UNCHANGED <<windows, launches, shape, left, runs>>

FollowWork ==
    \/ FollowLocks \/ PollFails \/ FollowPolls \/ FollowObserves \/ FollowPlans
    \/ FollowLaunches \/ FollowLaunchFails \/ FollowStopsBatch
    \/ FollowConfirms \/ FollowAbandons \/ FollowAims \/ FollowMoveFails \/ FollowMoves
    \/ FollowReports \/ FollowSleeps \/ FollowUnlocks

FollowStep == FollowStart \/ FollowWork \/ ScreenReads \/ Quits \/ FollowDies

=============================================================================
