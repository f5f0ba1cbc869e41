---------------------------- MODULE ResumeExecutor ----------------------------
(***************************************************************************)
(* redeem resume (cmd/redeem/main.go runResume), up to the point where     *)
(* columns are ordered: the plan is made from one observation of the       *)
(* desktop and of zellij, and then, one item after the other, a Kitty that *)
(* attaches to the session is launched, recognised by its PID, accepted    *)
(* when it is the only window attached to the session, and moved           *)
(* (internal/resume/executor.go).  Kitty, zellij and the user of the       *)
(* desktop act between any two of these steps, and the command may be run  *)
(* again.                                                                  *)
(*                                                                         *)
(* A window is attached to a session if a process below its own runs       *)
(* exactly "zellij attach -- <session>"; a window of a session attached in *)
(* another way only shows it in its title.  The window ID <<p, k>> is the  *)
(* k-th window of process p.  The processes that resume launches are       *)
(* numbered from 1, all others from 0 downwards.                           *)
(***************************************************************************)
EXTENDS ResumePlanner, FiniteSets

CONSTANTS
    Spaces,       \* the workspaces
    Boot,         \* the present boot
    Histories,    \* the checkpoints a resume may find, in listing order
    Desktops,     \* the windows and sessions it may start with
    Policies,     \* --unresolved-workspace
    MaxRuns,      \* bound on the resumes
    LastTime,     \* bound on the clock
    MaxMishaps    \* bound on failures and acts of the user, counted together; with
                  \* 0 a resume that was disturbed could not be told from others

\* What resume launches has no number of a process that was there before.
ASSUME ProcessNumbers ==
    /\ None \notin Nat /\ MaxMishaps \in Nat \ {0}
    /\ \A d \in Desktops :
          /\ \A w \in DOMAIN d.windows :
                /\ d.windows[w] \in [pid : Int, terminal : BOOLEAN, space : {v.id : v \in Spaces}]
                /\ d.windows[w].pid <= 0 /\ \E k \in {1, 2} : w = <<d.windows[w].pid, k>>
          /\ \A p \in DOMAIN d.kitty :
                d.kitty[p] \in [runs : Sessions \cup {None}, shows : Sessions \cup {None}, starts : {None}]

\* A resume finds finitely many checkpoints, each with its time.
ASSUME CheckpointsListed ==
    /\ MaxAge \in Nat /\ Names \in Seq(Sessions)
    /\ \A h \in Histories :
          /\ h \in Seq({h[i] : i \in DOMAIN h})
          /\ \A i \in DOMAIN h : h[i].at \in Int /\ h[i] # None

VARIABLES
    history,   \* the checkpoints
    now,       \* the clock
    zellij,    \* each session: "running", "exited", "deleted" or "foreign"
    kitty,     \* the terminal processes: what each runs, shows or will run
    windows,   \* the windows: process, whether a terminal, workspace
    launched,  \* history: the processes resume started, and for which session
    lively,    \* history: sessions seen running since the present item began
    mishaps,   \* history: failures and acts of the user, counted to the bound
    resume     \* the command

vars == <<history, now, zellij, kitty, windows, launched, lively, mishaps, resume>>

world == <<history, now, zellij, kitty, windows, launched>>

Running == {x \in Sessions : zellij[x] = "running"}

Empty == [x \in {} |-> None]

Without(f, S) == [x \in DOMAIN f \ S |-> f[x]]

With(f, x, y) == [z \in DOMAIN f \cup {x} |-> IF z = x THEN y ELSE f[z]]

-----------------------------------------------------------------------------
(* Evidence.                                                               *)

Attached(p, x) == p \in DOMAIN kitty /\ kitty[p].runs = x

AllAttachedSessionWindows(x) == {w \in DOMAIN windows : Attached(windows[w].pid, x)}

SessionWindows(x) == {w \in AllAttachedSessionWindows(x) : windows[w].terminal}

WindowsOf(p) == {w \in DOMAIN windows : windows[w].pid = p}

\* The enricher tags the window of a live process with what is attached
\* below it, else with what its title says, if zellij knows that name.
SessionTag(p) ==
    CASE p \notin DOMAIN kitty -> None
      [] kitty[p].runs # None -> kitty[p].runs
      [] kitty[p].shows \in Available(zellij) -> kitty[p].shows
      [] OTHER -> None

Exact(p) == p \in DOMAIN kitty /\ kitty[p].runs # None

\* The sessions that are open in the windows seen, as the plan takes it.
Open(seen, all) ==
    {SessionTag(seen[w].pid) : w \in {v \in DOMAIN seen :
        seen[v].terminal /\ (all => Exact(seen[v].pid))}} \ {None}

-----------------------------------------------------------------------------
(* The command.                                                            *)

At(pc) == resume.pc = pc

Goes(pc) == resume' = [resume EXCEPT !.pc = pc]

NotRunning ==
    [pc |-> "idle", runs |-> 0, all |-> FALSE, policy |-> "current", seen |-> Empty,
     open |-> {}, listed |-> {}, selection |-> None, plan |-> <<>>, mapped |-> <<>>,
     i |-> 0, pid |-> None, window |-> None, sure |-> 0]

Finish == resume' = [NotRunning EXCEPT !.runs = resume.runs]

Calm == mishaps' = mishaps

\* Something goes wrong that need not.
Fault == mishaps < MaxMishaps /\ mishaps' = mishaps + 1

\* A wait ends without what it is for, which says that something was slow.
Slow == mishaps' = IF mishaps < MaxMishaps THEN mishaps + 1 ELSE mishaps

Start ==
    /\ At("idle") /\ resume.runs < MaxRuns
    /\ \E all \in BOOLEAN, policy \in Policies :
         resume' = [resume EXCEPT !.pc = "ready", !.runs = @ + 1, !.all = all,
                                  !.policy = policy]
    /\ Calm /\ UNCHANGED world

\* WaitForNiri returns the first snapshot that can be read; the checkpoints
\* are listed, and one is selected.
WaitForNiri ==
    /\ At("ready")
    /\ \/ LET selection == IF resume.all THEN SelectAll(history, Boot, now)
                           ELSE Select(history, Boot, now)
              live == selection.status = "ready" \/ (resume.all /\ selection.status = "stale")
          IN /\ resume' = [resume EXCEPT !.seen = windows, !.selection = selection,
                                         !.pc = IF live THEN "collect" ELSE "idle"]
             /\ Calm
       \/ Finish /\ Fault
    /\ UNCHANGED world

\* The snapshot is enriched and zellij's list is read.
Collect ==
    /\ At("collect")
    /\ \/ /\ resume' = [resume EXCEPT !.pc = "plan", !.open = Open(resume.seen, resume.all),
                                      !.seen = Empty, !.listed = Running]
          /\ Calm
       \/ Finish /\ Fault
    /\ UNCHANGED world

CatalogNow == [x \in Sessions |-> CatalogStatus(x \in resume.listed, zellij[x])]

MakePlan ==
    LET r == resume IN
    /\ At("plan")
    /\ resume' = [r EXCEPT
         !.pc = "map", !.open = {}, !.listed = {},
         !.plan = IF r.all THEN BuildAll(r.selection, r.policy, r.open, CatalogNow, Spaces)
                  ELSE Build(r.selection, r.policy, r.open, Available(zellij), Spaces)]
    /\ Calm /\ UNCHANGED world

-----------------------------------------------------------------------------
(* Applying the plan.                                                      *)

Actionable(item) == item.status \in {"ready", "degraded", "already_open"}

TheItem == resume.plan[resume.i]

TheOnly(S) == CHOOSE w \in S : S = {w}

\* The item gets its result, and the next one is looked at.
Conclude(status) ==
    resume' = [resume EXCEPT !.pc = "item", !.i = @ + 1, !.plan[resume.i].status = status,
                             !.pid = None, !.window = None, !.sure = 0]

\* The preflight: which window is attached to which item's session.
MapExisting ==
    LET doomed == {i \in DOMAIN resume.plan :
                     Cardinality(SessionWindows(resume.plan[i].session)) > 1}
        Fail(S) == [i \in DOMAIN resume.plan |->
                      IF i \in S /\ Actionable(resume.plan[i])
                      THEN [resume.plan[i] EXCEPT !.status = "failed"] ELSE resume.plan[i]]
    IN
    /\ At("map")
    /\ \/ /\ resume' = [resume EXCEPT !.pc = "item", !.i = 1, !.plan = Fail(doomed),
                          !.mapped = [i \in DOMAIN resume.plan |->
                            LET found == SessionWindows(resume.plan[i].session) IN
                            IF Cardinality(found) = 1 THEN TheOnly(found) ELSE None]]
          /\ Calm
       \/ /\ resume' = [resume EXCEPT !.pc = "item", !.i = 1, !.plan = Fail(DOMAIN @),
                          !.mapped = [i \in DOMAIN resume.plan |-> None]]
          /\ Fault
    /\ UNCHANGED world

Claimed(x) == {resume.mapped[j] : j \in {k \in 1..(resume.i - 1) :
                  resume.plan[k].session = x}} \ {None}

\* A window known for the item: from the preflight, or that of an earlier
\* item of the same session.
Known == IF resume.mapped[resume.i] # None THEN {resume.mapped[resume.i]}
         ELSE Claimed(TheItem.session)

\* An attached window that was there already is placed like a new one.
Adopt(w) ==
    resume' = [resume EXCEPT !.pc = "place", !.window = w, !.mapped[resume.i] = w,
                             !.plan[resume.i].status = "already_open"]

NextItem ==
    /\ At("item") /\ resume.i <= Len(resume.plan)
    /\ \/ ~Actionable(TheItem) /\ Conclude(TheItem.status) /\ Calm
       \/ /\ Actionable(TheItem) /\ Known # {}
          /\ Adopt(CHOOSE w \in Known : TRUE) /\ Calm
       \/ /\ Actionable(TheItem) /\ Known = {}
          /\ \/ LET found == SessionWindows(TheItem.session) IN
                /\ CASE found = {} -> Goes(IF resume.all THEN "list" ELSE "start")
                     [] Cardinality(found) = 1 -> Adopt(TheOnly(found))
                     [] OTHER -> Conclude("failed")
                /\ Calm
             \/ Conclude("failed") /\ Fault
    /\ UNCHANGED world

\* With --all the catalog is read again before a launch, and has to agree
\* with the plan.
ListAgain ==
    /\ At("list")
    /\ \/ resume' = [resume EXCEPT !.pc = "revalidate", !.listed = Running] /\ Calm
       \/ Conclude("failed") /\ Fault
    /\ UNCHANGED world

RevalidateUnlessForeign ==
    /\ At("revalidate")
    /\ IF CatalogNow[TheItem.session] \in {"active", "dead_resurrectable"}
       THEN resume' = [resume EXCEPT !.pc = "start", !.listed = {}] ELSE Conclude("unavailable")
    /\ Calm /\ UNCHANGED world

RevalidateAllCandidate ==
    LET live == CatalogNow[TheItem.session]
        dead == live = "dead_resurrectable" IN
    /\ At("revalidate")
    /\ CASE live = "active"
              -> resume' = [resume EXCEPT !.pc = "start", !.listed = {}]
         [] dead /\ TheItem.zellij = "dead_resurrectable" /\ TheItem.source = "prior"
              -> IF Aged(resume.selection.checkpoint, now)
                 THEN Conclude("stale")
                 ELSE resume' = [resume EXCEPT !.pc = "start", !.listed = {}]
         [] OTHER -> Conclude("unavailable")
    /\ Calm /\ UNCHANGED world

StartKitty ==
    LET p == 1 + Cardinality(DOMAIN launched) IN
    /\ At("start")
    /\ \/ /\ resume' = [resume EXCEPT !.pc = "window", !.pid = p]
          /\ kitty' = With(kitty, p, [runs |-> None, shows |-> None, starts |-> TheItem.session])
          /\ launched' = With(launched, p, TheItem.session)
          /\ Calm /\ UNCHANGED <<history, now, zellij, windows>>
       \/ Conclude("failed") /\ Fault /\ UNCHANGED world

Dead == resume.pid \notin DOMAIN kitty

\* Kill ends Kitty with all its descendants, and its windows go.
Kill(p) ==
    /\ kitty' = Without(kitty, {p})
    /\ windows' = Without(windows, WindowsOf(p))
    /\ UNCHANGED <<history, now, zellij, launched>>

KilledAs(status) == Kill(resume.pid) /\ Conclude(status)

WaitForWindowLeavingIt ==
    LET found == WindowsOf(resume.pid) IN
    /\ At("window")
    /\ \/ Dead /\ Conclude("failed") /\ Calm
       \/ /\ ~Dead /\ Cardinality(found) = 1 /\ Calm
          /\ resume' = [resume EXCEPT !.pc = "attach", !.window = TheOnly(found)]
       \/ ~Dead /\ Conclude("failed") /\ Slow
    /\ UNCHANGED world

\* The window of the PID that was started.
WaitForWindow ==
    LET found == WindowsOf(resume.pid) IN
    /\ At("window")
    /\ \/ /\ Dead /\ \E status \in {"failed", "unavailable"} : Conclude(status)
          /\ Calm /\ UNCHANGED world
       \/ /\ ~Dead /\ Cardinality(found) = 1
          /\ resume' = [resume EXCEPT !.pc = "attach", !.window = TheOnly(found)]
          /\ Calm /\ UNCHANGED world
       \/ ~Dead /\ Cardinality(found) > 1 /\ KilledAs("failed") /\ Calm
       \/ ~Dead /\ KilledAs("failed") /\ Slow

WaitForAttachmentLeavingIt ==
    /\ At("attach")
    /\ \/ Dead /\ Conclude("unavailable") /\ Calm
       \/ ~Dead /\ Attached(resume.pid, TheItem.session) /\ Goes("unique") /\ Calm
       \/ ~Dead /\ Conclude("failed") /\ Slow
    /\ UNCHANGED world

\* The evidence has to be there at two polls on end.
WaitForAttachment ==
    /\ At("attach")
    /\ \/ Dead /\ Conclude("unavailable") /\ Calm /\ UNCHANGED world
       \/ /\ ~Dead /\ Attached(resume.pid, TheItem.session)
          /\ resume' = IF resume.sure = 1 THEN [resume EXCEPT !.pc = "unique"]
                       ELSE [resume EXCEPT !.sure = @ + 1]
          /\ Calm /\ UNCHANGED world
       \/ /\ ~Dead /\ resume.sure > 0 /\ resume' = [resume EXCEPT !.sure = 0]
          /\ IF Attached(resume.pid, TheItem.session) THEN Fault ELSE Calm
          /\ UNCHANGED world
       \/ ~Dead /\ KilledAs("failed") /\ Slow

\* Only a launched window that is alone with the session is accepted.
RevalidateUniqueLaunchedAttachment ==
    LET found == AllAttachedSessionWindows(TheItem.session) IN
    /\ At("unique")
    /\ \/ /\ found = {resume.window}
          /\ resume' = [resume EXCEPT !.pc = "place", !.mapped[resume.i] = resume.window]
          /\ Calm /\ UNCHANGED world
       \/ found # {resume.window} /\ KilledAs("failed") /\ Calm
       \/ KilledAs("failed") /\ Fault

\* A window on any workspace goes to one with the name of the target, or, if
\* that has no name, to one with its index: on which output, the window
\* manager decides.
Denoted(target) ==
    {w \in Spaces : IF target.name # None THEN w.name = target.name ELSE w.index = target.index}

Moved(w, target) ==
    IF w \notin DOMAIN windows THEN {windows}
    ELSE {[windows EXCEPT ![w].space = v.id] : v \in Denoted(target)}

MoveToWorkspace ==
    LET target == TheItem.target
        moved == Moved(resume.window, target) IN
    /\ At("place")
    /\ \/ /\ target = None /\ Conclude(IF resume.pid # None THEN "degraded" ELSE TheItem.status)
          /\ Calm /\ UNCHANGED windows
       \/ target # None /\ windows' \in moved /\ Goes("moved") /\ Calm
       \/ /\ target # None /\ windows' \in moved \cup {windows}
          /\ Conclude("failed") /\ Fault
    /\ UNCHANGED <<history, now, zellij, kitty, launched>>

\* The window has to be seen on the target; otherwise it is left open where
\* it is.  Only a window that is there can be seen too late.
OnTarget(w, item) == w \in DOMAIN windows /\ windows[w].space = item.target.id

WaitForWorkspace ==
    /\ At("moved")
    /\ \/ /\ ~OnTarget(resume.window, TheItem) /\ Conclude("failed") /\ Calm
       \/ /\ OnTarget(resume.window, TheItem)
          /\ Conclude(IF resume.pid # None THEN "restored" ELSE TheItem.status) /\ Calm
       \/ OnTarget(resume.window, TheItem) /\ Conclude("failed") /\ Slow
    /\ UNCHANGED world

\* The columns are ordered (ColumnOrdering), the result is printed, and the
\* command ends.
OrderColumns ==
    /\ At("item") /\ resume.i > Len(resume.plan)
    /\ Goes("order") /\ Calm /\ UNCHANGED world

End == At("order") /\ Finish /\ Calm /\ UNCHANGED world

-----------------------------------------------------------------------------
(* Kitty, zellij, the clock and the user.                                  *)

SpaceIDs == {v.id : v \in Spaces}

WindowAppears(p) ==
    /\ p \in DOMAIN launched \cap DOMAIN kitty /\ WindowsOf(p) = {}
    /\ \E id \in SpaceIDs :
         windows' = With(windows, <<p, 1>>, [pid |-> p, terminal |-> TRUE, space |-> id])
    /\ UNCHANGED <<history, now, zellij, kitty, launched>>

\* A client raises a session that had exited.
Raised(x) == [zellij EXCEPT ![x] = IF @ = "exited" THEN "running" ELSE @]

ClientStarts(p) ==
    /\ p \in DOMAIN kitty /\ kitty[p].starts # None
    /\ kitty' = [kitty EXCEPT ![p] = [@ EXCEPT !.runs = kitty[p].starts, !.starts = None]]
    /\ zellij' = Raised(kitty[p].starts)
    /\ UNCHANGED <<history, now, windows, launched>>

NoClient == [runs |-> None, shows |-> None, starts |-> None]

\* The client is in the first window of its Kitty and ends with it, the Kitty
\* with its last one.
CloseWindow(p, w) ==
    /\ windows' = Without(windows, {w})
    /\ kitty' = IF WindowsOf(p) \subseteq {w} THEN Without(kitty, {p})
                ELSE [q \in DOMAIN kitty |-> IF w = <<q, 1>> THEN NoClient ELSE kitty[q]]
    /\ UNCHANGED <<history, now, zellij, launched>>

\* A client whose session is not there ends, and its window closes.
ClientEnds(p) ==
    /\ p \in DOMAIN kitty
    /\ kitty[p].runs \in Sessions \ Running \/ kitty[p].shows \in Sessions \ Running
    /\ CloseWindow(p, <<p, 1>>)

UserOpens(x, exact, terminal, id) ==
    LET p == -(mishaps + 1) IN
    /\ x \in Available(zellij) /\ zellij' = Raised(x)
    /\ kitty' = With(kitty, p, [runs |-> IF exact THEN x ELSE None,
                               shows |-> IF exact THEN None ELSE x, starts |-> None])
    /\ windows' = With(windows, <<p, 1>>, [pid |-> p, terminal |-> terminal, space |-> id])
    /\ UNCHANGED <<history, now, launched>>

UserCloses(w) == CloseWindow(windows[w].pid, w)

UserMoves(w, id) ==
    /\ windows[w].space # id /\ windows' = [windows EXCEPT ![w].space = id]
    /\ UNCHANGED <<history, now, zellij, kitty, launched>>

\* A second window of the same Kitty.
UserCopies(w) ==
    LET p == windows[w].pid IN
    /\ WindowsOf(p) = {<<p, 1>>} /\ windows' = With(windows, <<p, 2>>, windows[w])
    /\ UNCHANGED <<history, now, zellij, kitty, launched>>

SessionEnds(x) ==
    /\ zellij[x] = "running" /\ \E s \in {"exited", "deleted"} : zellij' = [zellij EXCEPT ![x] = s]
    /\ UNCHANGED <<history, now, kitty, windows, launched>>

UserStep ==
    \/ \E x \in Sessions, exact, terminal \in BOOLEAN, id \in SpaceIDs :
         UserOpens(x, exact, terminal, id)
    \/ \E w \in DOMAIN windows :
         UserCloses(w) \/ UserCopies(w) \/ \E id \in SpaceIDs : UserMoves(w, id)
    \/ \E x \in Sessions : SessionEnds(x)

UserActs == UserStep /\ Fault /\ UNCHANGED resume

TimePasses ==
    /\ now < LastTime /\ now' = now + 1
    /\ Calm /\ UNCHANGED <<history, zellij, kitty, windows, launched, resume>>

KittyActs ==
    /\ \E p \in DOMAIN kitty : WindowAppears(p) \/ ClientStarts(p) \/ ClientEnds(p)
    /\ Calm /\ UNCHANGED resume

-----------------------------------------------------------------------------
(* The specification.                                                      *)

\* The sessions a resume --all may attach to: those that are running, and in
\* a boot that has no checkpoint yet those that were active in the newest one.
Attachable ==
    LET mine == {i \in DOMAIN history : history[i].mine} IN
    Running \cup
    {x \in Sessions :
        /\ \A i \in mine : history[i].boot # Boot
        /\ \E i \in mine : /\ x \in history[i].active /\ now <= history[i].at + MaxAge
                           /\ \A j \in mine : history[j].at <= history[i].at}

Launching == {"list", "revalidate", "start", "window", "attach"}

Record == lively' = IF resume'.pc \notin Launching THEN {}
                    ELSE (IF At("item") THEN {} ELSE lively) \cup Attachable'

Init ==
    /\ history \in Histories /\ now = 0
    /\ \E d \in Desktops : zellij = d.zellij /\ kitty = d.kitty /\ windows = d.windows
    /\ launched = Empty /\ lively = {} /\ mishaps = 0 /\ resume = NotRunning

Next ==
    \/ Start /\ Record
    \/ WaitForNiri /\ Record
    \/ Collect /\ Record
    \/ MakePlan /\ Record
    \/ MapExisting /\ Record
    \/ NextItem /\ Record
    \/ ListAgain /\ Record
    \/ RevalidateAllCandidate /\ Record
    \/ StartKitty /\ Record
    \/ WaitForWindow /\ Record
    \/ WaitForAttachment /\ Record
    \/ RevalidateUniqueLaunchedAttachment /\ Record
    \/ MoveToWorkspace /\ Record
    \/ WaitForWorkspace /\ Record
    \/ OrderColumns /\ Record
    \/ End /\ Record
    \/ UserActs /\ Record
    \/ TimePasses /\ Record
    \/ KittyActs /\ Record

Spec == Init /\ [][Next]_vars

-----------------------------------------------------------------------------
(* Properties.                                                             *)

Alive == DOMAIN launched \cap DOMAIN kitty

\* A Kitty with a client, or that will start one.
HasClient(p) == kitty[p].runs # None \/ kitty[p].starts # None

\* However often resume is run, whatever fails and whatever the user does,
\* there are never two Kittys that it launched with, or about to start, a
\* client of the same session (executor.go:178-212, 271-286).
OneClient ==
    \A p, q \in Alive : launched[p] = launched[q] /\ HasClient(p) /\ HasClient(q) => p = q

\* A Kitty that resume leaves behind is attached to its session as long as
\* the window it was launched with is there; one that was given up does not
\* come to life later (executor.go:255-268).
LeftOpenAttached ==
    \A p \in Alive \ {resume.pid} :
        /\ kitty[p].starts = None
        /\ kitty[p].runs = launched[p] \/ <<p, 1>> \notin DOMAIN windows

\* The results of a resume in which nothing went wrong and nobody interfered.
Undisturbed == At("order") /\ mishaps = 0

\* The items that were planned to be open.
Wanted == {resume.plan[i] : i \in {j \in DOMAIN resume.plan :
              resume.plan[j].planned \in {"ready", "degraded", "already_open"}}}

\* If nothing goes wrong and nobody interferes, every item that was planned
\* to be open is, in one window, and on its target if it has one
\* (planner.go:179-268, executor.go:109-178, 295-323).  There are three
\* exceptions, of which the first is contrary to docs/OPERATIONS.md:92: a
\* target without a name is told to the window manager by its index alone
\* (runtime.go:122-129), so the window may be on the workspace of that index on
\* another output, and is then reported as failed; a session may be open in
\* several windows; the checkpoint may have grown too old meanwhile.
CalmResult ==
    Undisturbed => \A item \in Wanted :
        LET open == AllAttachedSessionWindows(item.session) IN
        \/ /\ item.status \in {"restored", "degraded", "already_open"}
           /\ Cardinality(open) = 1
           /\ item.target # None => OnTarget(TheOnly(open), item)
        \/ /\ item.status = "failed"
           /\ Cardinality(open) = 1 /\ item.target # None /\ item.target.name = None
           /\ ~OnTarget(TheOnly(open), item)
           /\ \E v \in Denoted(item.target) : windows[TheOnly(open)].space = v.id
        \/ item.status = "failed" /\ Cardinality(open) > 1
        \/ item.status = "stale" /\ now > resume.selection.checkpoint.at + MaxAge

\* A resume --all raises a session that has exited only if, at some moment
\* since it turned to that session, the session was running or was allowed
\* to be raised by the newest checkpoint of the previous boot
\* (executor.go:327-378).
RaisesOnlyAllowed ==
    [][\A p \in Alive : resume.all /\ kitty[p].runs = None /\ p \in DOMAIN kitty'
          /\ kitty'[p].runs # None /\ zellij' # zellij => launched[p] \in lively]_vars

\* A resume launches a Kitty only for a session that was missing when it
\* made its plan, if nobody interferes (docs/OPERATIONS.md:51: "Rerunning detects
\* an already open session instead of creating a duplicate").
LaunchesOnlyMissing ==
    [][mishaps = 0 /\ launched' # launched => TheItem.planned # "already_open"]_vars

=============================================================================
