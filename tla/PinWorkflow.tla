----------------------------- MODULE PinWorkflow -----------------------------
(***************************************************************************)
(* redeem mirror save and redeem mirror apply: the pin of a host's exact   *)
(* projections, taken from the desktop, and the windows opened again from  *)
(* it.                                                                     *)
(***************************************************************************)
EXTENDS WorkspaceFollow

VARIABLES
    apc, apply,     \* mirror apply: where it is, its state
    spc, save       \* mirror save

pinning == <<apc, apply, spc, save>>

NoApply == [run |-> None, active |-> {}, known |-> {}, pin |-> None, items |-> {},
            item |-> None, before |-> {}, token |-> None, match |-> None]

ApplyPlaces == {"off", "lock", "read", "observe", "prepare", "item", "launch", "wait", "place", "unlock"}

ApplyHolding == ApplyPlaces \ {"off", "lock"}

SaveHolding == {"write", "rename", "unlock"}

NoSave == [offered |-> {}, windows |-> {}, shape |-> <<>>, pin |-> None]

InitPinning ==
    /\ apc = "off" /\ apply = NoApply
    /\ spc = "off" /\ save = NoSave

-----------------------------------------------------------------------------
(* Apply.                                                                  *)

\* A workspace reference of the pin: by a unique name, else the first index.
ResolveWorkspaceReference(p) ==
    LET named == IF p.name # None THEN Only(shape, Matching(shape, "name", p.name)) ELSE None
        indexed == IF p.index > 0 THEN Matching(shape, "index", p.index) ELSE {}
    IN IF named # None THEN Target(named.id, p.name, named.index)
       ELSE IF indexed # {} THEN Target(First(shape, indexed).id, None, p.index) ELSE None

\* Each pinned session's status at the first look, as the code's switch has it.
Prepared(inventory, p) ==
    IF p.session \notin apply.active THEN "missing"
    ELSE IF AmbiguousCandidate(inventory, p.session, None) \/ inventory.unverified # {} THEN "ambiguous"
    ELSE IF Cardinality(ExactProjections(inventory, p.session)) > 1 THEN "ambiguous"
    ELSE IF ExactProjections(inventory, p.session) # {} THEN "already_open"
    ELSE IF p.session \notin apply.known THEN "failed" ELSE "ready"

ApplyStart ==
    /\ apc = "off" /\ MayRun("apply")
    /\ \E s \in AcquireRemote :
          /\ ExactActiveSessions(s) # None
          /\ apply' = [NoApply EXCEPT !.run = runs["apply"], !.active = ExactActiveSessions(s),
                                      !.known = {x \in ToSet(s.active) : ExactSessionID(s, x) # None}]
    /\ apc' = "lock" /\ Run("apply")
    /\ UNCHANGED <<desktop, store, following, spc, save>>

Still == UNCHANGED <<desktop, following, runs, spc, save>>

ApplyLocks ==
    /\ apc = "lock"
    /\ IF Locked THEN apc' = "off" /\ UNCHANGED store ELSE apc' = "read" /\ Acquire("apply")
    /\ UNCHANGED apply /\ Still

ApplyReads ==
    /\ apc = "read"
    /\ apply' = [apply EXCEPT !.pin = ReadPin]
    /\ apc' = IF ReadPin = None THEN "unlock" ELSE "observe"
    /\ UNCHANGED store /\ Still

ApplyObserves ==
    /\ apc = "observe"
    /\ \E inventory \in InspectProjections :
          apply' = [apply EXCEPT !.items = {p \in apply.pin : Prepared(inventory, p) = "ready"},
                                 !.active = {}, !.known = {}]
    /\ apc' = "prepare"
    /\ UNCHANGED store /\ Still

\* The destinations, from one listing of the workspaces; without it, none.
ApplyPrepares ==
    /\ apc = "prepare"
    /\ \E listed \in BOOLEAN :
          apply' = [apply EXCEPT
             !.items = {[session |-> p.session, order |-> p.order,
                         target |-> IF listed THEN ResolveWorkspaceReference(p) ELSE None] : p \in @}]
    /\ apc' = "item"
    /\ UNCHANGED store /\ Still

ApplyFails == apc \in {"read", "observe"} /\ apc' = "unlock" /\ UNCHANGED <<apply, store>> /\ Still

NextItem == [apply EXCEPT !.item = None, !.token = None, !.match = None, !.before = {}]

ApplyDone == apc = "item" /\ apply.items = {} /\ apc' = "unlock" /\ UNCHANGED <<apply, store>> /\ Still

\* The recheck before a launch finds the session, or cannot rule it out.
ApplySkips ==
    /\ apc = "item"
    /\ \E p \in apply.items : Leads(p, apply.items) /\ apply' = [apply EXCEPT !.items = @ \ {p}]
    /\ UNCHANGED <<apc, store>> /\ Still

ApplyRechecks ==
    /\ apc = "item"
    /\ \E p \in apply.items, inventory \in InspectProjections :
          /\ Leads(p, apply.items)
          /\ ~AmbiguousCandidate(inventory, p.session, None)
          /\ inventory.unverified = {}
          /\ ExactProjections(inventory, p.session) = {}
          /\ apply' = [apply EXCEPT !.items = @ \ {p}, !.item = p, !.before = WindowIDs(windows)]
    /\ apc' = "launch"
    /\ UNCHANGED store /\ Still

ApplyLaunches ==
    /\ apc = "launch"
    /\ Launch("apply", apply.run, apply.item.session)
    /\ apply' = [apply EXCEPT !.token = Len(log) + 1]
    /\ apc' = "wait"
    /\ UNCHANGED <<store, following, runs, spc, save>>

ApplyLaunchFails ==
    /\ apc = "launch"
    /\ LaunchFails("apply", apply.run, apply.item.session)
    /\ apply' = NextItem /\ apc' = "item"
    /\ UNCHANGED <<store, following, runs, spc, save>>

\* Apply tolerates other windows' missing evidence, not an ambiguous candidate
\* of this very launch.
ApplyConfirms ==
    /\ apc = "wait"
    /\ \E inventory \in InspectProjections :
          LET matches == NewMatches(inventory, apply.item.session, apply.token, apply.before)
          IN /\ ~AmbiguousCandidate(inventory, apply.item.session, apply.token)
             /\ Cardinality(matches) = 1
             /\ apply' = [apply EXCEPT !.match = CHOOSE id \in WindowIDs(matches) : TRUE]
    /\ Resolve(apply.token, "confirmed")
    /\ apc' = "place"
    /\ UNCHANGED <<windows, launches, shape, left, store, following, runs, spc, save>>

ApplyAbandons ==
    /\ apc = "wait"
    /\ Resolve(apply.token, "abandoned")
    /\ apply' = NextItem /\ apc' = "item"
    /\ UNCHANGED <<windows, launches, shape, left, store, following, runs, spc, save>>

\* The move may fail or have no destination; the window stays open either way.
ApplyPlaces_ ==
    /\ apc = "place"
    /\ \/ UNCHANGED windows
       \/ /\ apply.item.target # None /\ Landing(shape, apply.item.target) # None
          /\ MoveToWorkspace(apply.match, apply.item.target)
    /\ apply' = NextItem /\ apc' = "item"
    /\ UNCHANGED <<launches, shape, log, left, store, following, runs, spc, save>>

ApplyUnlocks ==
    /\ apc = "unlock"
    /\ Release("apply")
    /\ apc' = "off" /\ apply' = NoApply
    /\ Still

ApplyDies ==
    /\ apc \in ApplyHolding
    /\ Release("apply")
    /\ IF apc = "wait" THEN Resolve(apply.token, "abandoned") ELSE UNCHANGED log
    /\ apc' = "off" /\ apply' = NoApply
    /\ UNCHANGED <<windows, launches, shape, left, following, runs, spc, save>>

ApplyStep ==
    \/ ApplyStart \/ ApplyLocks \/ ApplyReads \/ ApplyObserves \/ ApplyPrepares \/ ApplyFails
    \/ ApplyDone \/ ApplySkips \/ ApplyRechecks \/ ApplyLaunches \/ ApplyLaunchFails
    \/ ApplyConfirms \/ ApplyAbandons \/ ApplyPlaces_ \/ ApplyUnlocks \/ ApplyDies

-----------------------------------------------------------------------------
(* Save.  The desktop is read before the lock is taken.                    *)

\* The exact projections of this host among the windows that were listed, one
\* per session, that the source still offers, with the workspaces they were on
\* when they were listed.
BuildPin(inventory, listed, spaces, offered) ==
    LET exact == {v \in inventory.exact : v.id \in WindowIDs(listed)}
        kept == {v \in exact : /\ v.session \in Sessions \cap offered
                               /\ {u \in exact : u.session = v.session} = {v}}
        Place(v) == Matching(spaces, "id", (CHOOSE w \in listed : w.id = v.id).place)
        Pinned(v) == IF Place(v) = {} THEN Projection(v.session, None, 0, v.id)
                     ELSE LET space == First(spaces, Place(v))
                          IN Projection(v.session, space.name, space.index, v.id)
    IN {Pinned(v) : v \in kept}

Calm == UNCHANGED <<desktop, following, apc, apply>>

SaveStart ==
    /\ spc = "off" /\ MayRun("save")
    /\ \E s \in AcquireRemote : save' = [NoSave EXCEPT !.offered = Discover(s)]
    /\ spc' = "windows" /\ Run("save")
    /\ UNCHANGED store /\ Calm

SaveListsWindows ==
    /\ spc = "windows"
    /\ save' = [save EXCEPT !.windows = windows]
    /\ spc' = "workspaces"
    /\ UNCHANGED <<runs, store>> /\ Calm

SaveListsWorkspaces ==
    /\ spc = "workspaces"
    /\ save' = [save EXCEPT !.shape = shape]
    /\ spc' = "inspect"
    /\ UNCHANGED <<runs, store>> /\ Calm

SaveBuilds ==
    /\ spc = "inspect"
    /\ \E inventory \in InspectProjections :
          LET built == BuildPin(inventory, save.windows, save.shape, save.offered)
          IN /\ ValidPin(built)
             /\ save' = [NoSave EXCEPT !.pin = built]
    /\ spc' = "lock"
    /\ UNCHANGED <<runs, store>> /\ Calm

SaveLocks ==
    /\ spc = "lock"
    /\ IF Locked THEN spc' = "off" /\ save' = NoSave /\ UNCHANGED store
                 ELSE spc' = "write" /\ Acquire("save") /\ UNCHANGED save
    /\ UNCHANGED runs /\ Calm

SaveWritesInPlace ==
    /\ spc = "write"
    /\ pin' = Torn /\ temp' = File(save.pin) /\ UNCHANGED lock
    /\ spc' = "rename"
    /\ UNCHANGED <<save, runs>> /\ Calm

SaveWrites ==
    /\ spc = "write"
    /\ WriteTemp(save.pin)
    /\ spc' = "rename"
    /\ UNCHANGED <<save, runs>> /\ Calm

SaveRenames ==
    /\ spc = "rename"
    /\ RenameTemp
    /\ spc' = "unlock"
    /\ UNCHANGED <<save, runs>> /\ Calm

SaveGivesUp ==
    /\ spc = "rename" /\ DropTemp /\ spc' = "unlock"
    /\ UNCHANGED <<save, runs>> /\ Calm

SaveFails ==
    /\ spc \in {"windows", "workspaces", "inspect"}
    /\ spc' = "off" /\ save' = NoSave
    /\ UNCHANGED <<runs, store>> /\ Calm

SaveUnlocks ==
    /\ spc = "unlock"
    /\ Release("save")
    /\ spc' = "off" /\ save' = NoSave
    /\ UNCHANGED runs /\ Calm

SaveDies ==
    /\ spc \in SaveHolding
    /\ Release("save")
    /\ spc' = "off" /\ save' = NoSave
    /\ UNCHANGED runs /\ Calm

SaveStep ==
    \/ SaveStart \/ SaveListsWindows \/ SaveListsWorkspaces \/ SaveBuilds \/ SaveLocks \/ SaveWrites
    \/ SaveRenames \/ SaveGivesUp \/ SaveFails \/ SaveUnlocks \/ SaveDies

=============================================================================
