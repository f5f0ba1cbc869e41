---------------------------- MODULE LocalDesktop ----------------------------
(***************************************************************************)
(* The client's Niri desktop as the mirror commands meet it: the windows   *)
(* of the owned application ID, launches that the Kitty launcher accepted  *)
(* and that have not shown a window yet, and the workspaces with their     *)
(* current names and indices.  The user opens, copies and closes windows   *)
(* and renames or reorders workspaces whenever he likes.                   *)
(***************************************************************************)
EXTENDS HostSnapshot

CONSTANTS
    Sessions,       \* session names of the source host
    Elsewhere,      \* a session of some other host
    Shapes,         \* arrangements: sequences of [id, index, name]
    ByHand,         \* what the user opens himself: sessions, or None for a plain terminal
    UserSteps,      \* bound on what the user does
    Evenings        \* what he may run: functions of how often to run each command

ASSUME DesktopAssumption ==
    /\ None \notin Sessions \cup Nat /\ Elsewhere \notin Sessions /\ None # Elsewhere
    /\ ByHand \subseteq Sessions \cup {None, Elsewhere}
    /\ \A s \in Shapes : DOMAIN s \subseteq Nat
    /\ UserSteps \in Nat
    /\ Evenings \subseteq [{"follow", "apply", "save"} -> Nat]

VARIABLES
    windows,    \* [id, session, token, up, place]; up: its helper answers
    launches,   \* tokens of the accepted launches that have no window yet
    shape,      \* the workspaces, in the order Niri lists them
    log,        \* every launch by its token: [by, run, session, fate, copied]
    left,       \* user steps left
    runs        \* how often each command may still run

desktop == <<windows, launches, shape, log, left>>

Owners == {"follow", "apply"}

\* Window IDs are never reused: even for launches, odd for the user's windows.
LaunchedID(token) == 2 * token
UserID == 2 * left + 1

MayRun(command) == runs[command] > 0

Run(command) == runs' = [runs EXCEPT ![command] = @ - 1]

InitDesktop ==
    /\ windows = {} /\ launches = {} /\ log = <<>> /\ left = UserSteps /\ runs \in Evenings
    /\ shape \in Shapes

-----------------------------------------------------------------------------
(* Evidence.  A window whose helper answers is exact; a window with no     *)
(* helper beneath it is untracked; an inspection that fails leaves it      *)
(* unverified, and two qualifying descendants make it ambiguous.           *)

Inventory(noise, w) ==
    LET projects == {x \in windows : x.up /\ x.session # None}
        ambiguous == IF noise = "ambiguous" THEN {w} \cap projects ELSE {}
        unverified == IF noise = "unverified" THEN {w} ELSE {}
        exact == projects \ (ambiguous \cup unverified)
    IN [exact |-> exact, ambiguous |-> ambiguous, unverified |-> unverified,
        untracked |-> windows \ (exact \cup ambiguous)]

\* At most one window's evidence is disturbed in one inspection.
InspectProjections ==
    {Inventory("none", None)} \cup {Inventory(n, w) : n \in {"ambiguous", "unverified"}, w \in windows}

ExactProjections(inventory, session) == {w \in inventory.exact : w.session = session}

AmbiguousCandidate(inventory, session, token) ==
    \E w \in inventory.ambiguous : w.session = session /\ token \in {None, w.token}

WindowIDs(set) == {w.id : w \in set}

NewMatchesOfSession(inventory, session, token, before) == ExactProjections(inventory, session)

\* The windows that one launch may take for its own.
NewMatches(inventory, session, token, before) ==
    {w \in ExactProjections(inventory, session) : w.token = token /\ w.id \notin before}

-----------------------------------------------------------------------------
(* Workspaces.  Niri's move action takes a name or an index, and applies   *)
(* it to the workspaces of that moment.                                    *)

\* The workspaces listed with a value, by their positions in the list.
Matching(rows, f, value) == {i \in DOMAIN rows : rows[i][f] = value}

First(rows, found) == rows[CHOOSE i \in found : \A j \in found : i <= j]

Only(rows, found) == IF \E i \in found : found = {i} THEN First(rows, found) ELSE None

Target(id, name, index) == [id |-> id, name |-> name, index |-> index]

\* Where a move with this target puts a window; None when Niri refuses it.
Landing(rows, target) ==
    LET hit == IF target.name # None THEN Matching(rows, "name", target.name)
                                     ELSE Matching(rows, "index", target.index)
    IN IF hit = {} THEN None ELSE First(rows, hit).id

MoveToWorkspace(id, target) ==
    windows' = {IF w.id = id THEN [w EXCEPT !.place = Landing(shape, target)] ELSE w : w \in windows}

-----------------------------------------------------------------------------
(* Launches.                                                               *)

\* copied: the user copied its window.
Attempt(owner, run, session, fate) ==
    [by |-> owner, run |-> run, session |-> session, fate |-> fate, copied |-> FALSE]

\* The launcher accepts: the window comes later, or never.
Launch(owner, run, session) ==
    /\ log' = Append(log, Attempt(owner, run, session, "open"))
    /\ launches' = launches \cup {Len(log) + 1}
    /\ UNCHANGED <<windows, shape, left>>

\* The launcher reports an error, with or without having started a Kitty.
LaunchFails(owner, run, session) ==
    /\ log' = Append(log, Attempt(owner, run, session, "abandoned"))
    /\ launches' \in {launches, launches \cup {Len(log) + 1}}
    /\ UNCHANGED <<windows, shape, left>>

Resolve(token, fate) == log' = [log EXCEPT ![token].fate = fate]

Appears ==
    \E t \in launches :
        /\ windows' = windows \cup {[id |-> LaunchedID(t), session |-> log[t].session, token |-> t,
                                     up |-> FALSE, place |-> shape[1].id]}
        /\ launches' = launches \ {t}
        /\ UNCHANGED <<shape, log, left>>

\* The accepted launch dies before it shows a window.
NeverAppears ==
    \E t \in launches : launches' = launches \ {t} /\ UNCHANGED <<windows, shape, log, left>>

HelperAnswers ==
    \E w \in windows :
        /\ w.session # None /\ ~w.up
        /\ windows' = (windows \ {w}) \cup {[w EXCEPT !.up = TRUE]}
        /\ UNCHANGED <<launches, shape, log, left>>

\* A terminal of his own, a mirror by hand (mirror open takes no lock), a
\* mirror of another host, or a copy of a window with the same command line.
UserOpens ==
    /\ left > 0
    /\ \E session \in ByHand, token \in {None} \cup {w.token : w \in windows} :
          /\ token # None => session = log[token].session
          /\ windows' = windows \cup {[id |-> UserID, session |-> session, token |-> token,
                                       up |-> FALSE, place |-> shape[1].id]}
          /\ log' = IF token = None THEN log ELSE [log EXCEPT ![token].copied = TRUE]
    /\ left' = left - 1
    /\ UNCHANGED <<launches, shape>>

UserCloses ==
    /\ left > 0
    /\ \E w \in windows : windows' = windows \ {w}
    /\ left' = left - 1
    /\ UNCHANGED <<launches, shape, log>>

UserRearranges ==
    /\ left > 0
    /\ shape' \in Shapes \ {shape}
    /\ left' = left - 1
    /\ UNCHANGED <<windows, launches, log>>

DesktopStep ==
    Appears \/ NeverAppears \/ HelperAnswers \/ UserOpens \/ UserCloses \/ UserRearranges

=============================================================================
