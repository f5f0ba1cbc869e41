---------------------------- MODULE ColumnOrdering ----------------------------
(***************************************************************************)
(* The second phase of a resume (orderColumns, internal/resume/executor.go):*)
(* the terminals of one workspace are brought to the columns they were     *)
(* captured in, by focusing one window after the other and moving the      *)
(* column that has the focus, while somebody may be using the desktop.     *)
(*                                                                         *)
(* A workspace is what one observation of it says: the column of each of   *)
(* its windows, 0 for a floating one, and the window that has the focus,   *)
(* if it is one of them.  Several windows may be stacked in one column.    *)
(* Workspaces are ordered one after the other and share nothing.           *)
(***************************************************************************)
EXTENDS Naturals, FiniteSets

CONSTANTS
    None,            \* the focus is on another workspace
    Windows,         \* windows that may be on the workspace
    Targets,         \* those that are to be ordered
    MaxDisturbances  \* bound on what the user does meanwhile

\* What is assumed of them where the module is used (Resume).
OrderingConstants ==
    /\ Targets \subseteq Windows /\ IsFiniteSet(Windows) /\ None \notin Windows
    /\ MaxDisturbances \in Nat

VARIABLES
    real,      \* the workspace
    wanted,    \* the captured column of each target
    run,       \* the executor
    trouble,   \* history: what went wrong or was done by the user, counted
    astray     \* history: an action did something else than was expected, and
               \* nobody has changed anything since

vars == <<real, wanted, run, trouble, astray>>

-----------------------------------------------------------------------------
(* Workspaces.                                                             *)

Open(ws) == DOMAIN ws.column

Columns(ws) == {ws.column[w] : w \in Open(ws)} \ {0}

\* The column c after the column at source was moved to destination.
Shifted(c, source, destination) ==
    CASE c = 0 -> 0
      [] c = source -> destination
      [] source < c /\ c <= destination -> c - 1
      [] destination <= c /\ c < source -> c + 1
      [] OTHER -> c

Moved(ws, source, destination) ==
    [ws EXCEPT !.column = [w \in Open(ws) |->
                             Shifted(ws.column[w], source, destination)]]

Focused(ws, w) == [ws EXCEPT !.focus = w]

\* What the compositor makes of move-column-to-index: the column that has
\* the focus is moved, at most to the last place.
ColumnMoved(ws, destination) ==
    IF ws.focus = None \/ ws.column[ws.focus] = 0 THEN ws
    ELSE Moved(ws, ws.column[ws.focus],
               IF destination \in Columns(ws) THEN destination
               ELSE Cardinality(Columns(ws)))

AtColumn(ws, w, c) == w \in Open(ws) /\ ws.column[w] = c

Misplaced(ws, S) == {t \in S : ~AtColumn(ws, t, wanted[t])}

-----------------------------------------------------------------------------
(* The executor.                                                           *)

Stopped == {"restoring", "done"}

Acting == {"focusing", "moving"}

Ends(result) == run' = [run EXCEPT !.pc = "restoring", !.result = result]

\* The highest column first.
Highest(t, S) == t \in S /\ \A u \in S : wanted[u] <= wanted[t]

Undisturbed == UNCHANGED <<real, wanted, trouble, astray>>

\* An observation or a call fails, or a wait ends without the change it is
\* for; a failed call may have had its effect.
Fails(after) ==
    /\ Ends("degraded")
    /\ real' \in {real, after}
    /\ trouble' = trouble + 1
    /\ UNCHANGED <<wanted, astray>>

Observe ==
    /\ run.pc = "start"
    /\ \/ run' = [run EXCEPT !.pc = "choosing", !.expected = real] /\ Undisturbed
       \/ Fails(real)

ChooseOnePass ==
    LET left == Misplaced(run.expected, run.todo) IN
    /\ run.pc = "choosing"
    /\ IF left # {}
       THEN \E t \in left :
              /\ Highest(t, left)
              /\ run' = [run EXCEPT !.pc = "before focus", !.target = t,
                                    !.todo = {u \in @ : wanted[u] < wanted[t]}]
       ELSE IF Misplaced(run.expected, Targets) = {}
       THEN run' = [run EXCEPT !.pc = "checking"]
       ELSE Ends("degraded")
    /\ Undisturbed

\* The target to move next in this pass, or the next pass.
Choose ==
    LET left == Misplaced(run.expected, run.todo) IN
    /\ run.pc = "choosing"
    /\ \/ \E t \in left :
            /\ Highest(t, left)
            /\ run' = [run EXCEPT !.pc = "before focus", !.target = t,
                                  !.todo = {u \in @ : wanted[u] < wanted[t]}]
       \/ /\ left = {} /\ Misplaced(run.expected, Targets) = {}
          /\ run' = [run EXCEPT !.pc = "checking"]
       \/ /\ left = {} /\ Misplaced(run.expected, Targets) # {}
          /\ IF run.pass = Cardinality(Targets) THEN Ends("degraded")
             ELSE run' = [run EXCEPT !.pass = @ + 1, !.todo = Targets]
    /\ Undisturbed

\* The workspace must still be as expected before an action.
ObserveBefore(pc, next, acceptable) ==
    /\ run.pc = pc
    /\ \/ /\ IF real = run.expected /\ acceptable
             THEN run' = [run EXCEPT !.pc = next] ELSE Ends("degraded")
          /\ Undisturbed
       \/ Fails(real)

ObserveBeforeFocus ==
    ObserveBefore("before focus", "focusing", run.target \in Open(run.expected))

ObserveBeforeMove ==
    ObserveBefore("before move", "moving", run.expected.column[run.target] # 0)

\* An action has the effect after, where the executor expects expected.
Acts(pc, after, expected) ==
    \/ /\ run' = [run EXCEPT !.pc = pc, !.before = run.expected, !.expected = expected]
       /\ real' = after
       /\ astray' = (astray \/ after # expected)
       /\ UNCHANGED <<wanted, trouble>>
    \/ Fails(after)

\* A window that has left for another workspace takes the focus there.
FocusWindow ==
    LET there == IF run.target \in Open(real) THEN run.target ELSE None IN
    /\ run.pc = "focusing"
    /\ Acts("after focus", Focused(real, there), Focused(run.expected, run.target))

MoveColumnToIndex ==
    LET destination == wanted[run.target] IN
    /\ run.pc = "moving"
    /\ Acts("after move", ColumnMoved(real, destination),
            Moved(run.expected, run.expected.column[run.target], destination))

WaitForTarget(pc, next) ==
    /\ run.pc = pc
    /\ \/ /\ IF run.target \in Open(real)
                /\ real.column[run.target] = run.expected.column[run.target]
             THEN run' = [run EXCEPT !.pc = next, !.expected = real]
             ELSE Ends("degraded")
          /\ Undisturbed
       \/ Fails(real)

\* The workspace is polled until it is as expected; as long as it is as
\* before the executor waits, and anything else ends the ordering.
WaitForTransition(pc, next) ==
    /\ run.pc = pc
    /\ \/ real = run.expected /\ run' = [run EXCEPT !.pc = next] /\ Undisturbed
       \/ real \notin {run.expected, run.before} /\ Ends("degraded") /\ Undisturbed
       \/ Fails(real)

WaitForFocus == WaitForTransition("after focus", "before move")

WaitForMove == WaitForTransition("after move", "choosing")

\* The last observation.
Check ==
    /\ run.pc = "checking"
    /\ \/ Ends(IF real = run.expected THEN "applied" ELSE "degraded") /\ Undisturbed
       \/ Fails(real)

\* Whatever happened, the focus is given back to the window that had it
\* before the resume, if that can be done.
RestoreFocus ==
    /\ run.pc = "restoring"
    /\ run' = [run EXCEPT !.pc = "done"]
    /\ \E w \in Open(real) \cup {None, real.focus} : real' = Focused(real, w)
    /\ UNCHANGED <<wanted, trouble, astray>>

Execute ==
    \/ Observe \/ Choose
    \/ ObserveBeforeFocus \/ FocusWindow \/ WaitForFocus
    \/ ObserveBeforeMove \/ MoveColumnToIndex \/ WaitForMove
    \/ Check \/ RestoreFocus

-----------------------------------------------------------------------------
(* The user of the desktop.                                                *)

\* A column goes with its last window.
Without(ws, w) ==
    LET c == ws.column[w]
        rest == [v \in Open(ws) \ {w} |-> ws.column[v]]
        gone == c # 0 /\ \A v \in DOMAIN rest : rest[v] # c
    IN [column |-> [v \in DOMAIN rest |-> IF gone /\ rest[v] > c THEN rest[v] - 1 ELSE rest[v]],
        focus |-> IF ws.focus = w THEN None ELSE ws.focus]

\* A new column at place c, with the focus.
With(ws, w, c) ==
    [column |-> [v \in Open(ws) \cup {w} |->
                   IF v = w THEN c
                   ELSE IF ws.column[v] >= c THEN ws.column[v] + 1 ELSE ws.column[v]],
     focus |-> w]

Disturb ==
    /\ run.pc \notin Stopped
    /\ trouble < MaxDisturbances /\ trouble' = trouble + 1
    /\ \/ \E w \in (Open(real) \cup {None}) \ {real.focus} : real' = Focused(real, w)
       \/ \E c, d \in Columns(real) : c # d /\ real' = Moved(real, c, d)
       \/ \E w \in Open(real) : real' = Without(real, w)
       \/ \E w \in Windows \ Open(real) :
            \E c \in Columns(real) \cup {Cardinality(Columns(real)) + 1} :
               real' = With(real, w, c)
    /\ astray' = FALSE
    /\ UNCHANGED <<wanted, run>>

-----------------------------------------------------------------------------
(* The specification.                                                      *)

\* Columns are numbered from 1 without a gap.
Layouts(S) ==
    {f \in [S -> 0..Cardinality(S)] :
        \A w \in S : f[w] > 1 => \E v \in S : f[v] = f[w] - 1}

\* The workspaces that hold all the targets.
Workspaces ==
    UNION {{[column |-> f, focus |-> w] : f \in Layouts(S), w \in S \cup {None}} :
           S \in {T \in SUBSET Windows : Targets \subseteq T}}

\* Targets captured in one column are not ordered at all (stackedReason).
Unstacked ==
    {f \in [Targets -> 1..Cardinality(Windows)] : \A t, u \in Targets : f[t] = f[u] => t = u}

Ordering(ws) ==
    [pc |-> "start", expected |-> ws, before |-> ws, target |-> None,
     todo |-> Targets, pass |-> 0, result |-> "none"]

Init ==
    /\ real \in Workspaces /\ wanted \in Unstacked /\ run = Ordering(real)
    /\ trouble = 0 /\ astray = FALSE

Next == Execute \/ Disturb

Spec == Init /\ [][Next]_vars

-----------------------------------------------------------------------------
(* Properties.                                                             *)

\* The targets can be at their columns, each in one of its own.
Feasible(ws) ==
    /\ \A t \in Targets : wanted[t] \in Columns(ws) /\ ws.column[t] # 0
    /\ \A t, u \in Targets : ws.column[t] = ws.column[u] => t = u

\* If nobody interferes and no call fails, the passes the code allows are
\* enough for every arrangement of the workspace that can be ordered at all
\* (lines 635-646: "each corrective high-to-low move leaves lower fixed
\* indices untouched").
OrderConverges == trouble = 0 /\ Feasible(real) => run.result # "degraded"

\* Once an action has had another effect than was expected, because somebody
\* was quicker than the observation before it, and nobody has set that right,
\* the executor neither orders any further nor reports that the columns were
\* restored, whatever it was that happened (lines 653-704, 756-776).
StopsWhenAstray == astray => run.pc \notin Acting /\ run.result # "applied"

=============================================================================
