-------------------------------- MODULE Resume --------------------------------
(***************************************************************************)
(* The two phases of a resume (Executor.Apply): the terminals are launched *)
(* and placed (ResumeExecutor), and the columns of a workspace are ordered *)
(* (ColumnOrdering).                                                       *)
(*                                                                         *)
(* The phases share no state but the desktop, and the second starts from a *)
(* new observation of it.  What the first one knew of the desktop says     *)
(* nothing about columns, so the second begins in any arrangement; it is   *)
(* followed after one of the resumes, which is the last.                   *)
(***************************************************************************)
EXTENDS ResumeExecutor

CONSTANTS
    Windows,         \* windows that may be on the workspace that is ordered
    Targets,         \* those that are to be ordered
    MaxDisturbances  \* bound on what the user does meanwhile

VARIABLES real, wanted, run, trouble, astray

Columns == INSTANCE ColumnOrdering

ASSUME ColumnConstants == Columns!OrderingConstants

ordering == <<real, wanted, run, trouble, astray>>

Unordered == [pc |-> "off", result |-> "none"]

NotOrdering == {"off", "observing"}

InitResume ==
    /\ Init
    /\ real = None /\ wanted = None /\ run = Unordered /\ trouble = 0 /\ astray = FALSE

Place == Next /\ UNCHANGED ordering

\* Phase one is over, and nothing of it is kept.
HandOver ==
    /\ resume.pc = "order" /\ run' = [Unordered EXCEPT !.pc = "observing"]
    /\ history' = None /\ now' = 0 /\ zellij' = None /\ kitty' = Empty
    /\ windows' = Empty /\ launched' = Empty
    /\ lively' = {} /\ mishaps' = 0 /\ resume' = NotRunning
    /\ UNCHANGED <<real, wanted, trouble, astray>>

BeginOrdering ==
    /\ run.pc = "observing"
    /\ real' \in Columns!Workspaces /\ wanted' \in Columns!Unstacked
    /\ run' = Columns!Ordering(real')
    /\ UNCHANGED <<trouble, astray, vars>>

Order == run.pc \notin NotOrdering /\ Columns!Next /\ UNCHANGED vars

NextResume ==
    \/ run = Unordered /\ Place
    \/ run = Unordered /\ HandOver
    \/ BeginOrdering
    \/ Order

ResumeSpec == InitResume /\ [][NextResume]_<<vars, ordering>>

-----------------------------------------------------------------------------
(* Properties of the ordering; those of the launches are OneClient,        *)
(* LeftOpenAttached, CalmResult, RaisesOnlyAllowed and LaunchesOnlyMissing.*)

\* The passes are enough for every arrangement that can be ordered
\* (ColumnOrdering, lines 635-646 of executor.go).
Converges == run.pc \notin NotOrdering => Columns!OrderConverges

\* After an action that had another effect than was expected, the executor
\* neither acts again nor reports success, unless somebody has changed the
\* workspace since (lines 653-704, 756-776 of executor.go).
StopsWhenAstray == Columns!StopsWhenAstray

=============================================================================
