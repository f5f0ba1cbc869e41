----------------------------- MODULE ResumePlanner -----------------------------
(***************************************************************************)
(* What a resume decides before it acts (internal/resume/planner.go,       *)
(* planner_all.go): which checkpoint it goes by, which of the sessions     *)
(* there are candidates, and for each of them whether a Kitty is to be     *)
(* launched and on which workspace.  Pure operators.                       *)
(*                                                                         *)
(* A workspace is [id, name, output, index]; a reference to one has a name,*)
(* an output, both or neither, and an index, 0 if it is unknown.  The      *)
(* windows of a checkpoint are a sequence in the order of their keys, each *)
(* with the session it was tagged with, if any.                            *)
(***************************************************************************)
EXTENDS Integers, Sequences

CONSTANTS
    None,     \* no name, no session, no workspace, no checkpoint
    Names,    \* the session names in their order
    MaxAge    \* how old a checkpoint may be (--max-age)

Sessions == {Names[i] : i \in DOMAIN Names}

\* The elements of s that are in S, in their order.
Chosen(s, S) ==
    LET first[n \in 0..Len(s)] == IF n = 0 THEN <<>>
                                  ELSE IF s[n] \in S THEN Append(first[n - 1], s[n]) ELSE first[n - 1]
    IN first[Len(s)]

NoRef == [name |-> None, output |-> None, index |-> 0]

-----------------------------------------------------------------------------
(* Zellij.                                                                 *)

\* Of a session, listed says whether Zellij listed it as live, and server
\* what its socket and its resurrection entry say a moment later.
CatalogStatus(listed, server) ==
    CASE server = "foreign" -> "socket_invalid"
      [] server = "running" -> IF listed THEN "active" ELSE "duplicate"
      [] server = "exited" /\ ~listed -> "dead_resurrectable"
      [] OTHER -> "missing"

\* list-sessions --short also names sessions that can be resurrected.
Available(zellij) == {x \in Sessions : zellij[x] \in {"running", "exited"}}

-----------------------------------------------------------------------------
(* The checkpoint.                                                         *)

Latest(history, S) ==
    IF S = {} THEN None
    ELSE history[CHOOSE i \in S :
            \A j \in S : \/ history[i].at > history[j].at
                         \/ history[i].at = history[j].at /\ i <= j]

Mine(history) == {i \in DOMAIN history : history[i].mine}

OfBoot(history, boot) == {i \in Mine(history) : history[i].boot = boot}

Selection(status, source, checkpoint) ==
    [status |-> status, source |-> source, checkpoint |-> checkpoint]

Aged(checkpoint, now) == now - checkpoint.at > MaxAge

Captured(checkpoint) == SelectSeq(checkpoint.windows, LAMBDA w : w.terminal)

\* The newest checkpoint of another boot, even if an older one has more in it.
Select(history, boot, now) ==
    LET prior == Latest(history, Mine(history) \ OfBoot(history, boot)) IN
    Selection(IF prior = None THEN "not_found"
              ELSE IF Aged(prior, now) THEN "stale"
              ELSE IF Captured(prior) = <<>> THEN "empty" ELSE "ready",
              "visible", prior)

SelectAll(history, boot, now) ==
    LET current == Latest(history, OfBoot(history, boot))
        prior == Latest(history, Mine(history) \ OfBoot(history, boot))
    IN IF current # None THEN Selection("ready", "current", current)
       ELSE Selection(IF prior = None THEN "not_found"
                      ELSE IF prior.active = {} THEN "empty"
                      ELSE IF Aged(prior, now) THEN "stale" ELSE "ready",
                      "prior", prior)

-----------------------------------------------------------------------------
(* Workspaces.                                                             *)

First(S) ==
    CHOOSE w \in S : \A v \in S : w.index < v.index \/ (w.index = v.index /\ w.id <= v.id)

\* By name, else by output and index, else by index alone.
ResolveWorkspace(ref, spaces) ==
    LET named == {w \in spaces : ref.name # None /\ w.name = ref.name}
        indexed == {w \in spaces : ref.index > 0 /\ w.index = ref.index}
        placed == {w \in indexed : ref.output # None /\ w.output = ref.output}
    IN IF named # {} THEN First(named)
       ELSE IF placed # {} THEN First(placed)
       ELSE IF indexed # {} THEN First(indexed) ELSE None

RefOf(w) == [name |-> w.name, output |-> w.output, index |-> w.index]

\* A window refers to its workspace, or names one of the checkpoint by its ID.
CapturedRef(window, spaces) ==
    IF window.ref # NoRef THEN window.ref
    ELSE IF \E w \in spaces : w.id = window.space
    THEN RefOf(CHOOSE w \in spaces : w.id = window.space)
    ELSE NoRef

-----------------------------------------------------------------------------
(* The plan.                                                               *)

Unresolved(policy) ==
    CASE policy = "current" -> "degraded" [] policy = "fail" -> "failed" [] OTHER -> "skipped"

\* zellij is what the catalog said of the session, for --all only.
Item(session, status, source, zellij, target) ==
    [session |-> session, status |-> status, planned |-> status, source |-> source,
     zellij |-> zellij, target |-> target]

\* Whether a candidate is open already, can be placed, or cannot.
Reconciled(x, open, target, policy) ==
    IF x \in open THEN "already_open" ELSE IF target # None THEN "ready" ELSE Unresolved(policy)

BuildEvery(selection, policy, open, available, spaces) ==
    LET windows == Captured(selection.checkpoint)
        Target(w) == ResolveWorkspace(CapturedRef(w, selection.checkpoint.spaces), spaces)
    IN [i \in DOMAIN windows |->
          Item(windows[i].session,
               IF windows[i].session \notin open \cup available THEN "unavailable"
               ELSE Reconciled(windows[i].session, open, Target(windows[i]), policy),
               "visible", None, Target(windows[i]))]

Build(selection, policy, open, available, spaces) ==
    LET checkpoint == selection.checkpoint
        windows == Captured(checkpoint)
        Target(w) == ResolveWorkspace(CapturedRef(w, checkpoint.spaces), spaces)
        Status(i) ==
            LET x == windows[i].session IN
            CASE selection.status = "stale" -> "stale"
              [] x = None -> "unavailable"
              [] \E j \in 1..(i - 1) : windows[j].session = x -> "skipped"
              [] x \notin open \cup available -> "unavailable"
              [] OTHER -> Reconciled(x, open, Target(windows[i]), policy)
    IN IF selection.status \notin {"ready", "stale"} THEN <<>>
       ELSE [i \in DOMAIN windows |->
                Item(windows[i].session, Status(i), "visible", None, Target(windows[i]))]

\* In the boot of the checkpoint every active session is a candidate, and
\* after another boot those that were active in it.
Candidates(selection, live) ==
    IF selection.source = "current" THEN {x \in Sessions : live[x] = "active"}
    ELSE selection.checkpoint.active

\* The sticky placement of a session may be missing or incomplete.
StickyTarget(sticky, spaces) ==
    IF sticky # None /\ sticky.placed THEN ResolveWorkspace(sticky.ref, spaces) ELSE None

BuildAll(selection, policy, open, live, spaces) ==
    LET candidates == Chosen(Names, Candidates(selection, live))
        Target(x) == StickyTarget(selection.checkpoint.sticky[x], spaces)
        Status(x) ==
            CASE live[x] \notin {"active", "dead_resurrectable"} -> "unavailable"
              [] live[x] # "active" /\ selection.status = "stale" -> "stale"
              [] OTHER -> Reconciled(x, open, Target(x), policy)
    IN IF selection.status \notin {"ready", "stale"} THEN <<>>
       ELSE [i \in DOMAIN candidates |->
                Item(candidates[i], Status(candidates[i]), selection.source,
                     live[candidates[i]], Target(candidates[i]))]

=============================================================================
