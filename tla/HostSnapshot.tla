---------------------------- MODULE HostSnapshot ----------------------------
(***************************************************************************)
(* What a client reads from a source host: one snapshot of its workspaces, *)
(* windows and active Zellij sessions, and the questions the mirror        *)
(* commands ask of it.  A snapshot is a value; nothing here has state.     *)
(*                                                                         *)
(*   spaces   the workspaces, [id, index, name], or none reported          *)
(*   active   the names of the active sessions                             *)
(*   ids      the exact identity of the sessions' incarnations, by name    *)
(*   windows  [order, id, top, terminal, headless, kitty, space]: top and  *)
(*            terminal are the window's two claims to a session, space the *)
(*            workspace as the window describes it                         *)
(***************************************************************************)
EXTENDS Naturals, Sequences, FiniteSets, SequencesExt

\* None stands for an empty string, a missing value and a failed lookup.
CONSTANT None

Field(rows, f) == [i \in DOMAIN rows |-> rows[i][f]]

UniqueIn(rows, f) == \A i, j \in DOMAIN rows : rows[i][f] = rows[j][f] => rows[i][f] = None \/ i = j

\* The session a window shows: its own tag, else its terminal's.
SessionName(w) == IF w.top # None THEN w.top ELSE w.terminal

AmbiguousIdentity(w) == w.top # None /\ w.terminal # None /\ w.top # w.terminal

Visible(s) == SelectSeq(s.windows, LAMBDA w : ~w.headless)

ValidInventory(s) ==
    /\ s.hasActive /\ s.hasIds
    /\ Len(s.active) = Cardinality(DOMAIN s.ids)
    /\ IsInjective(s.active)
    /\ ToSet(s.active) \subseteq DOMAIN s.ids
    /\ IsInjective(s.ids)
    /\ None \notin Range(s.ids)

\* A name alone never authorises an attachment.
ExactSessionID(s, session) ==
    IF ValidInventory(s) /\ session \in DOMAIN s.ids THEN s.ids[session] ELSE None

DecodeSnapshot(s) ==
    /\ s.hasIds => ValidInventory(s)
    /\ \A i \in DOMAIN s.windows :
          LET w == s.windows[i]
          IN IF w.headless THEN w.id = None /\ SessionName(w) # None ELSE w.id # None

ValidFollowSnapshotWindowsOnly(s) ==
    /\ s.hasSpaces /\ s.hasActive
    /\ IsInjective(Field(s.windows, "order")) /\ IsInjective(Field(Visible(s), "id"))

ValidFollowSnapshot(s) ==
    /\ s.hasSpaces /\ s.hasActive
    /\ IsInjective(Field(s.spaces, "id")) /\ IsInjective(Field(s.spaces, "index"))
    /\ UniqueIn(s.spaces, "name")
    /\ IsInjective(s.active) /\ None \notin ToSet(s.active)
    /\ IsInjective(Field(s.windows, "order"))
    /\ \A i \in DOMAIN s.windows : s.windows[i].order \in Nat
    /\ \A i \in DOMAIN s.windows : ~AmbiguousIdentity(s.windows[i])
    /\ \A i, j \in DOMAIN s.windows :
          SessionName(s.windows[i]) = SessionName(s.windows[j]) =>
             SessionName(s.windows[i]) = None \/ i = j
    /\ \A i \in DOMAIN s.windows :
          LET w == s.windows[i]
          IN IF w.headless THEN SessionName(w) \in ToSet(s.active)
                           ELSE w.id # None /\ w.space \in ToSet(s.spaces)
    /\ IsInjective(Field(Visible(s), "id"))

TerminalsOn(s, space) == {w \in ToSet(s.windows) : ~w.headless /\ w.kitty /\ w.space.id = space}

\* The sessions follow may mirror from one workspace, with their order there.
Eligible(s, space) ==
    {[session |-> SessionName(w), order |-> w.order] :
        w \in {v \in TerminalsOn(s, space) : SessionName(v) # None /\ SessionName(v) \in ToSet(s.active)}}

FollowWorkspaceChoices(s) ==
    {[space |-> v,
      visible |-> Cardinality(TerminalsOn(s, v.id)),
      eligible |-> Cardinality(Eligible(s, v.id))] : v \in ToSet(s.spaces)}

\* The sessions that can be opened.
Discover(s) ==
    {SessionName(w) : w \in {v \in ToSet(s.windows) : (v.headless \/ v.kitty) /\ SessionName(v) # None}}

\* What mirror apply requires of the active sessions; None refuses the snapshot.
ExactActiveSessions(s) ==
    IF s.hasActive /\ IsInjective(s.active) THEN ToSet(s.active) ELSE None

-----------------------------------------------------------------------------
(* What has an order is worked off in this order.                          *)

\* p is the first of S.
Leads(p, S) == p \in S /\ \A q \in S : p.order <= q.order

\* The first n of S, or all of it.
FirstOf(S, n) == {p \in S : Cardinality({q \in S : q.order < p.order}) < n}

=============================================================================
