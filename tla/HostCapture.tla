----------------------------- MODULE HostCapture -----------------------------
(***************************************************************************)
(* How a source host makes the snapshot that a client reads (redeem mirror *)
(* snapshot): Niri's windows, then its workspaces, then what runs below    *)
(* each window, then Zellij's catalog.  These are four looks at a host     *)
(* that goes on changing, so a host is what each of them found:            *)
(*                                                                         *)
(*   profile   the profile                                                 *)
(*   spaces    the workspaces, [id, index, name], or None: unreadable      *)
(*   windows   [id, app, space, pos, clients, title]: app "kitty",         *)
(*             "terminal" or "other"; clients, the sessions attached to by *)
(*             exact command lines below it, or None if /proc changed      *)
(*             meanwhile; title, the session its title names               *)
(*   listed    what zellij list-sessions names, exited sessions included   *)
(*   catalog   each session's status in the catalog                        *)
(*   births    the identity of each active session's socket                *)
(***************************************************************************)
EXTENDS HostSnapshot

ByIndex(spaces) ==
    SortSeq(spaces, LAMBDA a, b : a.index < b.index \/ (a.index = b.index /\ a.id < b.id))

\* The workspace of a window as far as the listing knows it.
WorkspaceRef(h, id) ==
    LET found == IF h.spaces = None THEN <<>> ELSE SelectSeq(h.spaces, LAMBDA v : v.id = id)
    IN IF found = <<>> THEN [id |-> id, index |-> 0, name |-> None] ELSE Last(found)

\* One exact client, or else a title that names a session Zellij lists.
CapturedTag(h, w) ==
    IF w.app = "other" \/ w.clients = None THEN None
    ELSE CASE Cardinality(w.clients) = 1 -> CHOOSE x \in w.clients : TRUE
           [] w.clients = {} /\ w.title \in h.listed -> w.title
           [] OTHER -> None

\* Unknown workspaces come last; then by place, then by window ID.
LessWindow(h, v, w) ==
    LET place(x) == LET index == WorkspaceRef(h, x.space).index
                    IN <<IF index > 0 THEN 0 ELSE 1, index, x.pos[1], x.pos[2], x.id>>
    IN \E k \in 1..5 : /\ \A j \in 1..(k - 1) : place(v)[j] = place(w)[j]
                       /\ place(v)[k] < place(w)[k]

ShownWindows(h) ==
    LET ordered == SortSeq(h.windows, LAMBDA v, w : LessWindow(h, v, w))
        Shown(i) == LET w == ordered[i]
                        tag == CapturedTag(h, w)
                    IN [order |-> i - 1, id |-> w.id, top |-> tag, terminal |-> tag,
                        headless |-> FALSE, kitty |-> w.app = "kitty",
                        space |-> WorkspaceRef(h, w.space)]
    IN [i \in DOMAIN ordered |-> Shown(i)]

\* Every session has to be either active, with the identity of its socket, or
\* dead; one that is neither makes the whole inventory uncertain.
CertainCatalog(h) ==
    \A x \in DOMAIN h.catalog :
        \/ h.catalog[x] = "active" /\ h.births[x] # None
        \/ h.catalog[x] = "dead_resurrectable"

ActiveIn(h) == {x \in DOMAIN h.catalog : h.catalog[x] = "active"}

\* The active sessions that no window shows come after the windows.
Headless(h, session, order) ==
    [order |-> order, id |-> None, top |-> session, terminal |-> session, headless |-> TRUE,
     kitty |-> FALSE, space |-> None]

\* names puts sessions in their order.
Capture(h, names) ==
    LET active == SelectSeq(names, LAMBDA x : x \in ActiveIn(h))
        shown == ShownWindows(h)
        unseen == SelectSeq(active, LAMBDA x : \A i \in DOMAIN shown : SessionName(shown[i]) # x)
        hidden == [i \in DOMAIN unseen |-> Headless(h, unseen[i], Len(shown) + i - 1)]
        snapshot == [profile |-> h.profile, hasSpaces |-> h.spaces # None, hasActive |-> TRUE,
                     hasIds |-> TRUE, spaces |-> IF h.spaces = None THEN <<>> ELSE ByIndex(h.spaces),
                     active |-> active, ids |-> [x \in ActiveIn(h) |-> h.births[x]],
                     windows |-> shown \o hidden]
    IN IF CertainCatalog(h) /\ ValidInventory(snapshot) THEN snapshot ELSE None

=============================================================================
