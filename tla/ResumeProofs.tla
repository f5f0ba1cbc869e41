----------------------------- MODULE ResumeProofs -----------------------------
(***************************************************************************)
(* Proofs about a resume, for every number of sessions, windows, resumes,  *)
(* failures and acts of the user: it launches no two Kittys for the same   *)
(* session, leaves none behind that is not attached to its own, and raises *)
(* only sessions that may be raised; and of the ordering of columns: an    *)
(* action that went astray is the last one, and what the move of a column  *)
(* does to the others.                                                     *)
(***************************************************************************)
EXTENDS Resume, FiniteSetTheorems, WellFoundedInduction, TLAPS

-----------------------------------------------------------------------------
(* The invariant.                                                          *)

IsProcess(k) == k \in [runs : {k.runs}, shows : {k.shows}, starts : {k.starts}]

IsWindow(v) == v \in [pid : {v.pid}, terminal : {v.terminal}, space : {v.space}]

\* The processes that resume started have the numbers from 1 to n.
Numbered == \E n \in Nat : DOMAIN launched = 1..n

\* A window's ID names its process, and the windows of what resume started
\* are terminals.
WindowsFit ==
    /\ \A p \in DOMAIN kitty : IsProcess(kitty[p])
    /\ \A w \in DOMAIN windows :
          /\ IsWindow(windows[w]) /\ windows[w].pid \in Int /\ \E k \in {1, 2} : w = <<windows[w].pid, k>>
          /\ windows[w].pid > 0 => windows[w].pid \in DOMAIN launched /\ windows[w].terminal

\* A Kitty that resume started attaches to its session or has not done so yet.
Clients ==
    \A p \in Alive :
       /\ kitty[p].runs \in {None, launched[p]} /\ kitty[p].starts \in {None, launched[p]}
       /\ kitty[p].runs = None \/ kitty[p].starts = None

\* One whose first window was closed has no client any more.
Emptied ==
    \A p \in Alive : <<p, 2>> \in DOMAIN windows /\ <<p, 1>> \notin DOMAIN windows => ~HasClient(p)

\* It has a window, and is attached as long as its first window is there.
Settled(p) ==
    /\ kitty[p].runs = launched[p] \/ <<p, 1>> \notin DOMAIN windows
    /\ kitty[p].starts = None
    /\ WindowsOf(p) # {}

Accepted == {"place", "moved"}

Waiting == {"window", "attach", "unique"}

\* Only the Kitty that resume is waiting for may be anything else.
Left == \A p \in Alive : p # resume.pid \/ resume.pc \in Accepted => Settled(p)

Missing == \A p \in Alive : HasClient(p) => launched[p] # TheItem.session

IsResume(r) ==
    r \in [pc : {r.pc}, runs : {r.runs}, all : {r.all}, policy : {r.policy}, seen : {r.seen},
           open : {r.open}, listed : {r.listed}, selection : {r.selection}, plan : {r.plan},
           mapped : {r.mapped}, i : {r.i}, pid : {r.pid}, window : {r.window}, sure : {r.sure}]

\* What the command knows of the launch it is about.
Stage ==
    /\ IsResume(resume)
    /\ resume.pc \notin Waiting \cup Accepted => resume.pid = None
    /\ resume.pc \in {"list", "revalidate", "start"} => Missing
    /\ resume.pc \in Waiting => resume.pid \in DOMAIN launched /\ launched[resume.pid] = TheItem.session
    /\ resume.pc \in {"attach", "unique"} => \E k : resume.window = <<resume.pid, k>>

LInv == mishaps \in Nat /\ Numbered /\ WindowsFit /\ Clients /\ Emptied /\ Left /\ Stage /\ OneClient

-----------------------------------------------------------------------------
(* What the world does to the Kittys that resume started.                  *)

\* Some of them may end, one of them may attach, or lose its client with its
\* first window; none loses its last window and goes on.
Onward ==
    /\ launched' = launched /\ WindowsFit' /\ Emptied'
    /\ Alive' \subseteq Alive
    /\ \A p \in Alive' : \/ kitty'[p].runs = kitty[p].runs /\ kitty'[p].starts = kitty[p].starts
                         \/ /\ kitty[p].starts # None
                            /\ kitty'[p].runs = kitty[p].starts /\ kitty'[p].starts = None
                         \/ kitty'[p].runs = None /\ kitty'[p].starts = None
    /\ \A p \in Alive' : /\ WindowsOf(p) # {} => WindowsOf(p)' # {}
                         /\ kitty'[p].runs = None /\ kitty[p].runs # None => <<p, 1>> \notin DOMAIN windows'
                         /\ WindowsOf(p) # {} /\ <<p, 1>> \notin DOMAIN windows => <<p, 1>> \notin DOMAIN windows'

LEMMA OnwardKeeps ==
    ASSUME LInv, Onward
    PROVE  /\ Numbered' /\ WindowsFit' /\ Clients' /\ Emptied' /\ OneClient'
           /\ \A p \in Alive' : HasClient(p)' => HasClient(p)
           /\ \A p \in Alive' : Settled(p) => Settled(p)'
<1>1. Numbered'
  BY DEF LInv, Onward, Numbered
<1>2. Clients'
  BY DEF LInv, Onward, Clients
<1>3. \A p \in Alive' : HasClient(p)' => HasClient(p)
  BY DEF Onward, HasClient
<1>4. OneClient'
  BY <1>3 DEF LInv, Onward, OneClient
<1>5. ASSUME NEW p \in Alive', Settled(p)
      PROVE  Settled(p)'
  <2>1. WindowsOf(p)' # {} /\ kitty'[p].starts = None
    BY <1>5 DEF Onward, Settled
  <2>2. CASE <<p, 1>> \notin DOMAIN windows
    BY <1>5, <2>1, <2>2 DEF Onward, Settled
  <2>3. CASE kitty[p].runs = launched[p]
    <3>1. CASE kitty'[p].runs = kitty[p].runs
      BY <2>1, <2>3, <3>1 DEF Onward, Settled
    <3>2. CASE kitty'[p].runs # kitty[p].runs
      <4>1. kitty'[p].runs = None /\ kitty[p].runs # None
        BY <1>5, <3>2 DEF Onward, Settled
      <4> QED  BY <2>1, <4>1 DEF Onward, Settled
    <3> QED  BY <3>1, <3>2
  <2> QED  BY <1>5, <2>2, <2>3 DEF Settled
<1> QED  BY <1>1, <1>2, <1>3, <1>4, <1>5 DEF Onward

LEMMA WorldOn ==
    ASSUME LInv, UNCHANGED <<kitty, windows, launched>>
    PROVE  Onward
<1>1. Alive' = Alive /\ \A p : WindowsOf(p)' = WindowsOf(p)
  BY DEF Alive, WindowsOf
<1>2. WindowsFit' /\ Emptied'
  BY <1>1 DEF LInv, WindowsFit, Emptied, HasClient
<1> QED  BY <1>1, <1>2 DEF Onward

LEMMA KillOn ==
    ASSUME LInv, NEW p, Kill(p)
    PROVE  Onward /\ p \notin Alive'
<1>1. /\ DOMAIN kitty' = DOMAIN kitty \ {p} /\ \A q \in DOMAIN kitty' : kitty'[q] = kitty[q]
      /\ DOMAIN windows' = DOMAIN windows \ WindowsOf(p)
      /\ \A w \in DOMAIN windows' : windows'[w] = windows[w]
      /\ launched' = launched
  BY DEF Kill, Without
<1>2. Alive' = Alive \ {p} /\ Alive' \subseteq DOMAIN kitty'
  BY <1>1 DEF Alive
<1>3. \A q : q # p => WindowsOf(q)' = WindowsOf(q)
  BY <1>1 DEF WindowsOf
<1>4. WindowsFit'
  BY <1>1 DEF LInv, WindowsFit
<1>5. \A q \in Alive', k \in {1, 2} : <<q, k>> \in DOMAIN windows' <=> <<q, k>> \in DOMAIN windows
  BY <1>1, <1>2 DEF LInv, WindowsFit, WindowsOf
<1>6. Emptied'
  BY <1>1, <1>2, <1>5 DEF LInv, Emptied, HasClient
<1> QED  BY <1>1, <1>2, <1>3, <1>4, <1>5, <1>6 DEF Onward

LEMMA MovesOn ==
    ASSUME LInv, NEW w, NEW id, windows' = [windows EXCEPT ![w].space = id], UNCHANGED <<kitty, launched>>
    PROVE  Onward
<1>1. /\ DOMAIN windows' = DOMAIN windows
      /\ \A v \in DOMAIN windows : /\ windows'[v].pid = windows[v].pid
                                   /\ windows'[v].terminal = windows[v].terminal
                                   /\ IsWindow(windows'[v])
  BY DEF LInv, WindowsFit, IsWindow
<1>2. Alive' = Alive /\ \A p : WindowsOf(p)' = WindowsOf(p)
  BY <1>1 DEF Alive, WindowsOf
<1>3. WindowsFit' /\ Emptied'
  BY <1>1, <1>2 DEF LInv, WindowsFit, Emptied, HasClient
<1> QED  BY <1>1, <1>2, <1>3 DEF Onward

LEMMA AppearsOn ==
    ASSUME LInv, NEW p, WindowAppears(p)
    PROVE  Onward
<1>1. PICK v : /\ v.pid = p /\ v.terminal = TRUE /\ IsWindow(v)
               /\ windows' = With(windows, <<p, 1>>, v)
  <2>1. PICK id : windows' = With(windows, <<p, 1>>, [pid |-> p, terminal |-> TRUE, space |-> id])
    BY DEF WindowAppears
  <2>2. PICK v : v = [pid |-> p, terminal |-> TRUE, space |-> id]
    OBVIOUS
  <2> QED  BY <2>1, <2>2 DEF IsWindow
<1>2. p \in DOMAIN launched /\ WindowsOf(p) = {} /\ UNCHANGED <<kitty, launched>>
  BY DEF WindowAppears
<1>3. /\ DOMAIN windows' = DOMAIN windows \cup {<<p, 1>>} /\ windows'[<<p, 1>>] = v
      /\ \A w \in DOMAIN windows : windows'[w] = windows[w]
  <2>1. <<p, 1>> \notin DOMAIN windows
    BY <1>2 DEF LInv, WindowsFit, WindowsOf
  <2> QED  BY <1>1, <2>1 DEF With
<1>4. p \in Int
  BY <1>2 DEF LInv, Numbered
<1>5. WindowsFit'
  <2>1. \E k \in {1, 2} : <<p, 1>> = <<v.pid, k>>
    BY <1>1
  <2> QED  BY <1>1, <1>2, <1>3, <1>4, <2>1 DEF LInv, WindowsFit
<1>6. Alive' = Alive /\ \A q : WindowsOf(q) \subseteq WindowsOf(q)'
  BY <1>2, <1>3 DEF Alive, WindowsOf
<1>7. \A q \in Alive : q # p => (<<q, 1>> \in DOMAIN windows' <=> <<q, 1>> \in DOMAIN windows)
  BY <1>3
<1>8. Emptied'
  <2>1. \A q \in Alive : <<q, 2>> \in DOMAIN windows' => <<q, 2>> \in DOMAIN windows
    BY <1>3
  <2> QED  BY <1>2, <1>3, <1>6, <2>1 DEF LInv, Emptied, HasClient
<1> QED  BY <1>2, <1>5, <1>6, <1>7, <1>8 DEF Onward

LEMMA ClientStartsOn ==
    ASSUME LInv, NEW p, ClientStarts(p)
    PROVE  Onward
<1>1. PICK k : /\ k.runs = kitty[p].starts /\ k.starts = None /\ IsProcess(k)
               /\ kitty' = [kitty EXCEPT ![p] = k]
  <2>1. PICK k : k = [kitty[p] EXCEPT !.runs = kitty[p].starts, !.starts = None]
    OBVIOUS
  <2>2. kitty' = [kitty EXCEPT ![p] = k]
    BY <2>1 DEF ClientStarts
  <2>3. IsProcess(kitty[p])
    BY DEF ClientStarts, LInv, WindowsFit
  <2>4. k.runs = kitty[p].starts /\ k.starts = None /\ IsProcess(k)
    BY <2>1, <2>3 DEF IsProcess
  <2> QED  BY <2>2, <2>4
<1>2. p \in DOMAIN kitty /\ kitty[p].starts # None /\ UNCHANGED <<windows, launched>>
  BY DEF ClientStarts
<1>3. /\ DOMAIN kitty' = DOMAIN kitty /\ kitty'[p] = k
      /\ \A q \in DOMAIN kitty : q # p => kitty'[q] = kitty[q]
  BY <1>1, <1>2
<1>4. WindowsFit'
  BY <1>1, <1>2, <1>3 DEF LInv, WindowsFit
<1>5. Alive' = Alive /\ Alive \subseteq DOMAIN kitty /\ \A q : WindowsOf(q)' = WindowsOf(q)
  BY <1>2, <1>3 DEF Alive, WindowsOf
<1>6. Emptied'
  BY <1>2, <1>3, <1>5 DEF LInv, Emptied, HasClient
<1> QED  BY <1>1, <1>2, <1>3, <1>4, <1>5, <1>6 DEF Onward

LEMMA UserOpensOn ==
    ASSUME LInv, Fault, NEW x, NEW exact, NEW terminal, NEW id,
           UserOpens(x, exact, terminal, id)
    PROVE  Onward
<1>1. PICK p, k, v :
         /\ p = -(mishaps + 1) /\ IsProcess(k) /\ v.pid = p /\ IsWindow(v)
         /\ kitty' = With(kitty, p, k) /\ windows' = With(windows, <<p, 1>>, v)
         /\ launched' = launched
  <2>1. PICK p : p = -(mishaps + 1)
    OBVIOUS
  <2>2. PICK k : k = [runs |-> IF exact THEN x ELSE None, shows |-> IF exact THEN None ELSE x, starts |-> None]
    OBVIOUS
  <2>3. PICK v : v = [pid |-> p, terminal |-> terminal, space |-> id]
    OBVIOUS
  <2>4. IsProcess(k) /\ v.pid = p /\ IsWindow(v)
    BY <2>2, <2>3 DEF IsProcess, IsWindow
  <2>5. kitty' = With(kitty, p, k) /\ windows' = With(windows, <<p, 1>>, v) /\ launched' = launched
    BY <2>1, <2>2, <2>3 DEF UserOpens
  <2> QED  BY <2>1, <2>4, <2>5
<1>2. p \in Int /\ ~(p > 0) /\ p \notin DOMAIN launched
  BY <1>1 DEF LInv, Numbered
<1>3. /\ DOMAIN kitty' = DOMAIN kitty \cup {p} /\ kitty'[p] = k
      /\ \A q \in DOMAIN kitty : q # p => kitty'[q] = kitty[q]
  BY <1>1 DEF With
<1>4. /\ DOMAIN windows' = DOMAIN windows \cup {<<p, 1>>} /\ windows'[<<p, 1>>] = v
      /\ \A w \in DOMAIN windows : w # <<p, 1>> => windows'[w] = windows[w]
  BY <1>1 DEF With
<1>5. WindowsFit'
  <2>1. \A q \in DOMAIN kitty' : IsProcess(kitty'[q])
    BY <1>1, <1>3 DEF LInv, WindowsFit
  <2>2. \E j \in {1, 2} : <<p, 1>> = <<v.pid, j>>
    BY <1>1
  <2>3. ASSUME NEW w \in DOMAIN windows'
        PROVE  /\ IsWindow(windows'[w]) /\ windows'[w].pid \in Int /\ \E j \in {1, 2} : w = <<windows'[w].pid, j>>
               /\ windows'[w].pid > 0 => windows'[w].pid \in DOMAIN launched /\ windows'[w].terminal
    <3>1. CASE w = <<p, 1>>
      BY <1>1, <1>2, <1>4, <2>2, <3>1
    <3>2. CASE w # <<p, 1>>
      BY <1>4, <3>2 DEF LInv, WindowsFit
    <3> QED  BY <3>1, <3>2
  <2> QED  BY <1>1, <2>1, <2>3 DEF WindowsFit
<1>6. Alive' = Alive /\ Alive \subseteq DOMAIN kitty
  BY <1>1, <1>2, <1>3 DEF Alive
<1>7. \A q \in Alive : WindowsOf(q) \subseteq WindowsOf(q)'
  <2>1. ASSUME NEW q \in Alive, NEW w \in DOMAIN windows, windows[w].pid = q
        PROVE  w # <<p, 1>>
    <3>1. q # p
      BY <1>2 DEF Alive
    <3> QED  BY <2>1, <3>1 DEF LInv, WindowsFit
  <2> QED  BY <1>4, <2>1 DEF WindowsOf
<1>8. \A q \in Alive, j \in {1, 2} : <<q, j>> \in DOMAIN windows' <=> <<q, j>> \in DOMAIN windows
  <2>1. \A q \in Alive : q # p
    BY <1>2 DEF Alive
  <2> QED  BY <1>4, <2>1
<1>9. Emptied' /\ \A q \in Alive : kitty'[q] = kitty[q]
  <2>1. \A q \in Alive : q # p
    BY <1>2 DEF Alive
  <2> QED  BY <1>3, <1>6, <1>8, <2>1 DEF LInv, Emptied, HasClient
<1> QED  BY <1>1, <1>2, <1>5, <1>6, <1>7, <1>8, <1>9 DEF Onward

LEMMA CloseOn ==
    ASSUME LInv, NEW p, NEW w, w \in DOMAIN windows => windows[w].pid = p, w = <<p, 1>> \/ w \in DOMAIN windows,
           CloseWindow(p, w)
    PROVE  Onward
<1>1. /\ DOMAIN windows' = DOMAIN windows \ {w}
      /\ \A v \in DOMAIN windows' : windows'[v] = windows[v]
      /\ launched' = launched
  BY DEF CloseWindow, Without
<1>2. /\ \A q : q # p => WindowsOf(q)' = WindowsOf(q)
      /\ WindowsOf(p)' = WindowsOf(p) \ {w}
  BY <1>1 DEF WindowsOf
<1>3. \A q, k : q # p => (<<q, k>> \in DOMAIN windows' <=> <<q, k>> \in DOMAIN windows)
  <2>1. \E k : w = <<p, k>>
    BY DEF LInv, WindowsFit
  <2> QED  BY <1>1, <2>1
<1>4. CASE WindowsOf(p) \subseteq {w}
  <2>1. DOMAIN kitty' = DOMAIN kitty \ {p} /\ \A q \in DOMAIN kitty' : kitty'[q] = kitty[q]
    BY <1>4 DEF CloseWindow, Without
  <2>2. Alive' = Alive \ {p} /\ Alive' \subseteq DOMAIN kitty'
    BY <1>1, <2>1 DEF Alive
  <2>3. WindowsFit' /\ Emptied'
    BY <1>1, <1>3, <2>1, <2>2 DEF LInv, WindowsFit, Emptied, HasClient
  <2> QED  BY <1>1, <1>2, <1>3, <2>1, <2>2, <2>3 DEF Onward
<1>5. CASE ~(WindowsOf(p) \subseteq {w}) /\ w = <<p, 1>>
  <2>1. PICK none : none = NoClient
    OBVIOUS
  <2>2. none.runs = None /\ none.starts = None /\ IsProcess(none)
    BY <2>1 DEF NoClient, IsProcess
  <2>3. /\ DOMAIN kitty' = DOMAIN kitty
        /\ \A q \in DOMAIN kitty : kitty'[q] = IF q = p THEN none ELSE kitty[q]
    BY <1>5, <2>1 DEF CloseWindow
  <2>4. Alive' = Alive /\ Alive \subseteq DOMAIN kitty
    BY <1>1, <2>3 DEF Alive
  <2>5. WindowsFit' /\ Emptied'
    BY <1>1, <1>3, <2>2, <2>3, <2>4 DEF LInv, WindowsFit, Emptied, HasClient
  <2>6. WindowsOf(p)' # {} /\ <<p, 1>> \notin DOMAIN windows'
    BY <1>1, <1>2, <1>5
  <2> QED  BY <1>1, <1>2, <1>3, <2>2, <2>3, <2>4, <2>5, <2>6 DEF Onward
<1>6. CASE ~(WindowsOf(p) \subseteq {w}) /\ w # <<p, 1>>
  <2>1. /\ DOMAIN kitty' = DOMAIN kitty /\ \A q \in DOMAIN kitty : kitty'[q] = kitty[q]
        /\ Alive' = Alive /\ Alive \subseteq DOMAIN kitty
    <3>1. \A q : w # <<q, 1>>
      BY <1>6 DEF LInv, WindowsFit
    <3> QED  BY <1>1, <1>6, <3>1 DEF CloseWindow, Alive
  <2>2. <<p, 1>> \in DOMAIN windows' <=> <<p, 1>> \in DOMAIN windows
    BY <1>1, <1>6
  <2>3. WindowsFit' /\ Emptied'
    BY <1>1, <1>3, <2>1, <2>2 DEF LInv, WindowsFit, Emptied, HasClient
  <2> QED  BY <1>1, <1>2, <1>3, <1>6, <2>1, <2>2, <2>3 DEF Onward
<1> QED  BY <1>4, <1>5, <1>6

LEMMA UserClosesOn ==
    ASSUME LInv, NEW w \in DOMAIN windows, UserCloses(w)
    PROVE  Onward
BY CloseOn DEF UserCloses

LEMMA ClientEndsOn ==
    ASSUME LInv, NEW p, ClientEnds(p)
    PROVE  Onward
<1>1. <<p, 1>> \in DOMAIN windows => windows[<<p, 1>>].pid = p
  BY DEF LInv, WindowsFit
<1> QED  BY <1>1, CloseOn DEF ClientEnds

LEMMA UserCopiesOn ==
    ASSUME LInv, NEW w \in DOMAIN windows, UserCopies(w)
    PROVE  Onward
<1>1. PICK p, v : p = windows[w].pid /\ v = windows[w]
  OBVIOUS
<1>2. UNCHANGED <<kitty, launched>> /\ windows' = With(windows, <<p, 2>>, v)
  BY <1>1 DEF UserCopies
<1>3. /\ DOMAIN windows' = DOMAIN windows \cup {<<p, 2>>} /\ windows'[<<p, 2>>] = v
      /\ \A u \in DOMAIN windows : u # <<p, 2>> => windows'[u] = windows[u]
  BY <1>2 DEF With
<1>4. /\ IsWindow(v) /\ v.pid = p /\ p \in Int /\ \E k \in {1, 2} : <<p, 2>> = <<p, k>>
      /\ p > 0 => p \in DOMAIN launched /\ v.terminal
  BY <1>1 DEF LInv, WindowsFit
<1>5. WindowsFit'
  <2>1. ASSUME NEW u \in DOMAIN windows'
        PROVE  /\ IsWindow(windows'[u]) /\ windows'[u].pid \in Int /\ \E k \in {1, 2} : u = <<windows'[u].pid, k>>
               /\ windows'[u].pid > 0 => windows'[u].pid \in DOMAIN launched /\ windows'[u].terminal
    <3>1. CASE u = <<p, 2>>
      BY <1>3, <1>4, <3>1
    <3>2. CASE u # <<p, 2>>
      BY <1>3, <3>2 DEF LInv, WindowsFit
    <3> QED  BY <3>1, <3>2
  <2> QED  BY <1>2, <2>1 DEF LInv, WindowsFit
<1>6. \A q : WindowsOf(q) # {} => WindowsOf(q)' # {}
  <2>1. ASSUME NEW q, NEW u \in WindowsOf(q)
        PROVE  u \in WindowsOf(q)'
    <3>1. CASE u = <<p, 2>>
      <4>1. windows[u].pid = p /\ windows[u].pid = q
        BY <3>1 DEF LInv, WindowsFit, WindowsOf
      <4> QED  BY <1>3, <1>4, <3>1, <4>1 DEF WindowsOf
    <3>2. CASE u # <<p, 2>>
      BY <1>3, <3>2 DEF WindowsOf
    <3> QED  BY <3>1, <3>2
  <2> QED  BY <2>1
<1>7. Alive' = Alive
  BY <1>2 DEF Alive
<1>8. \A q : <<q, 1>> \in DOMAIN windows' <=> <<q, 1>> \in DOMAIN windows
  BY <1>3
<1>9. Emptied'
  <2>1. <<p, 1>> \in DOMAIN windows
    BY <1>1 DEF UserCopies, WindowsOf
  <2>2. \A q : q # p /\ <<q, 2>> \in DOMAIN windows' => <<q, 2>> \in DOMAIN windows
    BY <1>3
  <2> QED  BY <1>2, <1>7, <1>8, <2>1, <2>2 DEF LInv, Emptied, HasClient
<1> QED  BY <1>2, <1>5, <1>6, <1>7, <1>8, <1>9 DEF Onward

LEMMA UserStepOn ==
    ASSUME LInv, Fault, UserStep
    PROVE  Onward
<1>1. CASE \E x \in Sessions, exact, terminal \in BOOLEAN, id \in SpaceIDs :
              UserOpens(x, exact, terminal, id)
  BY <1>1, UserOpensOn
<1>2. CASE \E w \in DOMAIN windows : UserCloses(w)
  BY <1>2, UserClosesOn
<1>3. CASE \E w \in DOMAIN windows : UserCopies(w)
  BY <1>3, UserCopiesOn
<1>4. CASE \E w \in DOMAIN windows, id \in SpaceIDs : UserMoves(w, id)
  BY <1>4, MovesOn DEF UserMoves
<1>5. CASE \E x \in Sessions : SessionEnds(x)
  BY <1>5, WorldOn DEF SessionEnds
<1> QED  BY <1>1, <1>2, <1>3, <1>4, <1>5 DEF UserStep

\* While the command does nothing, all it knows stays so.
LEMMA AsideKeeps ==
    ASSUME LInv, Onward, UNCHANGED resume, mishaps' \in Nat
    PROVE  LInv'
<1>1. /\ Numbered' /\ WindowsFit' /\ Clients' /\ Emptied' /\ OneClient'
      /\ \A p \in Alive' : HasClient(p)' => HasClient(p)
      /\ \A p \in Alive' : Settled(p) => Settled(p)'
  BY OnwardKeeps
<1>2. Left'
  BY <1>1 DEF LInv, Left, Onward
<1>3. TheItem' = TheItem /\ launched' = launched /\ Alive' \subseteq Alive
  BY DEF TheItem, Onward
<1>4. Missing => Missing'
  BY <1>1, <1>3 DEF Missing
<1>5. Stage'
  BY <1>3, <1>4 DEF LInv, Stage, IsResume
<1> QED  BY <1>1, <1>2, <1>5 DEF LInv

LEMMA KittyActsOn ==
    ASSUME LInv, KittyActs
    PROVE  Onward
BY AppearsOn, ClientStartsOn, ClientEndsOn DEF KittyActs

LEMMA OthersKeep ==
    ASSUME LInv, UserActs \/ TimePasses \/ KittyActs
    PROVE  LInv'
<1>1. CASE UserActs
  <2>1. Onward
    BY <1>1, UserStepOn DEF UserActs
  <2>2. mishaps' \in Nat
    BY <1>1 DEF UserActs, Fault, LInv
  <2> QED  BY <1>1, <2>1, <2>2, AsideKeeps DEF UserActs
<1>2. CASE TimePasses
  <2>1. Onward
    BY <1>2, WorldOn DEF TimePasses
  <2> QED  BY <1>2, <2>1, AsideKeeps DEF TimePasses, Calm, LInv
<1>3. CASE KittyActs
  BY <1>3, KittyActsOn, AsideKeeps DEF KittyActs, Calm, LInv
<1> QED  BY <1>1, <1>2, <1>3

-----------------------------------------------------------------------------
(* Steps of the command.                                                   *)

Counted == Calm \/ Fault \/ Slow

LEMMA CountedNat == ASSUME LInv, Counted PROVE mishaps' \in Nat
BY DEF LInv, Counted, Calm, Fault, Slow

\* The command waits for no Kitty any more: the one it waited for is
\* attached, or gone.
LEMMA Relaxed ==
    ASSUME LInv, Onward, Counted, IsResume(resume'), resume'.pc \notin Waiting,
           resume'.pc \in Accepted \/ resume'.pid = None,
           resume'.pc \in {"list", "revalidate", "start"} => Missing',
           resume.pid \in Alive' => Settled(resume.pid)
    PROVE  LInv'
<1>1. /\ Numbered' /\ WindowsFit' /\ Clients' /\ Emptied' /\ OneClient'
      /\ \A p \in Alive' : HasClient(p)' => HasClient(p)
      /\ \A p \in Alive' : Settled(p) => Settled(p)'
  BY OnwardKeeps
<1>2. \A p \in Alive' : Settled(p)'
  <2>1. \A p \in Alive' : Settled(p)
    BY DEF LInv, Left, Onward
  <2> QED  BY <1>1, <2>1
<1>3. Left'
  BY <1>2 DEF Left
<1>4. Stage'
  BY DEF Stage, IsResume, Waiting
<1> QED  BY <1>1, <1>3, <1>4, CountedNat DEF LInv

\* The command goes on waiting for the same one.
LEMMA WaitsOn ==
    ASSUME LInv, Onward, Counted, resume.pc \in Waiting, IsResume(resume'), resume'.pc \in Waiting,
           resume'.pid = resume.pid, resume'.plan = resume.plan, resume'.i = resume.i,
           resume'.pc \in {"attach", "unique"} => \E k : resume'.window = <<resume.pid, k>>
    PROVE  LInv'
<1>1. /\ Numbered' /\ WindowsFit' /\ Clients' /\ Emptied' /\ OneClient'
      /\ \A p \in Alive' : HasClient(p)' => HasClient(p)
      /\ \A p \in Alive' : Settled(p) => Settled(p)'
  BY OnwardKeeps
<1>2. resume.pc \notin Accepted /\ resume'.pc \notin Accepted /\ resume'.pc \notin {"list", "revalidate", "start"}
  BY DEF Waiting, Accepted
<1>3. Left'
  BY <1>1, <1>2 DEF LInv, Left, Onward
<1>4. TheItem' = TheItem /\ launched' = launched
  BY DEF TheItem, Onward
<1>5. Stage'
  BY <1>2, <1>4 DEF LInv, Stage, IsResume
<1> QED  BY <1>1, <1>3, <1>5, CountedNat DEF LInv

LEMMA ConcludeFields ==
    ASSUME IsResume(resume), NEW status, Conclude(status)
    PROVE  IsResume(resume') /\ resume'.pc = "item" /\ resume'.pid = None /\ resume'.all = resume.all
<1>1. PICK plan, i : resume' = [resume EXCEPT !.pc = "item", !.i = i, !.plan = plan, !.pid = None,
                                              !.window = None, !.sure = 0]
  BY DEF Conclude
<1> QED  BY <1>1 DEF IsResume

LEMMA AdoptFields ==
    ASSUME IsResume(resume), NEW w, Adopt(w)
    PROVE  IsResume(resume') /\ resume'.pc = "place" /\ resume'.pid = resume.pid
<1>1. PICK mapped, plan : resume' = [resume EXCEPT !.pc = "place", !.window = w, !.mapped = mapped,
                                                   !.plan = plan]
  BY DEF Adopt
<1> QED  BY <1>1 DEF IsResume

LEMMA NotRunningFields ==
    ASSUME NEW n
    PROVE  LET r == [NotRunning EXCEPT !.runs = n]
           IN IsResume(r) /\ r.pc = "idle" /\ r.pid = None /\ r.plan = <<>>
BY DEF IsResume, NotRunning

LEMMA NoneAlive ==
    ASSUME LInv
    PROVE  None \notin DOMAIN launched /\ None \notin Alive
BY ProcessNumbers DEF LInv, Numbered, Alive

\* No window of a session, no Kitty that resume started for it: this is why
\* the look before a launch is enough, though a Kitty's window comes late.
LEMMA NoWindowMissing ==
    ASSUME LInv, resume.pid = None, NEW x, SessionWindows(x) = {}
    PROVE  \A p \in Alive : HasClient(p) => launched[p] # x
<1> SUFFICES ASSUME NEW p \in Alive, HasClient(p), launched[p] = x
             PROVE  FALSE
  OBVIOUS
<1>1. Settled(p) /\ kitty[p].runs = launched[p]
  BY NoneAlive DEF LInv, Left, Settled, Clients, HasClient
<1>2. PICK w \in DOMAIN windows : windows[w].pid = p
  BY <1>1 DEF Settled, WindowsOf
<1>3. p \in DOMAIN kitty /\ p \in DOMAIN launched /\ p > 0
  BY DEF Alive, LInv, Numbered
<1>4. w \in SessionWindows(x)
  BY <1>1, <1>2, <1>3 DEF SessionWindows, AllAttachedSessionWindows, Attached, Settled, LInv, WindowsFit
<1> QED  BY <1>4

\* Steps before a launch: nobody is waited for.
LEMMA IdleKeeps ==
    ASSUME LInv, Counted, UNCHANGED world, resume.pid = None, IsResume(resume'),
           resume'.pc \notin Waiting, resume'.pid = None,
           resume'.pc \in {"list", "revalidate", "start"} => Missing'
    PROVE  LInv'
<1>1. Onward
  BY WorldOn DEF world
<1>2. resume.pid \notin Alive'
  BY <1>1, NoneAlive DEF Onward
<1> QED  BY <1>1, <1>2, Relaxed

LEMMA PlanningKeeps ==
    ASSUME LInv,
           Start \/ WaitForNiri \/ Collect \/ MakePlan \/ MapExisting \/ OrderColumns \/ End
    PROVE  LInv'
<1> USE DEF At, Waiting, Accepted, Counted
<1>1. /\ UNCHANGED world /\ Counted /\ resume.pid = None
  BY DEF Start, WaitForNiri, Collect, MakePlan, MapExisting, OrderColumns, End, LInv, Stage
<1>2. IsResume(resume)
  BY DEF LInv, Stage
<1>3. /\ IsResume(resume') /\ resume'.pid = None
      /\ resume'.pc \in {"idle", "ready", "collect", "plan", "map", "item", "order"}
  <2>1. CASE Start
    BY <1>1, <1>2, <2>1 DEF Start, IsResume
  <2>2. CASE Finish
    BY <2>2, NotRunningFields DEF Finish
  <2>3. CASE WaitForNiri /\ ~Finish
    <3>1. \E selection, pc :
             /\ resume' = [resume EXCEPT !.seen = windows, !.selection = selection, !.pc = pc]
             /\ pc = "collect" \/ pc = "idle"
      BY <2>3, Zenon DEF WaitForNiri
    <3> QED  BY <1>1, <1>2, <3>1 DEF IsResume
  <2>4. CASE Collect /\ ~Finish
    BY <1>1, <1>2, <2>4 DEF Collect, IsResume
  <2>5. CASE MakePlan
    <3>1. PICK plan : resume' = [resume EXCEPT !.pc = "map", !.open = {}, !.listed = {}, !.plan = plan]
      BY <2>5 DEF MakePlan
    <3> QED  BY <1>1, <1>2, <3>1 DEF IsResume
  <2>6. CASE MapExisting
    <3>1. PICK plan, mapped : resume' = [resume EXCEPT !.pc = "item", !.i = 1, !.plan = plan, !.mapped = mapped]
      BY <2>6 DEF MapExisting
    <3> QED  BY <1>1, <1>2, <3>1 DEF IsResume
  <2>7. CASE OrderColumns
    BY <1>1, <1>2, <2>7 DEF OrderColumns, Goes, IsResume
  <2> QED  BY <2>1, <2>2, <2>3, <2>4, <2>5, <2>6, <2>7 DEF End
<1>4. resume'.pc \notin Waiting /\ resume'.pc \notin {"list", "revalidate", "start"}
  BY <1>3
<1> QED  BY <1>1, <1>3, <1>4, IdleKeeps

LEMMA NextItemKeeps ==
    ASSUME LInv, NextItem
    PROVE  LInv'
<1> USE DEF At, Waiting, Accepted, Counted
<1>1. /\ UNCHANGED world /\ Counted /\ resume.pid = None /\ IsResume(resume)
  BY DEF NextItem, LInv, Stage
<1>2. CASE \E status : Conclude(status)
  BY <1>1, <1>2, ConcludeFields, IdleKeeps
<1>3. CASE \E w : Adopt(w)
  BY <1>1, <1>3, AdoptFields, IdleKeeps
<1>4. CASE SessionWindows(TheItem.session) = {} /\ Goes(IF resume.all THEN "list" ELSE "start")
  <2>1. PICK pc : pc \in {"list", "start"} /\ resume' = [resume EXCEPT !.pc = pc]
    BY <1>4 DEF Goes
  <2>2. IsResume(resume') /\ resume'.pc = pc /\ resume'.pid = None /\ TheItem' = TheItem
    BY <1>1, <2>1 DEF IsResume, TheItem
  <2>3. \A p \in Alive : HasClient(p) => launched[p] # TheItem.session
    BY <1>1, <1>4, NoWindowMissing
  <2>4. Missing'
    BY <1>1, <2>2, <2>3 DEF Missing, Alive, HasClient, world
  <2> QED  BY <1>1, <2>1, <2>2, <2>4, IdleKeeps
<1>5. \/ \E status : Conclude(status)
      \/ \E w : Adopt(w)
      \/ SessionWindows(TheItem.session) = {} /\ Goes(IF resume.all THEN "list" ELSE "start")
  BY DEF NextItem
<1> QED  BY <1>2, <1>3, <1>4, <1>5

\* The look at the catalog before a launch changes nothing that counts.
LEMMA RevalidationKeeps ==
    ASSUME LInv, ListAgain \/ RevalidateAllCandidate
    PROVE  LInv'
<1> USE DEF At, Waiting, Accepted, Counted
<1>1. /\ UNCHANGED world /\ Counted /\ resume.pid = None /\ IsResume(resume) /\ Missing
  BY DEF ListAgain, RevalidateAllCandidate, LInv, Stage
<1>2. CASE \E status : Conclude(status)
  BY <1>1, <1>2, ConcludeFields, IdleKeeps
<1>3. CASE ~\E status : Conclude(status)
  <2>1. PICK pc, listed : /\ resume' = [resume EXCEPT !.pc = pc, !.listed = listed]
                          /\ pc = "revalidate" \/ pc = "start"
    <3>1. \/ resume' = [resume EXCEPT !.pc = "revalidate", !.listed = Running]
          \/ resume' = [resume EXCEPT !.pc = "start", !.listed = {}]
      BY <1>3 DEF ListAgain, RevalidateAllCandidate
    <3> QED  BY <3>1, Zenon
  <2>2. IsResume(resume') /\ resume'.pc = pc /\ resume'.pid = None /\ TheItem' = TheItem
    BY <1>1, <2>1 DEF IsResume, TheItem
  <2>3. Missing'
    BY <1>1, <2>2 DEF Missing, Alive, HasClient, world
  <2> QED  BY <1>1, <2>1, <2>2, <2>3, IdleKeeps
<1> QED  BY <1>2, <1>3

LEMMA StartKittyKeeps ==
    ASSUME LInv, StartKitty
    PROVE  LInv'
<1> USE DEF At, Counted
<1>1. /\ Counted /\ resume.pid = None /\ IsResume(resume) /\ Missing /\ resume.pc = "start"
  BY DEF StartKitty, LInv, Stage, Waiting, Accepted
<1>2. CASE \E status : Conclude(status) /\ UNCHANGED world
  BY <1>1, <1>2, ConcludeFields, IdleKeeps DEF Waiting
<1>3. CASE ~\E status : Conclude(status) /\ UNCHANGED world
  <2>1. PICK n \in Nat : DOMAIN launched = 1..n
    BY DEF LInv, Numbered
  <2>2. Cardinality(DOMAIN launched) = n
    BY <2>1, FS_Interval, 0 \in Nat
  <2>3. PICK p, k, x : /\ p = n + 1 /\ x = TheItem.session
                       /\ k.runs = None /\ k.starts = x /\ IsProcess(k)
                       /\ resume' = [resume EXCEPT !.pc = "window", !.pid = p]
                       /\ kitty' = With(kitty, p, k) /\ launched' = With(launched, p, x)
                       /\ windows' = windows
    <3>1. PICK k : k = [runs |-> None, shows |-> None, starts |-> TheItem.session]
      OBVIOUS
    <3>2. k.runs = None /\ k.starts = TheItem.session /\ IsProcess(k)
      BY <3>1 DEF IsProcess
    <3>3. PICK p : p = 1 + Cardinality(DOMAIN launched)
      OBVIOUS
    <3>4. p = n + 1
      BY <2>2, <3>3
    <3>5. /\ resume' = [resume EXCEPT !.pc = "window", !.pid = p]
          /\ kitty' = With(kitty, p, k) /\ launched' = With(launched, p, TheItem.session)
          /\ windows' = windows
      BY <1>3, <3>1, <3>3 DEF StartKitty
    <3> QED  BY <3>2, <3>4, <3>5
  <2>4. /\ IsResume(resume') /\ resume'.pc = "window" /\ resume'.pid = p /\ TheItem' = TheItem
    BY <1>1, <2>3 DEF IsResume, TheItem
  <2>5. p \in Nat /\ p > 0 /\ p \notin DOMAIN launched
    BY <2>1, <2>3
  <2>6. /\ DOMAIN kitty' = DOMAIN kitty \cup {p} /\ kitty'[p] = k
        /\ \A q \in DOMAIN kitty : q # p => kitty'[q] = kitty[q]
        /\ DOMAIN launched' = DOMAIN launched \cup {p} /\ launched'[p] = x
        /\ \A q \in DOMAIN launched : launched'[q] = launched[q]
    BY <2>3, <2>5 DEF With
  <2>7. /\ Alive' = Alive \cup {p} /\ p \notin Alive
        /\ \A q \in Alive : kitty'[q] = kitty[q] /\ launched'[q] = launched[q]
    BY <2>5, <2>6 DEF Alive
  <2>8. Numbered'
    <3>1. n + 1 \in Nat /\ 1..(n + 1) = (1..n) \cup {n + 1}
      OBVIOUS
    <3>2. DOMAIN launched' = (1..n) \cup {n + 1}
      BY <2>1, <2>3, <2>6
    <3> QED  BY <3>1, <3>2 DEF Numbered
  <2>9. WindowsFit'
    BY <2>3, <2>6 DEF LInv, WindowsFit
  <2>10. Clients'
    BY <2>3, <2>6, <2>7 DEF LInv, Clients
  <2>11. Left'
    <3>1. ASSUME NEW q \in Alive
          PROVE  Settled(q)'
      <4>1. Settled(q)
        BY <1>1, NoneAlive DEF LInv, Left
      <4> QED  BY <2>3, <2>7, <4>1 DEF Settled, WindowsOf
    <3> QED  BY <2>4, <2>7, <3>1 DEF Left, Accepted
  <2>12. OneClient'
    BY <1>1, <2>3, <2>6, <2>7 DEF LInv, OneClient, Missing, HasClient
  <2>13. Stage'
    BY <2>3, <2>4, <2>6 DEF Stage, IsResume, Waiting, Accepted
  <2>14. Emptied'
    <3>1. <<p, 2>> \notin DOMAIN windows
      BY <2>5 DEF LInv, WindowsFit
    <3> QED  BY <2>3, <2>7, <3>1 DEF LInv, Emptied, HasClient
  <2> QED  BY <1>1, <2>8, <2>9, <2>10, <2>11, <2>12, <2>13, <2>14, CountedNat DEF LInv
<1> QED  BY <1>2, <1>3

-----------------------------------------------------------------------------
(* Steps that wait for a Kitty.                                            *)

\* The Kitty that is waited for ends, or is killed, and the item fails.
LEMMA GivenUpKeeps ==
    ASSUME LInv, Onward, Counted, NEW status, Conclude(status), resume.pid \notin Alive'
    PROVE  LInv'
<1>1. IsResume(resume') /\ resume'.pc = "item" /\ resume'.pid = None
  BY ConcludeFields DEF LInv, Stage
<1> QED  BY <1>1, Relaxed DEF Waiting

LEMMA DeadKeeps ==
    ASSUME LInv, Dead, UNCHANGED world, Counted, NEW status, Conclude(status)
    PROVE  LInv'
<1>1. Onward
  BY WorldOn DEF world
<1>2. resume.pid \notin Alive'
  BY DEF Alive, Dead, world
<1> QED  BY <1>1, <1>2, GivenUpKeeps

LEMMA KilledKeeps ==
    ASSUME LInv, Counted, NEW status, KilledAs(status)
    PROVE  LInv'
BY KillOn, GivenUpKeeps DEF KilledAs

\* A process has at most two windows, so that one that is counted can be
\* named.
LEMMA OneWindow ==
    ASSUME LInv, NEW p, Cardinality(WindowsOf(p)) = 1
    PROVE  \E k : TheOnly(WindowsOf(p)) = <<p, k>>
<1>1. WindowsOf(p) \subseteq {<<p, 1>>, <<p, 2>>}
  BY DEF LInv, WindowsFit, WindowsOf
<1>2. IsFiniteSet({<<p, 1>>, <<p, 2>>})
  <2>1. IsFiniteSet({<<p, 1>>} \cup {<<p, 2>>})
    BY FS_AddElement, FS_Singleton, Zenon
  <2>2. {<<p, 1>>, <<p, 2>>} = {<<p, 1>>} \cup {<<p, 2>>}
    OBVIOUS
  <2> QED  BY <2>1, <2>2
<1>3. IsFiniteSet(WindowsOf(p))
  BY <1>1, <1>2, FS_Subset
<1>4. PICK w : WindowsOf(p) = {w}
  BY <1>3, FS_Singleton
<1>5. TheOnly(WindowsOf(p)) \in WindowsOf(p)
  BY <1>4 DEF TheOnly
<1> QED  BY <1>1, <1>5

LEMMA WaitForWindowKeeps ==
    ASSUME LInv, WaitForWindow
    PROVE  LInv'
<1> USE DEF Counted
<1>1. CASE Dead /\ UNCHANGED world /\ Calm /\ \E status : Conclude(status)
  BY <1>1, DeadKeeps
<1>2. CASE (Calm \/ Slow) /\ \E status : KilledAs(status)
  BY <1>2, KilledKeeps
<1>3. CASE /\ Cardinality(WindowsOf(resume.pid)) = 1 /\ Calm /\ UNCHANGED world
           /\ resume' = [resume EXCEPT !.pc = "attach", !.window = TheOnly(WindowsOf(resume.pid))]
  <2>1. PICK w : w = TheOnly(WindowsOf(resume.pid)) /\ \E k : w = <<resume.pid, k>>
    BY <1>3, OneWindow
  <2>2. resume' = [resume EXCEPT !.pc = "attach", !.window = w]
    BY <1>3, <2>1
  <2>3. /\ IsResume(resume') /\ resume'.pc = "attach" /\ resume'.pid = resume.pid /\ resume'.window = w
        /\ resume'.plan = resume.plan /\ resume'.i = resume.i
    BY <2>2 DEF LInv, Stage, IsResume
  <2>4. resume.pc \in Waiting /\ resume'.pc \in Waiting
    BY <2>3 DEF WaitForWindow, At, Waiting
  <2> QED  BY <1>3, <2>1, <2>3, <2>4, WorldOn, WaitsOn DEF world
<1> QED  BY <1>1, <1>2, <1>3 DEF WaitForWindow

LEMMA WaitForAttachmentKeeps ==
    ASSUME LInv, WaitForAttachment
    PROVE  LInv'
<1> USE DEF Counted
<1>1. CASE Dead /\ UNCHANGED world /\ Calm /\ \E status : Conclude(status)
  BY <1>1, DeadKeeps
<1>2. CASE (Calm \/ Slow) /\ \E status : KilledAs(status)
  BY <1>2, KilledKeeps
<1>3. ASSUME UNCHANGED world, Counted, NEW pc \in {"attach", "unique"}, NEW sure,
             resume' = [resume EXCEPT !.pc = pc, !.sure = sure]
      PROVE  LInv'
  <2>2. /\ IsResume(resume') /\ resume'.pc = pc /\ resume'.pid = resume.pid /\ resume'.window = resume.window
        /\ resume'.plan = resume.plan /\ resume'.i = resume.i
    BY <1>3 DEF LInv, Stage, IsResume
  <2>3. resume.pc = "attach" /\ resume.pc \in Waiting /\ resume'.pc \in Waiting
    BY <1>3, <2>2 DEF WaitForAttachment, At, Waiting
  <2> QED  BY <1>3, <2>2, <2>3, WorldOn, WaitsOn DEF world, LInv, Stage
<1>4. \/ Dead /\ UNCHANGED world /\ Calm /\ \E status : Conclude(status)
      \/ (Calm \/ Slow) /\ \E status : KilledAs(status)
      \/ UNCHANGED world /\ Calm /\ resume' = [resume EXCEPT !.pc = "unique"]
      \/ UNCHANGED world /\ Calm /\ resume' = [resume EXCEPT !.sure = @ + 1]
      \/ UNCHANGED world /\ Counted /\ resume' = [resume EXCEPT !.sure = 0]
  BY DEF WaitForAttachment
<1>5. /\ IsResume(resume) /\ resume.pc = "attach"
      /\ [resume EXCEPT !.pc = "unique"] = [resume EXCEPT !.pc = "unique", !.sure = resume.sure]
      /\ [resume EXCEPT !.sure = @ + 1] = [resume EXCEPT !.pc = "attach", !.sure = resume.sure + 1]
      /\ [resume EXCEPT !.sure = 0] = [resume EXCEPT !.pc = "attach", !.sure = 0]
  BY DEF LInv, Stage, IsResume, WaitForAttachment, At
<1>6. CASE /\ UNCHANGED world /\ Counted
           /\ \/ resume' = [resume EXCEPT !.pc = "unique"]
              \/ resume' = [resume EXCEPT !.sure = @ + 1]
              \/ resume' = [resume EXCEPT !.sure = 0]
  <2>1. CASE resume' = [resume EXCEPT !.pc = "unique", !.sure = resume.sure]
    BY <1>3, <1>6, <2>1
  <2>2. CASE resume' = [resume EXCEPT !.pc = "attach", !.sure = resume.sure + 1]
    BY <1>3, <1>6, <2>2
  <2>3. CASE resume' = [resume EXCEPT !.pc = "attach", !.sure = 0]
    BY <1>3, <1>6, <2>3
  <2> QED  BY <1>5, <1>6, <2>1, <2>2, <2>3
<1> QED  BY <1>1, <1>2, <1>4, <1>6

\* The window that is alone with the session is one of the Kitty's.
LEMMA UniqueKeeps ==
    ASSUME LInv, RevalidateUniqueLaunchedAttachment
    PROVE  LInv'
<1> USE DEF Counted
<1>1. CASE (Calm \/ Fault) /\ \E status : KilledAs(status)
  BY <1>1, KilledKeeps
<1>2. CASE /\ AllAttachedSessionWindows(TheItem.session) = {resume.window} /\ Calm /\ UNCHANGED world
           /\ resume' = [resume EXCEPT !.pc = "place", !.mapped[resume.i] = resume.window]
  <2>1. PICK mapped : resume' = [resume EXCEPT !.pc = "place", !.mapped = mapped]
    BY <1>2
  <2>2. IsResume(resume') /\ resume'.pc = "place"
    BY <2>1 DEF LInv, Stage, IsResume
  <2>3. resume.pc = "unique" /\ launched[resume.pid] = TheItem.session
    BY DEF RevalidateUniqueLaunchedAttachment, At, LInv, Stage, Waiting
  <2>4. Onward /\ Alive' = Alive
    BY <1>2, WorldOn DEF world, Alive
  <2>5. ASSUME resume.pid \in Alive
        PROVE  Settled(resume.pid)
    <3>1. PICK w : w = resume.window /\ \E k : w = <<resume.pid, k>>
      BY <2>3 DEF LInv, Stage
    <3>2. w \in DOMAIN windows /\ kitty[windows[w].pid].runs = TheItem.session
      BY <1>2, <3>1 DEF AllAttachedSessionWindows, Attached
    <3>3. windows[w].pid = resume.pid
      BY <3>1, <3>2 DEF LInv, WindowsFit
    <3>4. kitty[resume.pid].runs = launched[resume.pid] /\ kitty[resume.pid].starts = None
      BY <2>3, <2>5, <3>2, <3>3 DEF LInv, Clients
    <3> QED  BY <3>2, <3>3, <3>4 DEF Settled, WindowsOf
  <2> QED  BY <1>2, <2>2, <2>4, <2>5, Relaxed DEF Waiting, Accepted
<1> QED  BY <1>1, <1>2 DEF RevalidateUniqueLaunchedAttachment

\* The window of an accepted Kitty is moved, or is not.
LEMMA PlacingKeeps ==
    ASSUME LInv, MoveToWorkspace \/ WaitForWorkspace
    PROVE  LInv'
<1>1. resume.pc \in Accepted /\ IsResume(resume)
  BY DEF MoveToWorkspace, WaitForWorkspace, At, Accepted, LInv, Stage
<1>2. \A p \in Alive : Settled(p)
  BY <1>1 DEF LInv, Left
<1>3. Counted
  BY DEF MoveToWorkspace, WaitForWorkspace, Counted
<1>4. Onward
  <2>1. CASE UNCHANGED <<kitty, windows, launched>>
    BY <2>1, WorldOn
  <2>2. ASSUME UNCHANGED <<kitty, launched>>,
               NEW id, windows' = [windows EXCEPT ![resume.window].space = id]
        PROVE  Onward
    BY <2>2, MovesOn
  <2>3. CASE MoveToWorkspace
    <3>1. UNCHANGED <<kitty, launched>>
      BY <2>3 DEF MoveToWorkspace
    <3>2. windows' = windows \/ windows' \in Moved(resume.window, TheItem.target)
      BY <2>3 DEF MoveToWorkspace
    <3>3. \/ windows' = windows
          \/ \E v \in Denoted(TheItem.target) : windows' = [windows EXCEPT ![resume.window].space = v.id]
      BY <3>2 DEF Moved
    <3> QED  BY <2>1, <2>2, <3>1, <3>3
  <2>4. CASE WaitForWorkspace
    BY <2>1, <2>4 DEF WaitForWorkspace, world
  <2> QED  BY <2>3, <2>4
<1>5. resume.pid \in Alive' => Settled(resume.pid)
  BY <1>2, <1>4 DEF Onward
<1>6. CASE \E status : Conclude(status)
  BY <1>1, <1>3, <1>4, <1>5, <1>6, ConcludeFields, Relaxed DEF Waiting
<1>7. CASE Goes("moved")
  <2>1. IsResume(resume') /\ resume'.pc = "moved"
    BY <1>1, <1>7 DEF Goes, IsResume
  <2> QED  BY <1>3, <1>4, <1>5, <2>1, Relaxed DEF Waiting, Accepted
<1> QED  BY <1>6, <1>7 DEF MoveToWorkspace, WaitForWorkspace

-----------------------------------------------------------------------------
(* The specification.                                                      *)

LEMMA InitLaunches ==
    ASSUME Init
    PROVE  LInv
<1>1. PICK d \in Desktops : kitty = d.kitty /\ windows = d.windows
  BY DEF Init
<1>2. launched = Empty /\ DOMAIN launched = {} /\ mishaps = 0 /\ resume = NotRunning
  BY DEF Init, Empty
<1>3. Alive = {}
  BY <1>2 DEF Alive
<1>4. Numbered
  <2>1. DOMAIN launched = 1..0 /\ 0 \in Nat
    BY <1>2
  <2> QED  BY <2>1 DEF Numbered
<1>5. WindowsFit
  <2>1. \A p \in DOMAIN kitty : IsProcess(kitty[p])
    BY <1>1, ProcessNumbers DEF IsProcess
  <2>2. ASSUME NEW w \in DOMAIN windows
        PROVE  /\ IsWindow(windows[w]) /\ windows[w].pid \in Int
               /\ \E k \in {1, 2} : w = <<windows[w].pid, k>>
               /\ ~(windows[w].pid > 0)
    <3>1. /\ windows[w] \in [pid : Int, terminal : BOOLEAN, space : {v.id : v \in Spaces}]
          /\ windows[w].pid <= 0 /\ \E k \in {1, 2} : w = <<windows[w].pid, k>>
      BY <1>1, ProcessNumbers
    <3>2. IsWindow(windows[w]) /\ windows[w].pid \in Int
      BY <3>1 DEF IsWindow
    <3> QED  BY <3>1, <3>2
  <2> QED  BY <2>1, <2>2 DEF WindowsFit
<1>6. IsResume(resume) /\ resume.pc = "idle" /\ resume.pid = None
  BY <1>2 DEF IsResume, NotRunning
<1>7. Stage
  BY <1>6 DEF Stage, Waiting, Accepted
<1> QED  BY <1>2, <1>3, <1>4, <1>5, <1>7 DEF LInv, Clients, Emptied, Left, OneClient

LEMMA NextLaunches ==
    ASSUME LInv, [Next]_vars
    PROVE  LInv'
<1>1. CASE Start \/ WaitForNiri \/ Collect \/ MakePlan \/ MapExisting \/ OrderColumns \/ End
  BY <1>1, PlanningKeeps
<1>2. CASE NextItem
  BY <1>2, NextItemKeeps
<1>3. CASE ListAgain \/ RevalidateAllCandidate
  BY <1>3, RevalidationKeeps
<1>4. CASE StartKitty
  BY <1>4, StartKittyKeeps
<1>5. CASE WaitForWindow
  BY <1>5, WaitForWindowKeeps
<1>6. CASE WaitForAttachment
  BY <1>6, WaitForAttachmentKeeps
<1>7. CASE RevalidateUniqueLaunchedAttachment
  BY <1>7, UniqueKeeps
<1>8. CASE MoveToWorkspace \/ WaitForWorkspace
  BY <1>8, PlacingKeeps
<1>9. CASE UserActs \/ TimePasses \/ KittyActs
  BY <1>9, OthersKeep
<1>10. CASE UNCHANGED vars
  BY <1>10, WorldOn, AsideKeeps DEF vars, LInv
<1> QED  BY <1>1, <1>2, <1>3, <1>4, <1>5, <1>6, <1>7, <1>8, <1>9, <1>10 DEF Next

\* When the first phase hands over, nothing of it is kept.
LEMMA HandOverLaunches ==
    ASSUME HandOver
    PROVE  LInv'
<1>1. /\ DOMAIN kitty' = {} /\ DOMAIN windows' = {} /\ DOMAIN launched' = {} /\ Alive' = {}
      /\ mishaps' = 0 /\ resume' = NotRunning
  BY DEF HandOver, Empty, Alive
<1>2. DOMAIN launched' = 1..0 /\ 0 \in Nat
  BY <1>1
<1>3. IsResume(resume') /\ resume'.pc = "idle" /\ resume'.pid = None
  BY <1>1 DEF IsResume, NotRunning
<1>4. Stage'
  BY <1>3 DEF Stage, IsResume, Waiting, Accepted
<1> QED  BY <1>1, <1>2, <1>4 DEF LInv, Numbered, WindowsFit, Clients, Emptied, Left, OneClient

LEMMA LaunchesAccounted == LInv => OneClient /\ LeftOpenAttached
BY DEF LInv, Left, LeftOpenAttached, Settled

LEMMA LaunchesStep == LInv /\ [NextResume]_<<vars, ordering>> => LInv'
<1> SUFFICES ASSUME LInv, [NextResume]_<<vars, ordering>> PROVE LInv'
  OBVIOUS
<1>1. CASE HandOver
  BY <1>1, HandOverLaunches
<1>2. CASE ~HandOver
  <2>1. [Next]_vars
    BY <1>2 DEF NextResume, Place, BeginOrdering, Order
  <2> QED  BY <2>1, NextLaunches
<1> QED  BY <1>1, <1>2

LEMMA LaunchesAlways == ResumeSpec => []LInv
<1>1. InitResume => LInv
  BY InitLaunches DEF InitResume
<1> QED  BY <1>1, LaunchesStep, PTL DEF ResumeSpec

\* However often resume is run, whatever fails, however late a window or a
\* client of a Kitty comes and whatever the user does meanwhile, there are
\* never two Kittys that resume launched with, or about to start, a client of
\* the same session (executor.go:178-212, 271-286).
THEOREM OneClientHolds == ResumeSpec => []OneClient
BY LaunchesAlways, LaunchesAccounted, PTL

\* A Kitty that a resume goes on without has been seen attached to its
\* session and still is, unless it or the window it was launched with is gone:
\* one that was given up is killed, with the client that it might have started
\* later (executor.go:255-268).
THEOREM LeftOpenAttachedHolds == ResumeSpec => []LeftOpenAttached
BY LaunchesAlways, LaunchesAccounted, PTL

-----------------------------------------------------------------------------
(* The move of a column.                                                   *)

\* Moving one column to another place permutes the columns: they are still
\* numbered from 1 without a gap, none becomes floating and none is merged
\* with another (expectedColumnMove).
THEOREM MovePermutes ==
    ASSUME NEW n \in Nat, NEW source \in 1..n, NEW destination \in 1..n
    PROVE  /\ \A c \in 1..n : Columns!Shifted(c, source, destination) \in 1..n
           /\ \A c, d \in 0..n :
                 Columns!Shifted(c, source, destination) = Columns!Shifted(d, source, destination) => c = d
           /\ \A d \in 1..n : \E c \in 1..n : Columns!Shifted(c, source, destination) = d
<1>1. \A c \in 1..n : Columns!Shifted(c, source, destination) \in 1..n
  BY DEF Columns!Shifted
<1>2. \A c, d \in 0..n :
         Columns!Shifted(c, source, destination) = Columns!Shifted(d, source, destination) => c = d
  BY DEF Columns!Shifted
<1>3. ASSUME NEW d \in 1..n
      PROVE  \E c \in 1..n : Columns!Shifted(c, source, destination) = d
  <2>1. Columns!Shifted(d, destination, source) \in 1..n
    BY DEF Columns!Shifted
  <2>2. Columns!Shifted(Columns!Shifted(d, destination, source), source, destination) = d
    BY DEF Columns!Shifted
  <2> QED  BY <2>1, <2>2
<1> QED  BY <1>1, <1>2, <1>3

\* The other columns keep their order, and those outside of the two places
\* stay where they are: why one pass from the highest target to the lowest
\* seldom has to be repeated (lines 598-601, 635-638).
THEOREM MoveKeepsOthers ==
    ASSUME NEW n \in Nat, NEW source \in 1..n, NEW destination \in 1..n
    PROVE  /\ \A c, d \in (1..n) \ {source} :
                 c < d => Columns!Shifted(c, source, destination) < Columns!Shifted(d, source, destination)
           /\ \A c \in 1..n :
                 (c < source /\ c < destination) \/ (c > source /\ c > destination)
                 => Columns!Shifted(c, source, destination) = c
BY DEF Columns!Shifted

-----------------------------------------------------------------------------
(* An action that went astray is the last one.  The executor looks for the *)
(* exact workspace it expects, so that an effect it did not expect is      *)
(* noticed by the wait that follows the action, before it acts again.      *)

Watching == {"after focus", "after move"}

AstrayInv ==
    /\ {"pc", "expected", "before", "target", "todo", "pass", "result"} \subseteq DOMAIN run
    /\ run = [x \in DOMAIN run |-> run[x]]
    /\ run.result = "applied" => run.pc \in Columns!Stopped
    /\ astray => \/ run.pc \in Watching /\ real # run.expected
                 \/ run.pc \in Columns!Stopped /\ run.result # "applied"

\* An ordering that ends before it succeeds keeps the invariant.
LEMMA EndsKeepsInv ==
    ASSUME AstrayInv, Columns!Ends("degraded")
    PROVE  AstrayInv'
BY DEF AstrayInv, Columns!Ends, Columns!Stopped, Watching

LEMMA FailsKeepsInv ==
    ASSUME AstrayInv, NEW after, Columns!Fails(after)
    PROVE  AstrayInv'
BY EndsKeepsInv DEF Columns!Fails

LEMMA ChooseKeepsInv ==
    ASSUME AstrayInv, Columns!Choose
    PROVE  AstrayInv'
<1>1. ~astray /\ astray' = astray /\ run.result # "applied"
  BY DEF AstrayInv, Columns!Choose, Columns!Undisturbed, Watching, Columns!Stopped
<1>2. CASE Columns!Ends("degraded")
  BY <1>2, EndsKeepsInv
<1>3. CASE run' = [run EXCEPT !.pass = @ + 1, !.todo = Targets]
  BY <1>1, <1>3 DEF AstrayInv
<1>4. CASE run' = [run EXCEPT !.pc = "checking"]
  BY <1>1, <1>4 DEF AstrayInv
<1>5. ASSUME NEW t, run' = [run EXCEPT !.pc = "before focus", !.target = t,
                                       !.todo = {u \in @ : wanted[u] < wanted[t]}]
      PROVE  AstrayInv'
  BY <1>1, <1>5 DEF AstrayInv
<1> QED  BY <1>2, <1>3, <1>4, <1>5 DEF Columns!Choose

LEMMA ObserveKeepsInv ==
    ASSUME AstrayInv, Columns!Observe
    PROVE  AstrayInv'
<1>1. CASE Columns!Fails(real)
  BY <1>1, FailsKeepsInv
<1>2. CASE run' = [run EXCEPT !.pc = "choosing", !.expected = real] /\ Columns!Undisturbed
  BY <1>2 DEF AstrayInv, Columns!Observe, Columns!Undisturbed, Watching, Columns!Stopped
<1> QED  BY <1>1, <1>2 DEF Columns!Observe

LEMMA ObserveBeforeKeepsInv ==
    ASSUME AstrayInv, NEW pc \in {"before focus", "before move"}, NEW next \in Columns!Acting,
           NEW acceptable, Columns!ObserveBefore(pc, next, acceptable)
    PROVE  AstrayInv'
<1>1. ~astray /\ run.result # "applied"
  BY DEF AstrayInv, Columns!ObserveBefore, Watching, Columns!Stopped
<1>2. CASE Columns!Fails(real)
  BY <1>2, FailsKeepsInv
<1>3. CASE Columns!Ends("degraded")
  BY <1>3, EndsKeepsInv
<1>4. CASE run' = [run EXCEPT !.pc = next] /\ Columns!Undisturbed
  BY <1>1, <1>4 DEF AstrayInv, Columns!Undisturbed
<1> QED  BY <1>2, <1>3, <1>4 DEF Columns!ObserveBefore

\* Whatever an action did is compared with what was expected of it.
LEMMA ActsKeepsInv ==
    ASSUME AstrayInv, run.pc \in Columns!Acting,
           NEW pc \in Watching, NEW after, NEW expected, Columns!Acts(pc, after, expected)
    PROVE  AstrayInv'
<1>1. ~astray /\ run.result # "applied"
  BY DEF AstrayInv, Columns!Acting, Watching, Columns!Stopped
<1>2. CASE Columns!Fails(after)
  BY <1>2, FailsKeepsInv
<1>3. CASE /\ run' = [run EXCEPT !.pc = pc, !.before = run.expected, !.expected = expected]
           /\ real' = after
           /\ astray' = (astray \/ after # expected)
  <2>1. /\ run'.pc = pc /\ run'.expected = expected /\ run'.result = run.result
        /\ DOMAIN run' = DOMAIN run
        /\ run' = [x \in DOMAIN run' |-> run'[x]]
    BY <1>3 DEF AstrayInv
  <2>2. astray' => real' # run'.expected
    BY <1>1, <1>3, <2>1
  <2> QED  BY <1>1, <2>1, <2>2 DEF AstrayInv
<1> QED  BY <1>2, <1>3 DEF Columns!Acts

LEMMA WaitKeepsInv ==
    ASSUME AstrayInv, NEW pc \in Watching, NEW next \in {"before move", "choosing"},
           Columns!WaitForTransition(pc, next)
    PROVE  AstrayInv'
<1>1. run.result # "applied"
  BY DEF AstrayInv, Columns!WaitForTransition, Watching, Columns!Stopped
<1>2. CASE Columns!Fails(real)
  BY <1>2, FailsKeepsInv
<1>3. CASE Columns!Ends("degraded")
  BY <1>3, EndsKeepsInv
<1>4. CASE real = run.expected /\ run' = [run EXCEPT !.pc = next] /\ Columns!Undisturbed
  <2>1. ~astray
    BY <1>4 DEF AstrayInv, Columns!WaitForTransition, Watching, Columns!Stopped
  <2> QED  BY <1>1, <1>4, <2>1 DEF AstrayInv, Columns!Undisturbed
<1> QED  BY <1>2, <1>3, <1>4 DEF Columns!WaitForTransition

LEMMA LastKeepsInv ==
    ASSUME AstrayInv, Columns!Check \/ Columns!RestoreFocus \/ Columns!Disturb
    PROVE  AstrayInv'
<1>1. CASE Columns!Check
  <2>1. ~astray
    BY <1>1 DEF AstrayInv, Columns!Check, Watching, Columns!Stopped
  <2>2. CASE Columns!Fails(real)
    BY <2>2, FailsKeepsInv
  <2>3. CASE Columns!Ends(IF real = run.expected THEN "applied" ELSE "degraded") /\ Columns!Undisturbed
    BY <2>1, <2>3 DEF AstrayInv, Columns!Ends, Columns!Undisturbed, Columns!Stopped
  <2> QED  BY <1>1, <2>2, <2>3 DEF Columns!Check
<1>2. CASE Columns!RestoreFocus
  BY <1>2 DEF AstrayInv, Columns!RestoreFocus, Columns!Stopped, Watching
<1>3. CASE Columns!Disturb
  BY <1>3 DEF AstrayInv, Columns!Disturb
<1> QED  BY <1>1, <1>2, <1>3

LEMMA NextKeepsInv == AstrayInv /\ [Columns!Next]_Columns!vars => AstrayInv'
<1> SUFFICES ASSUME AstrayInv, [Columns!Next]_Columns!vars PROVE AstrayInv'
  OBVIOUS
<1>1. CASE Columns!Observe
  BY <1>1, ObserveKeepsInv
<1>2. CASE Columns!Choose
  BY <1>2, ChooseKeepsInv
<1>3. CASE Columns!ObserveBeforeFocus \/ Columns!ObserveBeforeMove
  BY <1>3, ObserveBeforeKeepsInv DEF Columns!ObserveBeforeFocus, Columns!ObserveBeforeMove, Columns!Acting
<1>4. CASE Columns!FocusWindow
  <2>1. run.pc \in Columns!Acting /\ "after focus" \in Watching
    BY <1>4 DEF Columns!FocusWindow, Columns!Acting, Watching
  <2> QED  BY <1>4, <2>1, ActsKeepsInv DEF Columns!FocusWindow
<1>5. CASE Columns!MoveColumnToIndex
  <2>1. run.pc \in Columns!Acting /\ "after move" \in Watching
    BY <1>5 DEF Columns!MoveColumnToIndex, Columns!Acting, Watching
  <2> QED  BY <1>5, <2>1, ActsKeepsInv DEF Columns!MoveColumnToIndex
<1>6. CASE Columns!WaitForFocus \/ Columns!WaitForMove
  BY <1>6, WaitKeepsInv DEF Columns!WaitForFocus, Columns!WaitForMove, Watching
<1>7. CASE Columns!Check \/ Columns!RestoreFocus \/ Columns!Disturb
  BY <1>7, LastKeepsInv
<1>8. CASE UNCHANGED Columns!vars
  BY <1>8 DEF AstrayInv, Columns!vars
<1> QED  BY <1>1, <1>2, <1>3, <1>4, <1>5, <1>6, <1>7, <1>8 DEF Columns!Next, Columns!Execute

\* While no columns are ordered, nothing is astray.
OrderingInv == AstrayInv \/ (run.pc \in NotOrdering /\ ~astray)

LEMMA OrderingStep == OrderingInv /\ [NextResume]_<<vars, ordering>> => OrderingInv'
<1> SUFFICES ASSUME OrderingInv, [NextResume]_<<vars, ordering>> PROVE OrderingInv'
  OBVIOUS
<1>1. run.pc \in NotOrdering => ~astray
  BY DEF OrderingInv, AstrayInv, NotOrdering, Watching, Columns!Stopped
<1>2. CASE run = Unordered /\ (Place \/ HandOver)
  <2>1. run.pc \in NotOrdering /\ astray' = astray
    BY <1>2 DEF Unordered, NotOrdering, Place, HandOver, ordering
  <2>2. run'.pc \in NotOrdering
    BY <1>2 DEF Unordered, NotOrdering, Place, HandOver, ordering
  <2> QED  BY <1>1, <2>1, <2>2 DEF OrderingInv
<1>3. CASE BeginOrdering
  <2>1. ~astray' /\ run' = Columns!Ordering(real')
    BY <1>1, <1>3 DEF BeginOrdering, NotOrdering
  <2> QED  BY <2>1 DEF OrderingInv, AstrayInv, Columns!Ordering
<1>4. CASE Order
  BY <1>4, NextKeepsInv DEF Order, OrderingInv
<1>5. CASE UNCHANGED <<vars, ordering>>
  BY <1>5 DEF OrderingInv, AstrayInv, ordering
<1> QED  BY <1>2, <1>3, <1>4, <1>5 DEF NextResume

\* Whatever the user does to however many windows, an action that had
\* another effect than was expected, and that nobody has set right, is the
\* executor's last (lines 653-704, 756-776).
THEOREM StopsWhenAstrayHolds == ResumeSpec => []StopsWhenAstray
<1>1. InitResume => OrderingInv
  BY DEF InitResume, OrderingInv, Unordered, NotOrdering
<1>2. OrderingInv => StopsWhenAstray
  BY DEF OrderingInv, AstrayInv, StopsWhenAstray, Columns!StopsWhenAstray, Watching, NotOrdering,
         Columns!Acting, Columns!Stopped
<1> QED  BY <1>1, OrderingStep, <1>2, PTL DEF ResumeSpec

-----------------------------------------------------------------------------
(* What a resume --all may raise.                                          *)

LEMMA LeastExists ==
    ASSUME NEW I \in SUBSET Nat, NEW k \in I
    PROVE  \E i \in I : \A j \in I : i <= j
<1> DEFINE R == OpToRel(<, Nat)
<1>1. \E i \in I : \A j \in I : ~(<<j, i>> \in R)
  <2> HIDE DEF R
  <2>1. IsWellFoundedOn(R, Nat)
    BY NatLessThanWellFounded DEF R
  <2> QED  BY <2>1, WFMin
<1>2. \A i, j \in Nat : <<j, i>> \in R <=> j < i
  BY DEF OpToRel
<1> HIDE DEF R
<1>3. PICK i \in I : \A j \in I : ~(<<j, i>> \in R)
  BY <1>1
<1>4. \A j \in I : i <= j
  <2> TAKE j \in I
  <2>1. i \in Nat /\ j \in Nat /\ ~(j < i)
    BY <1>2, <1>3
  <2> QED  BY <2>1
<1> QED  BY <1>4

\* What holds of 0 and is passed on holds of every number.
LEMMA ForEveryNumber ==
    ASSUME NEW I, 0 \in I, \A n \in Nat : n \in I => n + 1 \in I
    PROVE  Nat \subseteq I
<1> SUFFICES ASSUME NEW k \in Nat \ I PROVE FALSE
  OBVIOUS
<1> DEFINE J == Nat \ I
<1>1. PICK m \in J : \A j \in J : m <= j
  <2>1. J \in SUBSET Nat /\ k \in J
    OBVIOUS
  <2> HIDE DEF J
  <2> QED  BY <2>1, LeastExists
<1>2. m \in Nat /\ m # 0 /\ m - 1 \in Nat /\ m - 1 + 1 = m
  BY <1>1
<1>3. m - 1 \in I
  <2>1. ~(m <= m - 1)
    BY <1>2
  <2> QED  BY <1>1, <1>2, <2>1
<1> QED  BY <1>1, <1>2, <1>3

Picks(f, s, S, m) ==
    f = [n \in 0..m |-> IF n = 0 THEN <<>>
                        ELSE IF s[n] \in S THEN Append(f[n - 1], s[n]) ELSE f[n - 1]]

LEMMA PicksExist ==
    ASSUME NEW s, NEW S, NEW m \in Nat
    PROVE  \E f : Picks(f, s, S, m)
<1> DEFINE Add(q, n) == IF s[n] \in S THEN Append(q, s[n]) ELSE q
           I == {n \in Nat : \E f : Picks(f, s, S, n)}
<1>1. 0 \in I
  <2>1. \A n \in 0..0 : n = 0
    OBVIOUS
  <2>2. Picks([n \in 0..0 |-> <<>>], s, S, 0)
    BY <2>1 DEF Picks
  <2> QED  BY <2>2
<1>2. ASSUME NEW n \in Nat, n \in I PROVE n + 1 \in I
  <2>1. PICK f : Picks(f, s, S, n)
    BY <1>2
  <2> DEFINE g == [k \in 0..(n + 1) |-> IF k = n + 1 THEN Add(f[n], n + 1) ELSE f[k]]
             e == [k \in 0..(n + 1) |-> IF k = 0 THEN <<>> ELSE Add(g[k - 1], k)]
  <2>2. f = [k \in 0..n |-> IF k = 0 THEN <<>> ELSE Add(f[k - 1], k)]
    BY <2>1 DEF Picks
  <2> HIDE DEF Add
  <2>3. ASSUME NEW k \in 0..(n + 1) PROVE g[k] = e[k]
    <3>1. CASE k = 0
      <4>1. 0 # n + 1 /\ 0 \in 0..n
        OBVIOUS
      <4>2. f[0] = <<>>
        BY <2>2, <4>1
      <4> QED  BY <3>1, <4>1, <4>2
    <3>2. CASE k = n + 1
      <4>1. k # 0 /\ k - 1 = n /\ n \in 0..(n + 1) /\ n # n + 1
        BY <3>2
      <4>2. g[n] = f[n] /\ g[k] = Add(f[n], n + 1)
        BY <3>2, <4>1
      <4>3. e[k] = Add(g[n], k)
        BY <4>1
      <4> QED  BY <3>2, <4>2, <4>3
    <3>3. CASE k # 0 /\ k # n + 1
      <4>1. k \in 0..n /\ k - 1 \in 0..(n + 1) /\ k - 1 # n + 1
        BY <3>3
      <4>2. f[k] = Add(f[k - 1], k)
        BY <2>2, <3>3, <4>1
      <4>3. g[k] = f[k] /\ g[k - 1] = f[k - 1]
        BY <3>3, <4>1
      <4>4. e[k] = Add(g[k - 1], k)
        BY <3>3
      <4> QED  BY <4>2, <4>3, <4>4
    <3> QED  BY <3>1, <3>2, <3>3
  <2>4. g = e
    BY <2>3
  <2>5. Picks(g, s, S, n + 1)
    BY <2>4 DEF Picks, Add
  <2> QED  BY <2>5
<1>3. Nat \subseteq I
  <2> HIDE DEF I
  <2> QED  BY <1>1, <1>2, ForEveryNumber
<1> QED  BY <1>3

\* What is chosen is a sequence of elements that were to be chosen.
LEMMA ChosenAre ==
    ASSUME NEW T, NEW s \in Seq(T), NEW S
    PROVE  Chosen(s, S) \in Seq(T \cap S)
<1> DEFINE m == Len(s)
           f == CHOOSE f : Picks(f, s, S, m)
<1>1. m \in Nat /\ \A n \in 1..m : s[n] \in T
  OBVIOUS
<1>2. Chosen(s, S) = f[m]
  BY Zenon DEF Chosen, Picks
<1> HIDE DEF m
<1>3. \E g : Picks(g, s, S, m)
  BY <1>1, PicksExist
<1>4. Picks(f, s, S, m)
  BY <1>3
<1> HIDE DEF f
<1>5. \A n \in 0..m : f[n] = IF n = 0 THEN <<>>
                             ELSE IF s[n] \in S THEN Append(f[n - 1], s[n]) ELSE f[n - 1]
  <2>1. f = [n \in 0..m |-> IF n = 0 THEN <<>>
                            ELSE IF s[n] \in S THEN Append(f[n - 1], s[n]) ELSE f[n - 1]]
    BY <1>4 DEF Picks
  <2> QED  BY <2>1
<1> DEFINE I == {n \in Nat : n <= m => f[n] \in Seq(T \cap S)}
<1>6. 0 \in I
  <2>1. 0 \in 0..m
    BY <1>1
  <2>2. f[0] = <<>>
    BY <1>5, <2>1
  <2>3. <<>> \in Seq(T \cap S)
    OBVIOUS
  <2>4. f[0] \in Seq(T \cap S)
    BY <2>2, <2>3, Zenon
  <2> QED  BY <2>4
<1>7. ASSUME NEW n \in Nat, n \in I PROVE n + 1 \in I
  <2> SUFFICES ASSUME n + 1 <= m PROVE f[n + 1] \in Seq(T \cap S)
    OBVIOUS
  <2>1. n + 1 \in 0..m /\ n + 1 # 0 /\ n + 1 - 1 = n /\ n + 1 \in 1..m /\ n <= m
    BY <1>1
  <2>2. f[n] \in Seq(T \cap S) /\ s[n + 1] \in T
    BY <1>1, <1>7, <2>1
  <2>3. f[n + 1] = IF s[n + 1] \in S THEN Append(f[n], s[n + 1]) ELSE f[n]
    BY <1>5, <2>1
  <2> QED  BY <2>2, <2>3
<1>8. Nat \subseteq I
  <2> HIDE DEF I
  <2> QED  BY <1>6, <1>7, ForEveryNumber
<1>9. m \in I /\ m <= m
  BY <1>1, <1>8
<1> QED  BY <1>2, <1>9

\* The newest of several checkpoints is one of them.
LEMMA LatestIs ==
    ASSUME NEW h \in Histories, NEW S \in SUBSET DOMAIN h, S # {}
    PROVE  \E i \in S : Latest(h, S) = h[i] /\ \A j \in S : h[j].at <= h[i].at
<1> DEFINE Before(i, j) == h[i].at > h[j].at \/ (h[i].at = h[j].at /\ i <= j)
           FirstOf(k) == \E i \in S : i <= k /\ \A j \in S : j <= k => Before(i, j)
           I == {k \in Nat : (\E i \in S : i <= k) => FirstOf(k)}
<1>1. PICK n \in Nat : DOMAIN h = 1..n
  <2>1. h \in Seq({h[i] : i \in DOMAIN h})
    BY CheckpointsListed
  <2>2. Len(h) \in Nat /\ DOMAIN h = 1..Len(h)
    BY <2>1
  <2> QED  BY <2>2
<1>2. \A i \in S : i \in Nat /\ i >= 1 /\ i <= n /\ h[i].at \in Int
  <2>1. \A i \in DOMAIN h : h[i].at \in Int
    BY CheckpointsListed
  <2>2. \A i \in S : i \in 1..n
    BY <1>1
  <2> QED  BY <1>1, <2>1, <2>2
<1>3. 0 \in I
  <2>1. ~\E i \in S : i <= 0
    BY <1>2
  <2> QED  BY <2>1, Zenon
<1>4. ASSUME NEW k \in Nat, k \in I PROVE k + 1 \in I
  <2> SUFFICES ASSUME \E i \in S : i <= k + 1 PROVE FirstOf(k + 1)
    OBVIOUS
  <2>1. \A j \in S : j <= k + 1 <=> j <= k \/ j = k + 1
    BY <1>2
  <2>2. CASE \E i \in S : i <= k
    <3>1. PICK i \in S : i <= k /\ \A j \in S : j <= k => Before(i, j)
      BY <1>4, <2>2
    <3>2. CASE k + 1 \in S /\ h[k + 1].at > h[i].at
      <4>1. \A j \in S : j <= k + 1 => Before(k + 1, j)
        BY <1>2, <2>1, <3>1, <3>2
      <4> QED  BY <3>2, <4>1
    <3>3. CASE ~(k + 1 \in S /\ h[k + 1].at > h[i].at)
      <4>1. \A j \in S : j <= k + 1 => Before(i, j)
        BY <1>2, <2>1, <3>1, <3>3
      <4>2. i <= k + 1
        BY <1>2, <3>1
      <4> QED  BY <4>1, <4>2
    <3> QED  BY <3>2, <3>3
  <2>3. CASE ~\E i \in S : i <= k
    <3>1. k + 1 \in S /\ \A j \in S : j <= k + 1 => j = k + 1
      BY <2>1, <2>3
    <3>2. Before(k + 1, k + 1)
      BY <1>2, <3>1
    <3> QED  BY <3>1, <3>2
  <2> QED  BY <2>2, <2>3
<1>5. Nat \subseteq I
  <2> HIDE DEF I
  <2> QED  BY <1>3, <1>4, ForEveryNumber
<1>6. n \in I /\ \E i \in S : i <= n
  BY <1>2, <1>5
<1>7. \E i \in S : \A j \in S : Before(i, j)
  <2>1. FirstOf(n)
    BY <1>6
  <2> QED  BY <1>2, <2>1
<1> DEFINE l == CHOOSE i \in S : \A j \in S : Before(i, j)
<1>8. l \in S /\ \A j \in S : Before(l, j)
  BY <1>7
<1>9. Latest(h, S) = h[l]
  BY DEF Latest
<1> HIDE DEF l
<1>10. \A j \in S : h[j].at <= h[l].at
  BY <1>2, <1>8
<1> QED  BY <1>8, <1>9, <1>10

IsItem(x) ==
    x \in [session : {x.session}, status : {x.status}, planned : {x.planned}, source : {x.source},
           zellij : {x.zellij}, target : {x.target}]

\* Items of a plan that was made of the checkpoint selected.
Fits(x, selection) ==
    /\ IsItem(x) /\ x.session \in Sessions
    /\ x.source = "prior" => selection.source = "prior" /\ x.session \in selection.checkpoint.active

Planned(plan, selection) ==
    \E n \in Nat : plan = [k \in 1..n |-> plan[k]] /\ \A k \in 1..n : Fits(plan[k], selection)

PlanFits == Planned(resume.plan, resume.selection)

\* A checkpoint of an earlier boot is gone by only if there is none of this
\* one, and only if it is the newest.
SelectionFits ==
    resume.selection.source = "prior" =>
        /\ OfBoot(history, Boot) = {}
        /\ \E i \in Mine(history) :
              /\ resume.selection.checkpoint = history[i]
              /\ \A j \in Mine(history) : history[j].at <= history[i].at

Selecting == {"idle", "ready"}

Unplanned == Selecting \cup {"collect", "plan"}

Unapplied == Unplanned \cup {"map"}

\* Where a client may still start.
Starting == {"start", "window", "attach"}

\* What a resume --all goes by, up to the end of its wait for a client.
RInv ==
    /\ history \in Histories /\ now \in Int
    /\ resume.all /\ resume.pc \notin Selecting => SelectionFits
    /\ resume.all /\ resume.pc \notin Unplanned => PlanFits
    /\ resume.all /\ resume.pc \notin Unapplied => resume.i \in Nat \ {0}
    /\ resume.all /\ resume.pc \notin Unapplied \cup {"item", "order"} => resume.i \in DOMAIN resume.plan
    /\ resume.all /\ resume.pc \in Starting => TheItem.session \in lively
    /\ resume.pc = "unique" /\ resume.pid \in Alive => kitty[resume.pid].starts = None

LEMMA SelectingKeeps ==
    ASSUME RInv, history' = history, now' = now, resume'.pc \in Selecting
    PROVE  RInv'
<1>1. /\ resume'.pc \notin Starting /\ resume'.pc # "unique"
      /\ resume'.pc \in Unplanned /\ resume'.pc \in Unapplied
  BY DEF Selecting, Starting, Unplanned, Unapplied
<1> QED  BY <1>1 DEF RInv

LEMMA SelectionKept ==
    ASSUME SelectionFits, history' = history, resume'.selection = resume.selection
    PROVE  SelectionFits'
BY DEF SelectionFits, OfBoot, Mine

\* The first of the newest checkpoints is selected, and one of this boot first.
LEMMA SelectAllFits ==
    ASSUME NEW h \in Histories, NEW t,
           SelectAll(h, Boot, t).status \in {"ready", "stale"},
           SelectAll(h, Boot, t).source = "prior"
    PROVE  /\ OfBoot(h, Boot) = {}
           /\ \E i \in Mine(h) : /\ SelectAll(h, Boot, t).checkpoint = h[i]
                                 /\ \A j \in Mine(h) : h[j].at <= h[i].at
<1> DEFINE current == Latest(h, OfBoot(h, Boot))
           prior == Latest(h, Mine(h) \ OfBoot(h, Boot))
<1>1. Mine(h) \in SUBSET DOMAIN h /\ OfBoot(h, Boot) \in SUBSET DOMAIN h
  BY DEF Mine, OfBoot
<1>2. current = None /\ prior # None /\ SelectAll(h, Boot, t).checkpoint = prior
  <2> HIDE DEF current, prior
  <2>1. SelectAll(h, Boot, t) =
          IF current # None THEN Selection("ready", "current", current)
          ELSE Selection(IF prior = None THEN "not_found"
                         ELSE IF prior.active = {} THEN "empty"
                         ELSE IF Aged(prior, t) THEN "stale" ELSE "ready",
                         "prior", prior)
    BY DEF SelectAll, current, prior
  <2>2. current = None
    BY <2>1 DEF Selection
  <2> QED  BY <2>1, <2>2 DEF Selection
<1>3. OfBoot(h, Boot) = {}
  <2> SUFFICES ASSUME OfBoot(h, Boot) # {} PROVE FALSE
    OBVIOUS
  <2>1. PICK i \in OfBoot(h, Boot) : current = h[i]
    BY <1>1, LatestIs
  <2> QED  BY <1>1, <1>2, <2>1, CheckpointsListed
<1>4. Mine(h) # {} /\ prior = Latest(h, Mine(h))
  <2>1. Mine(h) \ OfBoot(h, Boot) = Mine(h)
    BY <1>3
  <2>2. prior = Latest(h, Mine(h))
    BY <2>1
  <2> QED  BY <1>2, <2>2 DEF Latest
<1>5. \E i \in Mine(h) : prior = h[i] /\ \A j \in Mine(h) : h[j].at <= h[i].at
  BY <1>1, <1>4, LatestIs
<1> QED  BY <1>2, <1>3, <1>5

LEMMA WaitForNiriSelects ==
    ASSUME LInv, RInv, WaitForNiri
    PROVE  RInv'
<1> DEFINE all == resume.all
           s == IF all THEN SelectAll(history, Boot, now) ELSE Select(history, Boot, now)
           live == s.status = "ready" \/ (all /\ s.status = "stale")
<1>1. history' = history /\ now' = now /\ IsResume(resume)
  BY DEF WaitForNiri, world, LInv, Stage
<1>2. CASE Finish
  <2>1. resume'.pc = "idle"
    BY <1>2, NotRunningFields DEF Finish
  <2> QED  BY <1>1, <2>1, SelectingKeeps DEF Selecting
<1>3. CASE ~Finish
  <2>1. resume' = [resume EXCEPT !.seen = windows, !.selection = s, !.pc = IF live THEN "collect" ELSE "idle"]
    BY <1>3 DEF WaitForNiri
  <2> HIDE DEF s, live
  <2>2. /\ resume'.pc = IF live THEN "collect" ELSE "idle"
        /\ resume'.selection = s /\ resume'.all = all
    BY <1>1, <2>1 DEF IsResume
  <2>3. CASE ~live
    BY <1>1, <2>2, <2>3, SelectingKeeps DEF Selecting
  <2>4. CASE live
    <3>1. resume'.pc = "collect"
      BY <2>2, <2>4
    <3>2. ASSUME all PROVE SelectionFits'
      <4>1. s = SelectAll(history, Boot, now) /\ s.status \in {"ready", "stale"}
        BY <2>4, <3>2 DEF s, live
      <4>2. s.source = "prior" =>
              /\ OfBoot(history, Boot) = {}
              /\ \E i \in Mine(history) : /\ s.checkpoint = history[i]
                                          /\ \A j \in Mine(history) : history[j].at <= history[i].at
        BY <4>1, SelectAllFits DEF RInv
      <4> QED  BY <1>1, <2>2, <4>2 DEF SelectionFits, OfBoot, Mine
    <3> QED  BY <1>1, <2>2, <3>1, <3>2 DEF RInv, Selecting, Unplanned, Unapplied, Starting
  <2> QED  BY <2>3, <2>4
<1> QED  BY <1>2, <1>3

LEMMA CollectSelects ==
    ASSUME LInv, RInv, Collect
    PROVE  RInv'
<1>1. history' = history /\ now' = now /\ IsResume(resume) /\ resume.pc = "collect"
  BY DEF Collect, At, world, LInv, Stage
<1>2. CASE Finish
  <2>1. resume'.pc = "idle"
    BY <1>2, NotRunningFields DEF Finish
  <2> QED  BY <1>1, <2>1, SelectingKeeps DEF Selecting
<1>3. CASE ~Finish
  <2>1. PICK open, listed : resume' = [resume EXCEPT !.pc = "plan", !.open = open,
                                                     !.seen = Empty, !.listed = listed]
    BY <1>3 DEF Collect
  <2>2. /\ resume'.pc = "plan" /\ resume'.selection = resume.selection /\ resume'.all = resume.all
    BY <1>1, <2>1 DEF IsResume
  <2>3. resume.all => SelectionFits'
    BY <1>1, <2>2, SelectionKept DEF RInv, Selecting
  <2> QED  BY <1>1, <2>2, <2>3 DEF RInv, Selecting, Unplanned, Unapplied, Starting
<1> QED  BY <1>2, <1>3

\* A plan has items for sessions only, and for those of the checkpoint alone
\* if it is of an earlier boot.
LEMMA BuildAllFits ==
    ASSUME NEW selection, NEW policy, NEW open, NEW live, NEW spaces
    PROVE  Planned(BuildAll(selection, policy, open, live, spaces), selection)
<1> DEFINE plan == BuildAll(selection, policy, open, live, spaces)
           candidates == Chosen(Names, Candidates(selection, live))
<1>1. CASE selection.status \notin {"ready", "stale"}
  <2>1. plan = <<>>
    BY <1>1 DEF BuildAll
  <2>2. \A f : f = <<>> => f = [k \in 1..0 |-> f[k]]
    OBVIOUS
  <2> HIDE DEF plan
  <2>3. 0 \in Nat /\ 1..0 = {}
    OBVIOUS
  <2>4. Planned(plan, selection)
    BY <2>1, <2>2, <2>3 DEF Planned
  <2> QED  BY <2>4 DEF plan
<1>2. CASE selection.status \in {"ready", "stale"}
  <2>1. candidates \in Seq(Sessions \cap Candidates(selection, live))
    BY CheckpointsListed, ChosenAre
  <2>2. PICK n \in Nat : /\ DOMAIN candidates = 1..n
                         /\ \A k \in 1..n : candidates[k] \in Sessions \cap Candidates(selection, live)
    <3> HIDE DEF candidates
    <3>1. Len(candidates) \in Nat /\ DOMAIN candidates = 1..Len(candidates)
      BY <2>1
    <3>2. \A k \in 1..Len(candidates) : candidates[k] \in Sessions \cap Candidates(selection, live)
      BY <2>1
    <3> QED  BY <3>1, <3>2
  <2> DEFINE Target(x) == StickyTarget(selection.checkpoint.sticky[x], spaces)
             Status(x) ==
                 CASE live[x] \notin {"active", "dead_resurrectable"} -> "unavailable"
                   [] live[x] # "active" /\ selection.status = "stale" -> "stale"
                   [] OTHER -> Reconciled(x, open, Target(x), policy)
             item(k) == Item(candidates[k], Status(candidates[k]), selection.source,
                             live[candidates[k]], Target(candidates[k]))
  <2>3. plan = [k \in DOMAIN candidates |-> item(k)]
    BY <1>2 DEF BuildAll
  <2> HIDE DEF plan, candidates, Status, Target
  <2>4. plan = [k \in 1..n |-> plan[k]] /\ \A k \in 1..n : plan[k] = item(k)
    BY <2>2, <2>3
  <2>5. ASSUME NEW k \in 1..n
        PROVE  /\ IsItem(plan[k]) /\ plan[k].session = candidates[k]
               /\ plan[k].source = selection.source
    <3>1. plan[k] = Item(candidates[k], Status(candidates[k]), selection.source,
                         live[candidates[k]], Target(candidates[k]))
      BY <2>4
    <3> QED  BY <3>1 DEF IsItem, Item
  <2>6. selection.source = "prior" => Candidates(selection, live) = selection.checkpoint.active
    BY DEF Candidates
  <2>7. \A k \in 1..n : Fits(plan[k], selection)
    BY <2>2, <2>5, <2>6 DEF Fits
  <2>8. Planned(plan, selection)
    BY <2>4, <2>7 DEF Planned
  <2> QED  BY <2>8 DEF plan
<1> QED  BY <1>1, <1>2

LEMMA MakePlanFits ==
    ASSUME LInv, RInv, MakePlan
    PROVE  RInv'
<1>1. history' = history /\ now' = now /\ IsResume(resume) /\ resume.pc = "plan"
  BY DEF MakePlan, At, world, LInv, Stage
<1>2. PICK plan : /\ resume' = [resume EXCEPT !.pc = "map", !.open = {}, !.listed = {}, !.plan = plan]
                  /\ resume.all => plan = BuildAll(resume.selection, resume.policy, resume.open,
                                                   CatalogNow, Spaces)
  BY DEF MakePlan
<1>3. /\ resume'.pc = "map" /\ resume'.selection = resume.selection
      /\ resume'.all = resume.all /\ resume'.plan = plan
  BY <1>1, <1>2 DEF IsResume
<1>4. resume.all => PlanFits'
  BY <1>2, <1>3, BuildAllFits DEF PlanFits
<1>5. resume.all => SelectionFits'
  BY <1>1, <1>3, SelectionKept DEF RInv, Selecting
<1> QED  BY <1>1, <1>3, <1>4, <1>5 DEF RInv, Selecting, Unplanned, Unapplied, Starting

\* The items get other results, but remain what they are.
OtherResults(plan, other) ==
    /\ other = [k \in DOMAIN plan |-> other[k]]
    /\ \E status : \A k \in DOMAIN plan : other[k] \in {plan[k], [plan[k] EXCEPT !.status = status]}

LEMMA ResultFits ==
    ASSUME NEW x, NEW status, NEW selection, Fits(x, selection)
    PROVE  Fits([x EXCEPT !.status = status], selection)
<1>1. IsItem(x)
  BY DEF Fits
<1>2. LET y == [x EXCEPT !.status = status]
      IN IsItem(y) /\ y.session = x.session /\ y.source = x.source
  BY <1>1 DEF IsItem
<1> QED  BY <1>2 DEF Fits

LEMMA OtherResultsFit ==
    ASSUME NEW plan, NEW other, NEW selection, Planned(plan, selection), OtherResults(plan, other)
    PROVE  Planned(other, selection) /\ DOMAIN other = DOMAIN plan
<1>1. PICK n \in Nat : plan = [k \in 1..n |-> plan[k]] /\ \A k \in 1..n : Fits(plan[k], selection)
  BY DEF Planned
<1>2. PICK status : \A k \in DOMAIN plan : other[k] \in {plan[k], [plan[k] EXCEPT !.status = status]}
  BY DEF OtherResults
<1>3. DOMAIN plan = 1..n
  BY <1>1
<1>4. \A k \in 1..n : Fits(other[k], selection)
  <2> TAKE k \in 1..n
  <2>1. Fits(plan[k], selection) /\ Fits([plan[k] EXCEPT !.status = status], selection)
    BY <1>1, ResultFits
  <2> QED  BY <1>2, <1>3, <2>1, Zenon
<1>5. other = [k \in 1..n |-> other[k]]
  BY <1>3 DEF OtherResults
<1> QED  BY <1>3, <1>4, <1>5 DEF Planned

LEMMA PlanLength ==
    ASSUME PlanFits
    PROVE  Len(resume.plan) \in Nat /\ DOMAIN resume.plan = 1..Len(resume.plan)
<1>1. PICK n \in Nat : resume.plan = [k \in 1..n |-> resume.plan[k]]
  BY DEF PlanFits, Planned
<1>2. resume.plan \in Seq({resume.plan[k] : k \in 1..n})
  BY <1>1
<1> QED  BY <1>2

\* The steps by which a plan is applied.
LEMMA ApplyingKeeps ==
    ASSUME RInv, history' = history, now' = now, resume.pc \notin Unplanned,
           resume'.pc \notin Unapplied,
           resume'.all = resume.all, resume'.selection = resume.selection,
           resume.all => /\ OtherResults(resume.plan, resume'.plan) /\ resume'.i \in Nat \ {0}
                         /\ resume'.pc \notin {"item", "order"} => resume'.i \in DOMAIN resume.plan
                         /\ resume'.pc \in Starting => TheItem'.session \in lively',
           resume'.pc = "unique" /\ resume'.pid \in Alive' => kitty'[resume'.pid].starts = None
    PROVE  RInv'
<1>1. resume.pc \notin Selecting
  BY DEF Unplanned
<1>2. ASSUME resume.all
      PROVE  /\ SelectionFits' /\ PlanFits' /\ DOMAIN resume'.plan = DOMAIN resume.plan
             /\ resume'.pc \in Starting => TheItem'.session \in lively'
  <2>1. PlanFits /\ SelectionFits
    BY <1>1, <1>2 DEF RInv
  <2> QED  BY <1>2, <2>1, SelectionKept, OtherResultsFit DEF PlanFits
<1> QED  BY <1>2 DEF RInv, Unapplied

\* Without a change of the plan.
LEMMA GoingOnKeeps ==
    ASSUME LInv, RInv, history' = history, now' = now, resume.pc \notin Unapplied,
           resume'.pc \notin Unapplied,
           resume'.all = resume.all, resume'.selection = resume.selection,
           resume'.plan = resume.plan, resume'.i = resume.i,
           resume.all => /\ resume'.pc \notin {"item", "order"} => resume.i \in DOMAIN resume.plan
                         /\ resume'.pc \in Starting => TheItem.session \in lively',
           resume'.pc = "unique" /\ resume'.pid \in Alive' => kitty'[resume'.pid].starts = None
    PROVE  RInv'
<1>1. resume.pc \notin Unplanned
  BY DEF Unapplied
<1>2. TheItem' = TheItem
  BY DEF TheItem
<1>3. resume.all => OtherResults(resume.plan, resume'.plan)
  BY <1>1 DEF RInv, PlanFits, Planned, OtherResults
<1>4. resume.all => resume'.i \in Nat \ {0}
  BY DEF RInv
<1> QED  BY <1>1, <1>2, <1>3, <1>4, ApplyingKeeps

LEMMA ConcludeKeeps ==
    ASSUME LInv, RInv, history' = history, now' = now, resume.pc \notin Unapplied,
           \E status : Conclude(status)
    PROVE  RInv'
<1>1. PICK status : Conclude(status)
  OBVIOUS
<1>2. IsResume(resume)
  BY DEF LInv, Stage
<1>3. PICK plan, i : /\ plan = [resume.plan EXCEPT ![resume.i].status = status] /\ i = resume.i + 1
                     /\ resume' = [resume EXCEPT !.pc = "item", !.i = i, !.plan = plan, !.pid = None,
                                                 !.window = None, !.sure = 0]
  BY <1>1, <1>2 DEF Conclude, IsResume
<1>4. /\ resume'.pc = "item" /\ resume'.all = resume.all /\ resume'.selection = resume.selection
      /\ resume'.i = i /\ resume'.plan = plan
  BY <1>2, <1>3 DEF IsResume
<1>5. OtherResults(resume.plan, resume'.plan)
  <2>1. /\ plan = [k \in DOMAIN resume.plan |-> plan[k]]
        /\ \A k \in DOMAIN resume.plan :
              plan[k] \in {resume.plan[k], [resume.plan[k] EXCEPT !.status = status]}
    BY <1>3
  <2> QED  BY <1>4, <2>1 DEF OtherResults
<1>6. resume.all => resume'.i \in Nat \ {0}
  BY <1>3, <1>4 DEF RInv
<1>7. resume.pc \notin Unplanned /\ resume'.pc \notin Unapplied /\ resume'.pc \notin Starting
  BY <1>4 DEF Unapplied, Unplanned, Selecting, Starting
<1> QED  BY <1>4, <1>5, <1>6, <1>7, ApplyingKeeps

LEMMA KilledAsKeeps ==
    ASSUME LInv, RInv, resume.pc \notin Unapplied, \E status : KilledAs(status)
    PROVE  RInv'
BY ConcludeKeeps DEF KilledAs, Kill

LEMMA AdoptKeeps ==
    ASSUME LInv, RInv, history' = history, now' = now, resume.pc = "item",
           resume.all => resume.i \in DOMAIN resume.plan, \E w : Adopt(w)
    PROVE  RInv'
<1>1. PICK w : Adopt(w)
  OBVIOUS
<1>2. IsResume(resume)
  BY DEF LInv, Stage
<1>3. PICK plan, mapped : /\ plan = [resume.plan EXCEPT ![resume.i].status = "already_open"]
                          /\ resume' = [resume EXCEPT !.pc = "place", !.window = w, !.mapped = mapped,
                                                      !.plan = plan]
  BY <1>1, <1>2 DEF Adopt, IsResume
<1>4. /\ resume'.pc = "place" /\ resume'.all = resume.all /\ resume'.selection = resume.selection
      /\ resume'.i = resume.i /\ resume'.plan = plan
  BY <1>2, <1>3 DEF IsResume
<1>5. OtherResults(resume.plan, resume'.plan)
  <2>1. /\ plan = [k \in DOMAIN resume.plan |-> plan[k]]
        /\ \A k \in DOMAIN resume.plan :
              plan[k] \in {resume.plan[k], [resume.plan[k] EXCEPT !.status = "already_open"]}
    BY <1>3
  <2> QED  BY <1>4, <2>1 DEF OtherResults
<1>6. resume.pc \notin Unapplied /\ resume.pc \notin Unplanned
      /\ resume'.pc \notin Unapplied /\ resume'.pc \notin Starting
  BY <1>4 DEF Unapplied, Unplanned, Selecting, Starting
<1>7. resume.all => resume'.i \in Nat \ {0}
  BY <1>4, <1>6 DEF RInv
<1> QED  BY <1>4, <1>5, <1>6, <1>7, ApplyingKeeps

LEMMA MapExistingKeeps ==
    ASSUME LInv, RInv, MapExisting
    PROVE  RInv'
<1> DEFINE Fail(S) == [i \in DOMAIN resume.plan |->
                         IF i \in S /\ Actionable(resume.plan[i])
                         THEN [resume.plan[i] EXCEPT !.status = "failed"] ELSE resume.plan[i]]
<1>1. history' = history /\ now' = now /\ IsResume(resume) /\ resume.pc = "map"
  BY DEF MapExisting, At, world, LInv, Stage
<1>2. PICK S, mapped : resume' = [resume EXCEPT !.pc = "item", !.i = 1, !.plan = Fail(S), !.mapped = mapped]
  <2> DEFINE doomed == {i \in DOMAIN resume.plan :
                          Cardinality(SessionWindows(resume.plan[i].session)) > 1}
             one == [i \in DOMAIN resume.plan |->
                       LET found == SessionWindows(resume.plan[i].session) IN
                       IF Cardinality(found) = 1 THEN TheOnly(found) ELSE None]
             none == [i \in DOMAIN resume.plan |-> None]
  <2>1. \/ resume' = [resume EXCEPT !.pc = "item", !.i = 1, !.plan = Fail(doomed), !.mapped = one]
        \/ resume' = [resume EXCEPT !.pc = "item", !.i = 1, !.plan = Fail(DOMAIN @), !.mapped = none]
    BY DEF MapExisting
  <2> HIDE DEF doomed, one, none
  <2>2. [resume EXCEPT !.pc = "item", !.i = 1, !.plan = Fail(DOMAIN @), !.mapped = none]
          = [resume EXCEPT !.pc = "item", !.i = 1, !.plan = Fail(DOMAIN resume.plan), !.mapped = none]
    BY <1>1 DEF IsResume
  <2> HIDE DEF Fail
  <2> QED  BY <2>1, <2>2, Zenon
<1>3. PICK plan : plan = Fail(S)
  OBVIOUS
<1>4. /\ resume'.pc = "item" /\ resume'.all = resume.all /\ resume'.selection = resume.selection
      /\ resume'.i = 1 /\ resume'.plan = plan
  <2> HIDE DEF Fail
  <2> QED  BY <1>1, <1>2, <1>3 DEF IsResume
<1>5. OtherResults(resume.plan, resume'.plan)
  <2>1. /\ plan = [k \in DOMAIN resume.plan |-> plan[k]]
        /\ \A k \in DOMAIN resume.plan :
              plan[k] \in {resume.plan[k], [resume.plan[k] EXCEPT !.status = "failed"]}
    BY <1>3
  <2> QED  BY <1>4, <2>1 DEF OtherResults
<1>6. resume.pc \notin Unplanned /\ resume'.pc \notin Unapplied /\ resume'.pc \notin Starting
  BY <1>1, <1>4 DEF Unapplied, Unplanned, Selecting, Starting
<1> QED  BY <1>1, <1>4, <1>5, <1>6, ApplyingKeeps

LEMMA NextItemFits ==
    ASSUME LInv, RInv, NextItem
    PROVE  RInv'
<1>1. history' = history /\ now' = now /\ IsResume(resume) /\ resume.pc = "item"
  BY DEF NextItem, At, world, LInv, Stage
<1>2. resume.pc \notin Unplanned /\ resume.pc \notin Unapplied
  BY <1>1 DEF Unapplied, Unplanned, Selecting
<1>3. resume.all => resume.i \in DOMAIN resume.plan
  BY <1>2, PlanLength DEF RInv, NextItem
<1>4. CASE Goes(IF resume.all THEN "list" ELSE "start")
  <2>1. /\ resume'.pc = IF resume.all THEN "list" ELSE "start"
        /\ resume'.all = resume.all /\ resume'.selection = resume.selection
        /\ resume'.plan = resume.plan /\ resume'.i = resume.i
    BY <1>1, <1>4 DEF Goes, IsResume
  <2>2. /\ resume'.pc \notin Unapplied /\ resume'.pc # "unique"
        /\ resume.all => resume'.pc \notin Starting
    BY <2>1 DEF Unapplied, Unplanned, Selecting, Starting
  <2> QED  BY <1>1, <1>2, <1>3, <2>1, <2>2, GoingOnKeeps
<1>5. \/ \E status : Conclude(status)
      \/ \E w : Adopt(w)
      \/ Goes(IF resume.all THEN "list" ELSE "start")
  BY DEF NextItem
<1> QED  BY <1>1, <1>2, <1>3, <1>4, <1>5, ConcludeKeeps, AdoptKeeps

LEMMA ListAgainFits ==
    ASSUME LInv, RInv, ListAgain
    PROVE  RInv'
<1>1. history' = history /\ now' = now /\ IsResume(resume) /\ resume.pc = "list"
  BY DEF ListAgain, At, world, LInv, Stage
<1>2. resume.pc \notin Unapplied /\ resume.pc \notin {"item", "order"}
  BY <1>1 DEF Unapplied, Unplanned, Selecting
<1>3. CASE resume' = [resume EXCEPT !.pc = "revalidate", !.listed = Running]
  <2>1. PICK listed : resume' = [resume EXCEPT !.pc = "revalidate", !.listed = listed]
    BY <1>3
  <2>2. /\ resume'.pc = "revalidate" /\ resume'.all = resume.all /\ resume'.selection = resume.selection
        /\ resume'.plan = resume.plan /\ resume'.i = resume.i
    BY <1>1, <2>1 DEF IsResume
  <2>3. resume'.pc \notin Unapplied /\ resume'.pc # "unique" /\ resume'.pc \notin Starting
    BY <2>2 DEF Unapplied, Unplanned, Selecting, Starting
  <2>4. resume.all => resume.i \in DOMAIN resume.plan
    BY <1>2 DEF RInv
  <2> QED  BY <1>1, <1>2, <2>2, <2>3, <2>4, GoingOnKeeps
<1> QED  BY <1>1, <1>2, <1>3, ConcludeKeeps DEF ListAgain

\* The session of the item is running, or it is one of those that were active
\* in the newest checkpoint of an earlier boot and that is not too old.
LEMMA MayBeRaised ==
    ASSUME LInv, RInv, resume.all, resume.pc = "revalidate",
           \/ CatalogNow[TheItem.session] = "active"
           \/ TheItem.source = "prior" /\ ~Aged(resume.selection.checkpoint, now)
    PROVE  TheItem.session \in Attachable
<1>1. SelectionFits /\ PlanFits /\ resume.i \in DOMAIN resume.plan
  BY DEF RInv, Selecting, Unplanned, Unapplied
<1>2. Fits(TheItem, resume.selection)
  <2>1. PICK n \in Nat : /\ resume.plan = [k \in 1..n |-> resume.plan[k]]
                         /\ \A k \in 1..n : Fits(resume.plan[k], resume.selection)
    BY <1>1 DEF PlanFits, Planned
  <2>2. resume.i \in 1..n
    BY <1>1, <2>1
  <2> QED  BY <2>1, <2>2 DEF TheItem
<1>3. CASE CatalogNow[TheItem.session] = "active"
  <2>1. PICK x \in Sessions : x = TheItem.session
    BY <1>2 DEF Fits
  <2>2. CatalogStatus(x \in resume.listed, zellij[x]) = "active"
    BY <1>3, <2>1 DEF CatalogNow
  <2>3. zellij[x] = "running"
    BY <2>2 DEF CatalogStatus
  <2> QED  BY <2>1, <2>3 DEF Attachable, Running
<1>4. CASE TheItem.source = "prior" /\ ~Aged(resume.selection.checkpoint, now)
  <2>1. PICK x \in Sessions : x = TheItem.session
    BY <1>2 DEF Fits
  <2>2. resume.selection.source = "prior" /\ x \in resume.selection.checkpoint.active
    BY <1>2, <1>4, <2>1 DEF Fits
  <2>3. PICK i \in Mine(history) : /\ resume.selection.checkpoint = history[i]
                                   /\ \A j \in Mine(history) : history[j].at <= history[i].at
    BY <1>1, <2>2 DEF SelectionFits
  <2>4. \A j \in Mine(history) : history[j].boot # Boot
    BY <1>1, <2>2 DEF SelectionFits, OfBoot
  <2>5. now <= history[i].at + MaxAge
    <3>1. i \in DOMAIN history /\ history[i].at \in Int /\ now \in Int /\ MaxAge \in Nat
      BY CheckpointsListed DEF RInv, Mine
    <3>2. ~(now - history[i].at > MaxAge)
      BY <1>4, <2>3 DEF Aged
    <3> QED  BY <3>1, <3>2
  <2> QED  BY <2>1, <2>2, <2>3, <2>4, <2>5 DEF Attachable, Mine
<1> QED  BY <1>3, <1>4

LEMMA RevalidationFits ==
    ASSUME LInv, RInv, RevalidateAllCandidate, Record
    PROVE  RInv'
<1>1. /\ UNCHANGED world /\ history' = history /\ now' = now /\ IsResume(resume)
      /\ resume.pc = "revalidate"
  BY DEF RevalidateAllCandidate, At, world, LInv, Stage
<1>2. resume.pc \notin Unapplied /\ resume.pc \notin {"item", "order"}
  BY <1>1 DEF Unapplied, Unplanned, Selecting
<1>3. CASE resume' = [resume EXCEPT !.pc = "start", !.listed = {}] /\ ~\E status : Conclude(status)
  <2>1. /\ resume'.pc = "start" /\ resume'.all = resume.all /\ resume'.selection = resume.selection
        /\ resume'.plan = resume.plan /\ resume'.i = resume.i
    BY <1>1, <1>3 DEF IsResume
  <2>2. resume'.pc \notin Unapplied /\ resume'.pc # "unique"
    BY <2>1 DEF Unapplied, Unplanned, Selecting
  <2>3. \/ CatalogNow[TheItem.session] = "active"
        \/ TheItem.source = "prior" /\ ~Aged(resume.selection.checkpoint, now)
    BY <1>3 DEF RevalidateAllCandidate
  <2>4. resume.all => resume.i \in DOMAIN resume.plan /\ TheItem.session \in Attachable
    BY <1>1, <1>2, <2>3, MayBeRaised DEF RInv
  <2>5. Attachable' = Attachable
    BY <1>1 DEF Attachable, Running, world
  <2>6. Attachable \subseteq lively'
    BY <2>1, <2>5 DEF Record, Launching
  <2> QED  BY <1>1, <1>2, <2>1, <2>2, <2>4, <2>6, GoingOnKeeps
<1>4. \/ \E status : Conclude(status)
      \/ resume' = [resume EXCEPT !.pc = "start", !.listed = {}]
  BY DEF RevalidateAllCandidate
<1> QED  BY <1>1, <1>2, <1>3, <1>4, ConcludeKeeps

\* What the session was at once counts as long as the item is dealt with.
LEMMA LivelyGrows ==
    ASSUME Record, resume.pc # "item", resume'.pc \in Launching
    PROVE  lively \subseteq lively'
BY DEF Record, At

LEMMA StartKittyFits ==
    ASSUME LInv, RInv, StartKitty, Record
    PROVE  RInv'
<1>1. /\ history' = history /\ now' = now /\ IsResume(resume) /\ resume.pc = "start"
  BY DEF StartKitty, At, world, LInv, Stage
<1>2. resume.pc \notin Unapplied /\ resume.pc \notin {"item", "order"} /\ resume.pc \in Starting
  BY <1>1 DEF Unapplied, Unplanned, Selecting, Starting
<1>3. CASE \E p : resume' = [resume EXCEPT !.pc = "window", !.pid = p]
  <2>1. /\ resume'.pc = "window" /\ resume'.all = resume.all /\ resume'.selection = resume.selection
        /\ resume'.plan = resume.plan /\ resume'.i = resume.i
    BY <1>1, <1>3 DEF IsResume
  <2>2. resume'.pc \notin Unapplied /\ resume'.pc # "unique" /\ resume'.pc \in Launching
    BY <2>1 DEF Unapplied, Unplanned, Selecting, Launching
  <2>3. resume.all => resume.i \in DOMAIN resume.plan /\ TheItem.session \in lively
    BY <1>2 DEF RInv
  <2>4. lively \subseteq lively'
    BY <1>1, <2>2, LivelyGrows
  <2> QED  BY <1>1, <1>2, <2>1, <2>2, <2>3, <2>4, GoingOnKeeps
<1>4. \/ \E status : Conclude(status)
      \/ \E p : resume' = [resume EXCEPT !.pc = "window", !.pid = p]
  BY DEF StartKitty
<1> QED  BY <1>1, <1>2, <1>3, <1>4, ConcludeKeeps

LEMMA WaitForWindowFits ==
    ASSUME LInv, RInv, WaitForWindow, Record
    PROVE  RInv'
<1>1. history' = history /\ now' = now /\ IsResume(resume) /\ resume.pc = "window"
  BY DEF WaitForWindow, At, world, KilledAs, Kill, LInv, Stage
<1>2. resume.pc \notin Unapplied /\ resume.pc \notin {"item", "order"} /\ resume.pc \in Starting
  BY <1>1 DEF Unapplied, Unplanned, Selecting, Starting
<1>3. CASE \E w : resume' = [resume EXCEPT !.pc = "attach", !.window = w]
  <2>1. /\ resume'.pc = "attach" /\ resume'.all = resume.all /\ resume'.selection = resume.selection
        /\ resume'.plan = resume.plan /\ resume'.i = resume.i
    BY <1>1, <1>3 DEF IsResume
  <2>2. resume'.pc \notin Unapplied /\ resume'.pc # "unique" /\ resume'.pc \in Launching
    BY <2>1 DEF Unapplied, Unplanned, Selecting, Launching
  <2>3. resume.all => resume.i \in DOMAIN resume.plan /\ TheItem.session \in lively
    BY <1>2 DEF RInv
  <2>4. lively \subseteq lively'
    BY <1>1, <2>2, LivelyGrows
  <2> QED  BY <1>1, <1>2, <2>1, <2>2, <2>3, <2>4, GoingOnKeeps
<1>4. \/ \E status : Conclude(status)
      \/ \E w : resume' = [resume EXCEPT !.pc = "attach", !.window = w]
  BY DEF WaitForWindow, KilledAs
<1> QED  BY <1>1, <1>2, <1>3, <1>4, ConcludeKeeps

\* A Kitty that is attached starts no client any more.
LEMMA WaitForAttachmentFits ==
    ASSUME LInv, RInv, WaitForAttachment, Record
    PROVE  RInv'
<1>1. history' = history /\ now' = now /\ IsResume(resume) /\ resume.pc = "attach"
  BY DEF WaitForAttachment, At, world, KilledAs, Kill, LInv, Stage
<1>2. resume.pc \notin Unapplied /\ resume.pc \notin {"item", "order"} /\ resume.pc \in Starting
  BY <1>1 DEF Unapplied, Unplanned, Selecting, Starting
<1>3. ASSUME NEW pc \in {"attach", "unique"}, NEW sure, UNCHANGED world,
             resume' = [resume EXCEPT !.pc = pc, !.sure = sure],
             pc = "unique" => Attached(resume.pid, TheItem.session)
      PROVE  RInv'
  <2>1. /\ resume'.pc = pc /\ resume'.all = resume.all /\ resume'.selection = resume.selection
        /\ resume'.plan = resume.plan /\ resume'.i = resume.i /\ resume'.pid = resume.pid
    BY <1>1, <1>3 DEF IsResume
  <2>2. resume'.pc \notin Unapplied
    BY <2>1 DEF Unapplied, Unplanned, Selecting
  <2>3. resume.all => resume.i \in DOMAIN resume.plan /\ TheItem.session \in lively
    BY <1>2 DEF RInv
  <2>4. resume'.pc \in Starting => lively \subseteq lively'
    BY <1>1, <2>1, LivelyGrows DEF Starting, Launching
  <2>5. ASSUME resume'.pc = "unique", resume'.pid \in Alive'
        PROVE  kitty'[resume'.pid].starts = None
    <3>1. /\ resume.pid \in Alive /\ kitty' = kitty
          /\ kitty[resume.pid].runs = TheItem.session /\ launched[resume.pid] = TheItem.session
      BY <1>1, <1>3, <2>1, <2>5 DEF world, Alive, Attached, LInv, Stage, Waiting
    <3>2. kitty[resume.pid].starts = None
      BY <3>1 DEF LInv, Clients
    <3> QED  BY <2>1, <3>1, <3>2
  <2> QED  BY <1>1, <1>2, <2>1, <2>2, <2>3, <2>4, <2>5, GoingOnKeeps
<1>4. \/ \E status : Conclude(status)
      \/ /\ UNCHANGED world /\ Attached(resume.pid, TheItem.session)
         /\ resume' = [resume EXCEPT !.pc = "unique"]
      \/ UNCHANGED world /\ \E sure : resume' = [resume EXCEPT !.sure = sure]
  <2>1. resume' = [resume EXCEPT !.sure = @ + 1] => resume' = [resume EXCEPT !.sure = resume.sure + 1]
    BY <1>1 DEF IsResume
  <2> QED  BY <2>1 DEF WaitForAttachment, KilledAs
<1>5. CASE /\ UNCHANGED world /\ Attached(resume.pid, TheItem.session)
           /\ resume' = [resume EXCEPT !.pc = "unique"]
  <2>1. resume' = [resume EXCEPT !.pc = "unique", !.sure = resume.sure]
    BY <1>1, <1>5 DEF IsResume
  <2> QED  BY <1>3, <1>5, <2>1
<1>6. ASSUME UNCHANGED world, NEW sure, resume' = [resume EXCEPT !.sure = sure]
      PROVE  RInv'
  <2>1. resume' = [resume EXCEPT !.pc = "attach", !.sure = sure]
    BY <1>1, <1>6 DEF IsResume
  <2> QED  BY <1>3, <1>6, <2>1
<1> QED  BY <1>1, <1>2, <1>4, <1>5, <1>6, ConcludeKeeps

LEMMA PlacingFits ==
    ASSUME LInv, RInv,
           RevalidateUniqueLaunchedAttachment \/ MoveToWorkspace \/ WaitForWorkspace \/ OrderColumns
    PROVE  RInv'
<1>1. /\ history' = history /\ now' = now /\ IsResume(resume)
      /\ resume.pc \in {"unique", "place", "moved", "item"}
  BY DEF RevalidateUniqueLaunchedAttachment, MoveToWorkspace, WaitForWorkspace, OrderColumns,
         At, world, KilledAs, Kill, LInv, Stage
<1>2. resume.pc \notin Unapplied
  BY <1>1 DEF Unapplied, Unplanned, Selecting
<1>3. ASSUME NEW pc \in {"place", "moved", "order"}, NEW mapped,
             pc = "order" \/ resume.pc # "item",
             resume' = [resume EXCEPT !.pc = pc, !.mapped = mapped]
      PROVE  RInv'
  <2>1. /\ resume'.pc = pc /\ resume'.all = resume.all /\ resume'.selection = resume.selection
        /\ resume'.plan = resume.plan /\ resume'.i = resume.i
    BY <1>1, <1>3 DEF IsResume
  <2>2. resume'.pc \notin Unapplied /\ resume'.pc # "unique" /\ resume'.pc \notin Starting
    BY <2>1 DEF Unapplied, Unplanned, Selecting, Starting
  <2>3. resume.all /\ resume'.pc \notin {"item", "order"} => resume.i \in DOMAIN resume.plan
    BY <1>1, <1>2, <1>3, <2>1 DEF RInv
  <2> QED  BY <1>1, <1>2, <2>1, <2>2, <2>3, GoingOnKeeps
<1>4. CASE \E status : Conclude(status)
  BY <1>1, <1>2, <1>4, ConcludeKeeps
<1>5. CASE RevalidateUniqueLaunchedAttachment /\ ~\E status : Conclude(status)
  <2>1. /\ resume.pc = "unique"
        /\ resume' = [resume EXCEPT !.pc = "place", !.mapped[resume.i] = resume.window]
    BY <1>5 DEF RevalidateUniqueLaunchedAttachment, KilledAs, At
  <2>2. PICK mapped : mapped = [resume.mapped EXCEPT ![resume.i] = resume.window]
    OBVIOUS
  <2>3. resume' = [resume EXCEPT !.pc = "place", !.mapped = mapped]
    BY <1>1, <2>1, <2>2 DEF IsResume
  <2> QED  BY <1>3, <2>1, <2>3
<1>6. CASE MoveToWorkspace /\ Goes("moved")
  <2>1. resume' = [resume EXCEPT !.pc = "moved", !.mapped = resume.mapped]
    BY <1>1, <1>6 DEF Goes, IsResume
  <2> QED  BY <1>3, <1>6, <2>1 DEF MoveToWorkspace, At
<1>7. CASE OrderColumns
  <2>1. resume' = [resume EXCEPT !.pc = "order", !.mapped = resume.mapped]
    BY <1>1, <1>7 DEF OrderColumns, Goes, IsResume
  <2> QED  BY <1>3, <2>1
<1>8. MoveToWorkspace \/ WaitForWorkspace => (Goes("moved") /\ MoveToWorkspace) \/ \E status : Conclude(status)
  BY DEF MoveToWorkspace, WaitForWorkspace
<1> QED  BY <1>4, <1>5, <1>6, <1>7, <1>8

\* Meanwhile Kitty, zellij, the clock and the user go on.
LEMMA AsideFits ==
    ASSUME LInv, RInv, Onward, UNCHANGED resume, history' = history, now' \in Int,
           resume.pc \in Starting => lively \subseteq lively'
    PROVE  RInv'
<1>1. TheItem' = TheItem
  BY DEF TheItem
<1>2. SelectionFits => SelectionFits'
  BY SelectionKept
<1>3. PlanFits => PlanFits'
  BY DEF PlanFits
<1>4. resume.pc = "unique" /\ resume.pid \in Alive' => kitty'[resume.pid].starts = None
  BY DEF RInv, Onward
<1> QED  BY <1>1, <1>2, <1>3, <1>4 DEF RInv

LEMMA OthersFit ==
    ASSUME LInv, RInv, UserActs \/ TimePasses \/ KittyActs, Record
    PROVE  RInv'
<1>1. UNCHANGED resume /\ history' = history /\ now' \in Int
  <2>1. now \in Int
    BY DEF RInv
  <2>2. CASE UserActs
    <3>1. history' = history /\ now' = now
      BY <2>2 DEF UserActs, UserStep, UserOpens, UserCloses, CloseWindow, UserCopies, UserMoves, SessionEnds
    <3> QED  BY <2>1, <2>2, <3>1 DEF UserActs
  <2>3. CASE TimePasses
    BY <2>1, <2>3 DEF TimePasses
  <2>4. CASE KittyActs
    <3>1. history' = history /\ now' = now
      BY <2>4 DEF KittyActs, WindowAppears, ClientStarts, ClientEnds, CloseWindow
    <3> QED  BY <2>1, <2>4, <3>1 DEF KittyActs
  <2> QED  BY <2>2, <2>3, <2>4
<1>2. Onward
  BY UserStepOn, KittyActsOn, WorldOn DEF UserActs, TimePasses
<1>3. resume.pc \in Starting => lively \subseteq lively'
  BY <1>1, LivelyGrows DEF Starting, Launching
<1> QED  BY <1>1, <1>2, <1>3, AsideFits

LEMMA NextFits ==
    ASSUME LInv, RInv, [Next]_vars
    PROVE  RInv'
<1>1. CASE Start \/ End
  <2>1. IsResume(resume) /\ history' = history /\ now' = now
    BY <1>1 DEF LInv, Stage, Start, End, world
  <2>2. resume'.pc \in Selecting
    BY <1>1, <2>1, NotRunningFields DEF Start, End, Finish, IsResume, Selecting
  <2> QED  BY <2>1, <2>2, SelectingKeeps
<1>2. CASE WaitForNiri \/ Collect \/ MakePlan \/ MapExisting
  BY <1>2, WaitForNiriSelects, CollectSelects, MakePlanFits, MapExistingKeeps
<1>3. CASE NextItem \/ ListAgain
  BY <1>3, NextItemFits, ListAgainFits
<1>4. CASE (RevalidateAllCandidate \/ StartKitty \/ WaitForWindow \/ WaitForAttachment) /\ Record
  BY <1>4, RevalidationFits, StartKittyFits, WaitForWindowFits, WaitForAttachmentFits
<1>5. CASE RevalidateUniqueLaunchedAttachment \/ MoveToWorkspace \/ WaitForWorkspace \/ OrderColumns
  BY <1>5, PlacingFits
<1>6. CASE (UserActs \/ TimePasses \/ KittyActs) /\ Record
  BY <1>6, OthersFit
<1>7. CASE UNCHANGED vars
  <2>1. /\ UNCHANGED resume /\ history' = history /\ now' \in Int /\ lively' = lively
        /\ UNCHANGED <<kitty, windows, launched>>
    BY <1>7 DEF vars, RInv
  <2> QED  BY <2>1, WorldOn, AsideFits
<1> QED  BY <1>1, <1>2, <1>3, <1>4, <1>5, <1>6, <1>7 DEF Next

\* The history is there as long as the first phase lasts.
RaisesInv == LInv /\ OrderingInv /\ (run = Unordered => RInv)

LEMMA RaisesStep == RaisesInv /\ [NextResume]_<<vars, ordering>> => RaisesInv'
<1> SUFFICES ASSUME RaisesInv, [NextResume]_<<vars, ordering>> PROVE RaisesInv'
  OBVIOUS
<1>1. LInv' /\ OrderingInv'
  BY LaunchesStep, OrderingStep DEF RaisesInv
<1>2. CASE run = Unordered /\ Place
  BY <1>1, <1>2, NextFits DEF Place, RaisesInv
<1>3. CASE HandOver \/ BeginOrdering
  <2>1. run'.pc # "off"
    BY <1>3 DEF HandOver, BeginOrdering, Unordered, Columns!Ordering
  <2> QED  BY <1>1, <2>1 DEF RaisesInv, Unordered
<1>4. CASE Order
  <2>1. AstrayInv
    BY <1>4 DEF RaisesInv, OrderingInv, Order
  <2>2. AstrayInv'
    BY <1>4, <2>1, NextKeepsInv DEF Order
  <2>3. "expected" \notin DOMAIN Unordered
    BY DEF Unordered
  <2>4. run' # Unordered
    BY <2>2, <2>3 DEF AstrayInv
  <2> QED  BY <1>1, <2>4 DEF RaisesInv
<1>5. CASE UNCHANGED <<vars, ordering>>
  <2>1. UNCHANGED vars /\ run' = run
    BY <1>5 DEF ordering
  <2> QED  BY <1>1, <2>1, NextFits DEF RaisesInv
<1> QED  BY <1>2, <1>3, <1>4, <1>5 DEF NextResume

\* Only a client that starts makes a Kitty run what it did not.
LEMMA StartsOnlyAllowed ==
    ASSUME LInv, RInv, Next, resume.all, NEW p \in Alive, kitty[p].runs = None,
           p \in DOMAIN kitty', kitty'[p].runs # None, zellij' # zellij
    PROVE  launched[p] \in lively
<1>1. UserActs \/ KittyActs
  BY DEF Next, Start, WaitForNiri, Collect, MakePlan, MapExisting, NextItem, ListAgain,
         RevalidateAllCandidate, StartKitty, WaitForWindow, WaitForAttachment, KilledAs, Kill,
         RevalidateUniqueLaunchedAttachment, MoveToWorkspace, WaitForWorkspace, OrderColumns, End,
         TimePasses, world
<1>2. Onward
  BY <1>1, UserStepOn, KittyActsOn DEF UserActs
<1>3. p \in Alive'
  BY <1>2 DEF Onward, Alive
<1>4. kitty[p].starts # None
  BY <1>2, <1>3 DEF Onward
<1>5. p = resume.pid /\ resume.pc \in Waiting
  <2>1. ~Settled(p) /\ p # None
    BY <1>4, NoneAlive DEF Settled
  <2> QED  BY <2>1 DEF LInv, Left, Stage
<1>6. launched[p] = TheItem.session /\ resume.pc \in Starting
  BY <1>4, <1>5 DEF LInv, Stage, RInv, Waiting, Starting
<1> QED  BY <1>6 DEF RInv

\* However the boots, the checkpoints and the clock stand, whatever fails and
\* whatever the user does, a resume --all raises only sessions that were
\* running at some moment since it turned to them, or that were active in the
\* newest checkpoint of an earlier boot when that was not too old
\* (executor.go:327-378).
THEOREM RaisesOnlyAllowedHolds == ResumeSpec => RaisesOnlyAllowed
<1>1. InitResume => RaisesInv
  <2> SUFFICES ASSUME InitResume PROVE RaisesInv
    OBVIOUS
  <2>1. LInv /\ OrderingInv
    BY InitLaunches DEF InitResume, OrderingInv, Unordered, NotOrdering
  <2>2. history \in Histories /\ now = 0 /\ resume.pc = "idle" /\ resume.all = FALSE
    BY DEF InitResume, Init, NotRunning
  <2>3. RInv
    BY <2>2 DEF RInv
  <2> QED  BY <2>1, <2>3 DEF RaisesInv
<1>2. RaisesInv /\ [NextResume]_<<vars, ordering>>
        => [\A p \in Alive : resume.all /\ kitty[p].runs = None /\ p \in DOMAIN kitty'
              /\ kitty'[p].runs # None /\ zellij' # zellij => launched[p] \in lively]_vars
  <2> SUFFICES ASSUME RaisesInv, [NextResume]_<<vars, ordering>>, ~UNCHANGED vars,
                      NEW p \in Alive, resume.all, kitty[p].runs = None, p \in DOMAIN kitty',
                      kitty'[p].runs # None, zellij' # zellij
               PROVE  launched[p] \in lively
    OBVIOUS
  <2>1. run = Unordered /\ (Place \/ HandOver)
    BY DEF NextResume, BeginOrdering, Order
  <2>2. ~HandOver
    BY DEF HandOver, Empty
  <2> QED  BY <2>1, <2>2, StartsOnlyAllowed DEF Place, RaisesInv
<1> QED  BY <1>1, <1>2, RaisesStep, PTL DEF ResumeSpec, RaisesOnlyAllowed

=============================================================================
