------------------------ MODULE SharedDesktopProofs ------------------------
(***************************************************************************)
(* Proofs about the mirror commands on one desktop, for every number of    *)
(* sessions, windows, launches and acts of the user.                       *)
(***************************************************************************)
EXTENDS SharedDesktop, FiniteSetTheorems, TLAPS

-----------------------------------------------------------------------------
(* The launches as a sequence.                                             *)

IsAttempt(a) ==
    /\ a \in [by : Owners, run : Nat, session : {a.session},
              fate : {"open", "confirmed", "abandoned"}, copied : BOOLEAN]
    /\ a.session # None

IsLog(q) == q \in Seq({q[t] : t \in DOMAIN q}) /\ \A t \in DOMAIN q : IsAttempt(q[t])

LEMMA LogIsList ==
    ASSUME NEW q, IsLog(q)
    PROVE  Len(q) \in Nat /\ DOMAIN q = 1..Len(q)
BY DEF IsLog

LEMMA Appended ==
    ASSUME NEW q, IsLog(q), NEW a, IsAttempt(a)
    PROVE  /\ IsLog(Append(q, a)) /\ Len(Append(q, a)) = Len(q) + 1
           /\ Len(q) + 1 \notin DOMAIN q /\ DOMAIN Append(q, a) = DOMAIN q \cup {Len(q) + 1}
           /\ Append(q, a)[Len(q) + 1] = a
           /\ \A t \in DOMAIN q : Append(q, a)[t] = q[t]
<1> DEFINE S == {q[t] : t \in DOMAIN q}
           r == Append(q, a)
<1>1. q \in Seq(S) /\ Len(q) \in Nat /\ DOMAIN q = 1..Len(q)
  BY DEF IsLog
<1>2. q \in Seq(S \cup {a})
  <2> HIDE DEF S
  <2> QED  BY <1>1
<1> HIDE DEF S
<1>3. /\ Len(r) = Len(q) + 1 /\ DOMAIN r = 1..(Len(q) + 1) /\ r[Len(q) + 1] = a
      /\ \A t \in 1..Len(q) : r[t] = q[t]
  BY <1>1, <1>2
<1>4. DOMAIN r = DOMAIN q \cup {Len(q) + 1} /\ Len(q) + 1 \notin DOMAIN q
  BY <1>1, <1>3
<1>5. r \in Seq({r[t] : t \in DOMAIN r})
  <2>1. r = [t \in 1..(Len(q) + 1) |-> r[t]]
    <3> DEFINE U == S \cup {a}
    <3>1. q \in Seq(U) /\ a \in U
      BY <1>2
    <3> HIDE DEF U
    <3>2. r \in Seq(U)
      BY <3>1
    <3> HIDE DEF r
    <3> QED  BY <1>1, <1>3, <3>2
  <2> HIDE DEF r
  <2> QED  BY <1>1, <1>3, <2>1
<1>6. \A t \in DOMAIN r : IsAttempt(r[t])
  BY <1>1, <1>3, <1>4 DEF IsLog
<1> QED  BY <1>1, <1>3, <1>4, <1>5, <1>6 DEF IsLog

LEMMA Listed ==
    ASSUME NEW r, NEW n \in Nat, r = [t \in 1..n |-> r[t]], \A t \in 1..n : IsAttempt(r[t])
    PROVE  IsLog(r) /\ Len(r) = n
<1>1. r \in Seq({r[t] : t \in DOMAIN r}) /\ Len(r) = n /\ DOMAIN r = 1..n
  OBVIOUS
<1> QED  BY <1>1 DEF IsLog

-----------------------------------------------------------------------------
(* The desktop.                                                            *)

\* The ID of a window that is or was there, or of one that never came.
Used(id) == \/ \E t \in DOMAIN log \ launches : id = LaunchedID(t)
            \/ \E k \in (left + 1)..UserSteps : id = 2 * k + 1

IsWindow(w) ==
    w \in [id : Nat, session : {w.session}, token : {w.token}, up : BOOLEAN, place : {w.place}]

\* A window with a token is that launch's own window or a copy of it.
Bears(w, t) ==
    /\ t \in DOMAIN log \ launches
    /\ w.session = log[t].session
    /\ w.id = LaunchedID(t) \/ log[t].copied

WindowsFit ==
    /\ \A w \in windows : IsWindow(w) /\ Used(w.id) /\ (w.token # None => Bears(w, w.token))
    /\ \A v, w \in windows : v.id = w.id => v = w

\* A launch is confirmed by the answer of the helper in its window.
Seen(t) ==
    log[t].fate = "confirmed" =>
       /\ t \notin launches
       /\ log[t].copied \/ \A w \in windows : w.token = t => w.up

Desk ==
    /\ IsLog(log) /\ launches \subseteq DOMAIN log /\ left \in 0..UserSteps /\ shape \in Shapes
    /\ WindowsFit
    /\ \A t \in DOMAIN log : Seen(t)

\* No step takes back what is on the desktop's record.
Onward ==
    /\ DOMAIN log \subseteq DOMAIN log'
    /\ \A t \in DOMAIN log :
          /\ log'[t].by = log[t].by /\ log'[t].run = log[t].run /\ log'[t].session = log[t].session
          /\ log[t].fate # "open" => log'[t].fate = log[t].fate
          /\ log[t].copied => log'[t].copied
          /\ Lives(t)' => Lives(t)
    /\ \A id \in Nat : Used(id) => Used(id)'
    /\ \A w \in windows' : Used(w.id) =>
          \E v \in windows : v.id = w.id /\ v.token = w.token

Unmoved == \A w \in windows, x \in windows' : w.id = x.id => w.place = x.place

\* A session whose launches may be alive twice: one of them ended in
\* uncertainty, or its window was copied.
Excused(x) ==
    \E a \in DOMAIN log : log[a].session = x /\ (log[a].fate = "abandoned" \/ log[a].copied)

Clear(x) == Excused(x) \/ \A t \in DOMAIN log : log[t].session = x => ~Lives(t)

-----------------------------------------------------------------------------
(* The processes.                                                          *)

SavePlaces == {"off", "windows", "workspaces", "inspect", "lock"} \cup SaveHolding

\* Who holds the lock is who is between his locking and his unlocking.
Held ==
    /\ fpc \in FollowPlaces /\ apc \in ApplyPlaces /\ spc \in SavePlaces
    /\ lock \in {None, "follow", "apply", "save"}
    /\ lock = "follow" <=> fpc \in Holding
    /\ lock = "apply" <=> apc \in ApplyHolding
    /\ lock = "save" <=> spc \in SaveHolding

\* The sessions a poll found to open: one each, in one order.
Planned(P) ==
    /\ IsFiniteSet(P)
    /\ \A p \in P : p \in [session : {p.session}, order : Nat] /\ p.session # None
    /\ \A p, q \in P : p.session = q.session \/ p.order = q.order => p = q

IsFollow(f) ==
    f \in [run : {f.run}, sel : {f.sel}, dest : {f.dest}, elig : {f.elig}, known : {f.known},
           before : {f.before}, plans : {f.plans}, item : {f.item}, token : {f.token},
           match : {f.match}, target : {f.target}, seen : {f.seen}, attempts : Nat, batch : Nat]

\* t is a launch of this owner's run for session x, with the fate so far.
Launched(t, owner, run, x, fate) ==
    /\ t \in DOMAIN log
    /\ log[t].by = owner /\ log[t].run = run /\ log[t].session = x /\ log[t].fate = fate

\* If a window has this ID it shows the launch t.
Shows(id, t) ==
    /\ id \in Nat /\ Used(id)
    /\ \A w \in windows : w.id = id => w.token = t

FollowFit ==
    /\ IsFollow(follow)
    /\ fpc # "off" => follow.run \in Nat
    /\ Planned(follow.elig) /\ Planned(follow.plans)
    /\ fpc \notin {"launch", "wait", "aim", "move"} => follow.plans = {}
    /\ fpc = "gate" => \A p \in follow.elig : Clear(p.session)
    /\ \A p \in follow.plans : Clear(p.session)
    /\ fpc = "wait" => Launched(follow.token, "follow", follow.run, follow.item, "open")
    /\ fpc \in {"aim", "move"} =>
          /\ Launched(follow.token, "follow", follow.run, follow.item, "confirmed")
          /\ Shows(follow.match, follow.token)
    /\ fpc = "move" => Landing(follow.seen, follow.target) = follow.dest

IsApply(a) ==
    a \in [run : {a.run}, active : {a.active}, known : {a.known}, pin : {a.pin}, items : {a.items},
           item : {a.item}, before : {a.before}, token : {a.token}, match : {a.match}]

ApplyFit ==
    /\ IsApply(apply)
    /\ apc # "off" => apply.run \in Nat
    /\ apc \in ApplyHolding /\ apply.pin # None => apply.pin = ReadPin
    /\ apc = "lock" => apply.pin = None
    /\ apc = "observe" => apply.pin # None
    /\ \A p \in apply.items : p.session # None
    /\ apc = "launch" => apply.item.session # None /\ Clear(apply.item.session)
    /\ apc = "wait" => Launched(apply.token, "apply", apply.run, apply.item.session, "open")
    /\ apc = "place" =>
          /\ Launched(apply.token, "apply", apply.run, apply.item.session, "confirmed")
          /\ Shows(apply.match, apply.token)

\* Only who waits for a launch has one whose fate is open.
Waited ==
    \A t \in DOMAIN log : log[t].fate = "open" =>
       \/ fpc = "wait" /\ follow.token = t
       \/ apc = "wait" /\ apply.token = t

SaveFit == pin # Torn /\ (spc = "rename" => temp # Torn)

RunsFit == runs \in [{"follow", "apply", "save"} -> Nat]

\* The launches of one run of follow.
Of(run) == {t \in DOMAIN log : log[t].by = "follow" /\ log[t].run = run}

RoomFit ==
    /\ follow.attempts + Cardinality(follow.plans) <= MaxTotal
    /\ follow.batch + Cardinality(follow.plans) <= MaxPerPoll
    /\ fpc \in {"observe", "gate"} => follow.batch = 0

TallyFit ==
    /\ \A t \in DOMAIN log : log[t].by = "follow" => log[t].run > runs["follow"]
    /\ \A t \in DOMAIN log : log[t].by = "follow" => Cardinality(Of(log[t].run)) <= MaxTotal
    /\ fpc # "off" => /\ follow.run > runs["follow"]
                      /\ Cardinality(Of(follow.run)) <= follow.attempts

IInv ==
    /\ Held /\ RunsFit /\ Desk /\ SaveFit /\ FollowFit /\ ApplyFit /\ Waited
    /\ RoomFit /\ TallyFit /\ OneProjectionEach

-----------------------------------------------------------------------------
(* What each kind of step does to the desktop.                             *)

Kept == Desk' /\ Onward /\ Unmoved

LEMMA AppearsKeeps == Desk /\ Appears => Kept /\ UNCHANGED log
<1> SUFFICES ASSUME Desk, Appears
             PROVE  Kept /\ UNCHANGED log
  OBVIOUS
<1> USE DesktopAssumption
<1>1. PICK t \in launches :
         /\ windows' = windows \cup {[id |-> LaunchedID(t), session |-> log[t].session, token |-> t,
                                      up |-> FALSE, place |-> shape[1].id]}
         /\ launches' = launches \ {t}
         /\ UNCHANGED <<shape, log, left>>
  BY DEF Appears
<1>0. PICK n : n = [id |-> LaunchedID(t), session |-> log[t].session, token |-> t,
                    up |-> FALSE, place |-> shape[1].id]
  OBVIOUS
<1>2. /\ Len(log) \in Nat /\ DOMAIN log = 1..Len(log) /\ launches \subseteq DOMAIN log
      /\ log' = log /\ windows' = windows \cup {n} /\ left \in 0..UserSteps /\ left' = left
  BY <1>0, <1>1, LogIsList DEF Desk
<1>3. n.id = 2 * t /\ n.session = log[t].session /\ n.token = t /\ n.up = FALSE /\ IsWindow(n)
  BY <1>0, <1>2 DEF LaunchedID, IsWindow
<1>4. ~Used(n.id) /\ Used(n.id)' /\ \A id : Used(id) => Used(id)'
  <2>1. ASSUME NEW u \in DOMAIN log \ launches
        PROVE  2 * t # 2 * u
    BY <1>1, <1>2
  <2>2. ASSUME NEW k \in (left + 1)..UserSteps
        PROVE  2 * t # 2 * k + 1
    BY <1>1, <1>2
  <2> QED  BY <1>1, <1>2, <1>3, <2>1, <2>2 DEF Used, LaunchedID
<1>5. \A w \in windows : w.id # n.id
  BY <1>4 DEF Desk, WindowsFit
<1>6. t # None /\ Bears(n, t)'
  BY <1>1, <1>2, <1>3 DEF Bears, LaunchedID
<1>7. WindowsFit'
  <2>1. \A w \in windows' : IsWindow(w) /\ Used(w.id)' /\ (w.token # None => Bears(w, w.token)')
    BY <1>1, <1>2, <1>3, <1>4, <1>6 DEF Desk, WindowsFit, Bears
  <2>2. \A v, w \in windows' : v.id = w.id => v = w
    BY <1>2, <1>5 DEF Desk, WindowsFit
  <2> QED  BY <2>1, <2>2 DEF WindowsFit
<1>8. \A u \in DOMAIN log : Seen(u)'
  BY <1>1, <1>2, <1>3 DEF Desk, Seen
<1>9. Desk'
  BY <1>1, <1>2, <1>7, <1>8 DEF Desk
<1>10. \A u \in DOMAIN log : Lives(u)' => Lives(u)
  BY <1>1, <1>2, <1>3 DEF Lives
<1>11. Onward
  BY <1>2, <1>4, <1>10 DEF Onward
<1>12. Unmoved
  BY <1>2, <1>5 DEF Unmoved, Desk, WindowsFit
<1> QED  BY <1>2, <1>9, <1>11, <1>12 DEF Kept

LEMMA Above ==
    ASSUME NEW a \in Nat, NEW b \in Nat, b <= a, NEW n \in Nat
    PROVE  \A k \in (a + 1)..n : k \in (b + 1)..n
OBVIOUS

Less ==
    /\ log' = log /\ windows' \subseteq windows /\ launches' \subseteq launches
    /\ shape' \in Shapes /\ left' \in Nat /\ left' <= left

LEMMA LessKeeps == Desk /\ Less => Kept
<1> SUFFICES ASSUME Desk, Less
             PROVE  Kept
  OBVIOUS
<1>1. left \in 0..UserSteps /\ UserSteps \in Nat /\ left' \in Nat /\ left' <= left
  BY DesktopAssumption DEF Desk, Less
<1>2. \A k \in (left + 1)..UserSteps : k \in (left' + 1)..UserSteps
  <2>1. left \in Nat /\ left' \in Nat /\ left' <= left /\ UserSteps \in Nat
    BY <1>1
  <2> QED  BY <2>1, Above
<1>3. \A id : Used(id) => Used(id)'
  BY <1>2 DEF Used, Less
<1>4. WindowsFit'
  BY <1>3 DEF Desk, WindowsFit, Bears, Less
<1>5. \A t \in DOMAIN log : Seen(t)'
  BY DEF Desk, Seen, Less
<1>6. left' \in 0..UserSteps
  BY <1>1
<1>7. Desk'
  BY <1>4, <1>5, <1>6 DEF Desk, Less
<1>8. Onward
  BY <1>3 DEF Onward, Lives, Less
<1> QED  BY <1>7, <1>8 DEF Kept, Unmoved, Desk, WindowsFit, Less

LEMMA HelperAnswersKeeps ==
    ASSUME Desk, HelperAnswers
    PROVE  Kept /\ log' = log
<1>1. PICK w \in windows : /\ ~w.up
                           /\ windows' = (windows \ {w}) \cup {[w EXCEPT !.up = TRUE]}
                           /\ UNCHANGED <<launches, shape, log, left>>
  BY DEF HelperAnswers
<1>2. PICK n : n = [w EXCEPT !.up = TRUE]
  OBVIOUS
<1>3. /\ n.id = w.id /\ n.session = w.session /\ n.token = w.token /\ n.up = TRUE
      /\ n.place = w.place /\ IsWindow(n)
  BY <1>2 DEF Desk, WindowsFit, IsWindow
<1>4. /\ windows' = (windows \ {w}) \cup {n} /\ ~w.up
      /\ log' = log /\ launches' = launches /\ shape' = shape /\ left' = left
  BY <1>1, <1>2
<1>5. \A id : Used(id) => Used(id)'
  BY <1>4 DEF Used
<1>7. WindowsFit'
  <2>1. \A v \in windows' : IsWindow(v) /\ Used(v.id)' /\ (v.token # None => Bears(v, v.token)')
    BY <1>3, <1>4, <1>5 DEF Desk, WindowsFit, Bears
  <2>2. \A u, v \in windows' : u.id = v.id => u = v
    BY <1>3, <1>4 DEF Desk, WindowsFit
  <2> QED  BY <2>1, <2>2 DEF WindowsFit
<1>8. ASSUME NEW t \in DOMAIN log
      PROVE  Seen(t)'
  <2>1. Seen(t)
    BY DEF Desk
  <2>2. (\A v \in windows : v.token = t => v.up) => \A v \in windows' : v.token = t => v.up
    BY <1>3, <1>4
  <2> QED  BY <1>4, <2>1, <2>2 DEF Seen
<1>9. Desk'
  BY <1>4, <1>7, <1>8 DEF Desk
<1>10. Onward
  <2>1. \A t : Lives(t)' => Lives(t)
    BY <1>4, <1>3 DEF Lives
  <2> QED  BY <1>4, <1>3, <1>5, <2>1 DEF Onward
<1>11. Unmoved
  <2>1. \A u, v \in windows : u.id = v.id => u = v
    BY DEF Desk, WindowsFit
  <2> QED  BY <1>3, <1>4, <2>1 DEF Unmoved
<1> QED  BY <1>4, <1>9, <1>10, <1>11 DEF Kept

\* The log with one entry rewritten, its owner, run and session kept.
Rewrites(t, a) ==
    /\ log' = [log EXCEPT ![t] = a]
    /\ a.by = log[t].by /\ a.run = log[t].run /\ a.session = log[t].session

LEMMA Rewritten ==
    ASSUME IsLog(log), NEW t \in DOMAIN log, NEW a, IsAttempt(a), Rewrites(t, a)
    PROVE  /\ IsLog(log') /\ DOMAIN log' = DOMAIN log /\ Len(log') = Len(log)
           /\ \A u \in DOMAIN log : /\ log'[u].by = log[u].by /\ log'[u].run = log[u].run
                                    /\ log'[u].session = log[u].session
                                    /\ u # t => log'[u] = log[u]
           /\ log'[t] = a
<1>1. Len(log) \in Nat /\ DOMAIN log = 1..Len(log) /\ log = [u \in DOMAIN log |-> log[u]]
  BY DEF IsLog
<1>2. DOMAIN log' = DOMAIN log /\ \A u \in DOMAIN log : log'[u] = IF u = t THEN a ELSE log[u]
  BY <1>1 DEF Rewrites
<1>3. log' = [u \in 1..Len(log) |-> log'[u]]
  BY <1>1 DEF Rewrites
<1>4. \A u \in 1..Len(log) : IsAttempt(log'[u])
  BY <1>1, <1>2 DEF IsLog
<1>5. IsLog(log') /\ Len(log') = Len(log)
  BY <1>1, <1>3, <1>4, Listed
<1> QED  BY <1>2, <1>5 DEF Rewrites

Assessed(t, fate, copied) ==
    /\ IsLog(log') /\ DOMAIN log' = DOMAIN log /\ Len(log') = Len(log)
    /\ \A u \in DOMAIN log : /\ log'[u].by = log[u].by /\ log'[u].run = log[u].run
                             /\ log'[u].session = log[u].session
                             /\ u # t => log'[u] = log[u]
    /\ log'[t].fate = fate /\ log'[t].copied = copied

LEMMA Resolved ==
    ASSUME IsLog(log), NEW t \in DOMAIN log, NEW fate \in {"confirmed", "abandoned"},
           Resolve(t, fate)
    PROVE  Assessed(t, fate, log[t].copied)
<1>1. PICK a : a = [log[t] EXCEPT !.fate = fate]
  OBVIOUS
<1>2. IsAttempt(log[t])
  BY DEF IsLog
<1>3. /\ IsAttempt(a) /\ a.by = log[t].by /\ a.run = log[t].run /\ a.session = log[t].session
      /\ a.fate = fate /\ a.copied = log[t].copied
  BY <1>1, <1>2 DEF IsAttempt
<1>4. log' = [log EXCEPT ![t] = a]
  BY <1>1 DEF Resolve
<1> QED  BY <1>3, <1>4, Rewritten DEF Assessed, Rewrites

LEMMA Copied ==
    ASSUME IsLog(log), NEW t \in DOMAIN log, log' = [log EXCEPT ![t].copied = TRUE]
    PROVE  Assessed(t, log[t].fate, TRUE)
<1>1. PICK a : a = [log[t] EXCEPT !.copied = TRUE]
  OBVIOUS
<1>2. IsAttempt(log[t])
  BY DEF IsLog
<1>3. /\ IsAttempt(a) /\ a.by = log[t].by /\ a.run = log[t].run /\ a.session = log[t].session
      /\ a.fate = log[t].fate /\ a.copied = TRUE
  BY <1>1, <1>2 DEF IsAttempt
<1>4. log' = [log EXCEPT ![t] = a]
  BY <1>1
<1> QED  BY <1>3, <1>4, Rewritten DEF Assessed, Rewrites

LEMMA UserOpensKeeps ==
    ASSUME Desk, UserOpens
    PROVE  Kept /\ DOMAIN log' = DOMAIN log /\ Len(log') = Len(log)
<1> USE DesktopAssumption
<1>1. PICK session \in ByHand, token \in {None} \cup {w.token : w \in windows} :
         /\ token # None => session = log[token].session
         /\ windows' = windows \cup {[id |-> UserID, session |-> session, token |-> token,
                                      up |-> FALSE, place |-> shape[1].id]}
         /\ log' = IF token = None THEN log ELSE [log EXCEPT ![token].copied = TRUE]
  BY DEF UserOpens
<1>2. PICK n : n = [id |-> UserID, session |-> session, token |-> token,
                    up |-> FALSE, place |-> shape[1].id]
  OBVIOUS
<1>3. /\ left \in 1..UserSteps /\ left' = left - 1 /\ launches' = launches /\ shape' = shape
      /\ windows' = windows \cup {n}
  BY <1>1, <1>2 DEF Desk, UserOpens
<1>4. /\ n.id = 2 * left + 1 /\ n.session = session /\ n.token = token /\ n.up = FALSE
      /\ IsWindow(n)
  BY <1>2, <1>3 DEF UserID, IsWindow
<1>5. IsLog(log) /\ Len(log) \in Nat /\ DOMAIN log = 1..Len(log) /\ launches \subseteq DOMAIN log
  BY LogIsList DEF Desk
<1>6. token # None => token \in DOMAIN log \ launches
  BY DEF Desk, WindowsFit, Bears
<1>7. /\ IsLog(log') /\ DOMAIN log' = DOMAIN log /\ Len(log') = Len(log)
      /\ \A u \in DOMAIN log :
            /\ log'[u].by = log[u].by /\ log'[u].run = log[u].run
            /\ log'[u].session = log[u].session /\ log'[u].fate = log[u].fate
            /\ log[u].copied => log'[u].copied
      /\ token # None => log'[token].copied
  <2>1. CASE token = None
    <3>1. log' = log
      BY <1>1, <2>1
    <3> QED  BY <1>5, <2>1, <3>1
  <2>2. CASE token # None
    <3>1. Assessed(token, log[token].fate, TRUE)
      BY <1>1, <1>5, <1>6, <2>2, Copied
    <3> QED  BY <1>5, <1>6, <2>2, <3>1 DEF Assessed
  <2> QED  BY <2>1, <2>2
<1>8. Used(n.id)' /\ ~Used(n.id) /\ \A id : Used(id) => Used(id)'
  <2>1. left \in (left' + 1)..UserSteps /\ \A k \in (left + 1)..UserSteps : k \in (left' + 1)..UserSteps
    BY <1>3
  <2>2. ASSUME NEW k \in (left + 1)..UserSteps
        PROVE  2 * left + 1 # 2 * k + 1
    BY <1>3
  <2>3. ASSUME NEW t \in DOMAIN log
        PROVE  2 * left + 1 # 2 * t
    BY <1>3, <1>5
  <2> QED  BY <1>3, <1>4, <1>7, <2>1, <2>2, <2>3 DEF Used, LaunchedID
<1>9. \A w \in windows : w.id # n.id
  BY <1>8 DEF Desk, WindowsFit
<1>10. WindowsFit'
  <2>1. \A w \in windows : IsWindow(w) /\ Used(w.id)' /\ (w.token # None => Bears(w, w.token)')
    BY <1>3, <1>7, <1>8 DEF Desk, WindowsFit, Bears
  <2>2. IsWindow(n) /\ Used(n.id)' /\ (n.token # None => Bears(n, n.token)')
    BY <1>1, <1>3, <1>4, <1>6, <1>7, <1>8 DEF Bears
  <2>3. \A v, w \in windows' : v.id = w.id => v = w
    BY <1>3, <1>9 DEF Desk, WindowsFit
  <2> QED  BY <1>3, <2>1, <2>2, <2>3 DEF WindowsFit
<1>11. ASSUME NEW t \in DOMAIN log
       PROVE  Seen(t)'
  <2>1. Seen(t)
    BY DEF Desk
  <2>2. token = t => log'[t].copied
    BY <1>5, <1>7, DesktopAssumption
  <2> QED  BY <1>3, <1>4, <1>7, <2>1, <2>2 DEF Seen
<1>12. Desk'
  <2>1. left' \in 0..UserSteps
    BY <1>3
  <2>2. IsLog(log)'
    BY <1>7
  <2> QED  BY <1>3, <1>7, <1>10, <1>11, <2>1, <2>2 DEF Desk
<1>13. ASSUME NEW t \in DOMAIN log, Lives(t)'
       PROVE  Lives(t)
  <2>1. token = t => \E w \in windows : w.token = t
    BY <1>5, DesktopAssumption
  <2> QED  BY <1>3, <1>4, <1>13, <2>1 DEF Lives
<1>14. Onward
  BY <1>3, <1>4, <1>7, <1>8, <1>13 DEF Onward
<1>15. Unmoved
  BY <1>3, <1>9 DEF Unmoved, Desk, WindowsFit
<1> QED  BY <1>7, <1>12, <1>14, <1>15 DEF Kept

\* A launch is tried, whether or not the launcher reports an error.
Starts(owner, run, x, fate) ==
    /\ fate \in {"open", "abandoned"} /\ log' = Append(log, Attempt(owner, run, x, fate))
    /\ launches' \in {launches, launches \cup {Len(log) + 1}}
    /\ UNCHANGED <<windows, shape, left>>

Started(owner, run, x, fate) ==
    /\ Len(log) \in Nat /\ Len(log) + 1 \notin DOMAIN log
    /\ DOMAIN log' = DOMAIN log \cup {Len(log) + 1} /\ Len(log') = Len(log) + 1
    /\ \A t \in DOMAIN log : log'[t] = log[t]
    /\ log'[Len(log) + 1].by = owner /\ log'[Len(log) + 1].run = run
    /\ log'[Len(log) + 1].session = x /\ log'[Len(log) + 1].fate = fate

LEMMA StartsKeeps ==
    ASSUME Desk, NEW owner \in Owners, NEW run \in Nat, NEW x, x # None, NEW fate,
           Starts(owner, run, x, fate)
    PROVE  Kept /\ Started(owner, run, x, fate)
<1>1. fate \in {"open", "abandoned"} /\ log' = Append(log, Attempt(owner, run, x, fate))
  BY DEF Starts
<1>2. PICK a : a = Attempt(owner, run, x, fate)
  OBVIOUS
<1>3. /\ IsAttempt(a) /\ a.by = owner /\ a.run = run /\ a.session = x /\ a.fate = fate
  BY <1>1, <1>2 DEF IsAttempt, Attempt
<1>4. log' = Append(log, a)
  BY <1>1, <1>2
<1>5. PICK n : n = Len(log) + 1
  OBVIOUS
<1>6. /\ IsLog(log') /\ Len(log') = n /\ n \notin DOMAIN log /\ DOMAIN log' = DOMAIN log \cup {n}
      /\ log'[n] = a /\ \A t \in DOMAIN log : log'[t] = log[t]
  <2>1. IsLog(log)
    BY DEF Desk
  <2> QED  BY <1>3, <1>4, <1>5, <2>1, Appended
<1>7. /\ launches' \in {launches, launches \cup {n}} /\ launches \subseteq DOMAIN log
      /\ windows' = windows /\ shape' = shape /\ left' = left
  BY <1>5 DEF Starts, Desk
<1>8. \A id : Used(id) => Used(id)'
  <2>1. DOMAIN log \ launches \subseteq DOMAIN log' \ launches'
    BY <1>6, <1>7
  <2> QED  BY <1>7, <2>1 DEF Used
<1>9. WindowsFit'
  <2>1. \A w \in windows : w.token # None => Bears(w, w.token)'
    BY <1>6, <1>7 DEF Desk, WindowsFit, Bears
  <2> QED  BY <1>7, <1>8, <2>1 DEF Desk, WindowsFit
<1>10. ASSUME NEW t \in DOMAIN log'
       PROVE  Seen(t)'
  <2>1. CASE t = n
    BY <1>1, <1>3, <1>6, <2>1 DEF Seen
  <2>2. CASE t \in DOMAIN log
    <3>1. Seen(t) /\ log'[t] = log[t] /\ t # n
      BY <1>6, <2>2 DEF Desk
    <3> QED  BY <1>7, <3>1 DEF Seen
  <2> QED  BY <1>6, <2>1, <2>2
<1>11. Desk'
  <2>1. IsLog(log)' /\ launches' \subseteq DOMAIN log'
    BY <1>6, <1>7
  <2> QED  BY <1>7, <1>9, <1>10, <2>1 DEF Desk
<1>12. Onward
  <2>1. ASSUME NEW t \in DOMAIN log, Lives(t)'
        PROVE  Lives(t)
    BY <1>6, <1>7, <2>1 DEF Lives
  <2> QED  BY <1>6, <1>7, <1>8, <2>1 DEF Onward
<1>13. Unmoved
  BY <1>7 DEF Unmoved, Desk, WindowsFit
<1>14. Started(owner, run, x, fate)
  BY <1>3, <1>5, <1>6, LogIsList DEF Started, Desk
<1> QED  BY <1>11, <1>12, <1>13, <1>14 DEF Kept

\* A launch is over: its window has answered, or nobody waits for it any more.
Settles(t, fate) ==
    /\ t \in DOMAIN log /\ log[t].fate = "open" /\ fate \in {"confirmed", "abandoned"}
    /\ fate = "confirmed" => /\ t \notin launches
                             /\ log[t].copied \/ \A w \in windows : w.token = t => w.up
    /\ Resolve(t, fate)
    /\ UNCHANGED <<windows, launches, shape, left>>

LEMMA SettlesKeeps ==
    ASSUME Desk, NEW t, NEW fate, Settles(t, fate)
    PROVE  Kept /\ Assessed(t, fate, log[t].copied)
<1>1. IsLog(log) /\ t \in DOMAIN log /\ log[t].fate = "open"
  BY DEF Desk, Settles
<1>2. Assessed(t, fate, log[t].copied)
  BY <1>1, Resolved DEF Settles
<1>3. windows' = windows /\ launches' = launches /\ shape' = shape /\ left' = left
  BY DEF Settles
<1>4. \A u \in DOMAIN log : log'[u].copied = log[u].copied
  BY <1>2 DEF Assessed
<1>5. \A id : Used(id) => Used(id)'
  BY <1>2, <1>3 DEF Used, Assessed
<1>6. WindowsFit'
  <2>1. \A w \in windows : w.token # None => Bears(w, w.token)'
    BY <1>2, <1>3, <1>4 DEF Desk, WindowsFit, Bears, Assessed
  <2> QED  BY <1>3, <1>5, <2>1 DEF Desk, WindowsFit
<1>7. ASSUME NEW u \in DOMAIN log
      PROVE  Seen(u)'
  <2>1. CASE u = t
    BY <1>2, <1>3, <1>4, <2>1 DEF Seen, Settles, Assessed
  <2>2. CASE u # t
    <3>1. Seen(u) /\ log'[u] = log[u]
      BY <1>2, <2>2 DEF Desk, Assessed
    <3> QED  BY <1>3, <3>1 DEF Seen
  <2> QED  BY <2>1, <2>2
<1>8. Desk'
  <2>1. IsLog(log)' /\ DOMAIN log' = DOMAIN log
    BY <1>2 DEF Assessed
  <2> QED  BY <1>3, <1>6, <1>7, <2>1 DEF Desk
<1>9. Onward
  <2>1. \A u \in DOMAIN log : Lives(u)' => Lives(u)
    BY <1>3 DEF Lives
  <2> QED  BY <1>1, <1>2, <1>3, <1>4, <1>5, <2>1 DEF Onward, Assessed
<1> QED  BY <1>2, <1>3, <1>8, <1>9 DEF Kept, Unmoved, Desk, WindowsFit

\* The window with this ID is moved.
Moves(id, target) ==
    MoveToWorkspace(id, target) /\ UNCHANGED <<launches, shape, log, left>>

LEMMA MovesKeeps ==
    ASSUME Desk, NEW id, NEW target, Moves(id, target)
    PROVE  /\ Desk' /\ Onward /\ log' = log
           /\ \A w \in windows, x \in windows' :
                 w.id = x.id /\ w.place # x.place => w.id = id /\ x.place = Landing(shape, target)
<1> DEFINE Moved(w) == IF w.id = id THEN [w EXCEPT !.place = Landing(shape, target)] ELSE w
<1>1. windows' = {Moved(w) : w \in windows}
  BY DEF Moves, MoveToWorkspace
<1>2. ASSUME NEW w \in windows
      PROVE  /\ Moved(w).id = w.id /\ Moved(w).session = w.session /\ Moved(w).token = w.token
             /\ Moved(w).up = w.up /\ IsWindow(Moved(w))
             /\ w.id # id => Moved(w) = w
             /\ w.id = id => Moved(w).place = Landing(shape, target)
  BY DEF Desk, WindowsFit, IsWindow
<1> HIDE DEF Moved
<1>3. log' = log /\ launches' = launches /\ shape' = shape /\ left' = left
  BY DEF Moves
<1>4. \A i : Used(i) <=> Used(i)'
  BY <1>3 DEF Used
<1>5. \A v, w \in windows : v.id = w.id => v = w
  BY DEF Desk, WindowsFit
<1>6. WindowsFit'
  <2>1. ASSUME NEW x \in windows'
        PROVE  IsWindow(x) /\ Used(x.id)' /\ (x.token # None => Bears(x, x.token)')
    <3>1. PICK w \in windows : x = Moved(w)
      BY <1>1
    <3>2. IsWindow(w) /\ Used(w.id) /\ (w.token # None => Bears(w, w.token))
      BY DEF Desk, WindowsFit
    <3>3. x.id = w.id /\ x.session = w.session /\ x.token = w.token /\ IsWindow(x)
      BY <1>2, <3>1
    <3> QED  BY <1>3, <1>4, <3>2, <3>3 DEF Bears
  <2>2. \A v, w \in windows' : v.id = w.id => v = w
    BY <1>1, <1>2, <1>5
  <2> QED  BY <2>1, <2>2 DEF WindowsFit
<1>7. ASSUME NEW t \in DOMAIN log
      PROVE  Seen(t)'
  <2>1. Seen(t)
    BY DEF Desk
  <2>2. (\A w \in windows : w.token = t => w.up) => \A w \in windows' : w.token = t => w.up
    BY <1>1, <1>2
  <2> QED  BY <1>3, <2>1, <2>2 DEF Seen
<1>8. Desk'
  BY <1>3, <1>6, <1>7 DEF Desk
<1>9. Onward
  <2>1. ASSUME NEW t \in DOMAIN log, Lives(t)'
        PROVE  Lives(t)
    BY <1>1, <1>2, <1>3, <2>1 DEF Lives
  <2>2. \A x \in windows' : \E v \in windows : v.id = x.id /\ v.token = x.token
    BY <1>1, <1>2
  <2> QED  BY <1>3, <1>4, <2>1, <2>2 DEF Onward
<1>10. \A w \in windows, x \in windows' :
          w.id = x.id /\ w.place # x.place => w.id = id /\ x.place = Landing(shape, target)
  BY <1>1, <1>2, <1>5
<1> QED  BY <1>3, <1>8, <1>9, <1>10

-----------------------------------------------------------------------------
(* What a process knows of the desktop outlasts the steps of the others.   *)

LEMMA DesktopStepKeeps ==
    ASSUME Desk, DesktopStep
    PROVE  /\ Kept /\ DOMAIN log' = DOMAIN log /\ Len(log') = Len(log)
           /\ \A t \in DOMAIN log : log'[t].fate = log[t].fate
<1>1. CASE Appears
  BY <1>1, AppearsKeeps
<1>2. CASE HelperAnswers
  BY <1>2, HelperAnswersKeeps
<1>3. CASE UserOpens
  <2>1. Kept /\ DOMAIN log' = DOMAIN log /\ Len(log') = Len(log)
    BY <1>3, UserOpensKeeps
  <2>2. PICK t : log' = IF t = None THEN log ELSE [log EXCEPT ![t].copied = TRUE]
    BY <1>3 DEF UserOpens
  <2>3. \A u \in DOMAIN log : log'[u].fate = log[u].fate
    <3>1. CASE t = None \/ t \notin DOMAIN log
      <4>1. log' = log
        <5>1. log = [u \in DOMAIN log |-> log[u]]
          BY DEF Desk, IsLog
        <5> QED  BY <2>2, <3>1, <5>1
      <4> QED  BY <4>1
    <3>2. CASE t # None /\ t \in DOMAIN log
      <4>1. Assessed(t, log[t].fate, TRUE)
        BY <2>2, <3>2, Copied DEF Desk
      <4> QED  BY <4>1 DEF Assessed
    <3> QED  BY <3>1, <3>2
  <2> QED  BY <2>1, <2>3
<1>4. CASE NeverAppears \/ UserCloses \/ UserRearranges
  <2>1. left \in Nat
    BY DesktopAssumption DEF Desk
  <2>2. Less
    BY <1>4, <2>1 DEF NeverAppears, UserCloses, UserRearranges, Less, Desk
  <2>3. Kept
    BY <2>2, LessKeeps
  <2>4. log' = log
    BY <2>2 DEF Less
  <2> QED  BY <2>3, <2>4
<1> QED  BY <1>1, <1>2, <1>3, <1>4 DEF DesktopStep

LEMMA ClearStays ==
    ASSUME Onward, DOMAIN log' = DOMAIN log, NEW x, Clear(x)
    PROVE  Clear(x)'
<1>1. CASE Excused(x)
  <2>1. PICK a \in DOMAIN log : log[a].session = x /\ (log[a].fate = "abandoned" \/ log[a].copied)
    BY <1>1 DEF Excused
  <2>2. log'[a].session = x /\ (log'[a].fate = "abandoned" \/ log'[a].copied)
    BY <2>1 DEF Onward
  <2> QED  BY <2>2 DEF Clear, Excused
<1>2. CASE \A t \in DOMAIN log : log[t].session = x => ~Lives(t)
  <2>1. ASSUME NEW t \in DOMAIN log', log'[t].session = x
        PROVE  ~Lives(t)'
    BY <1>2, <2>1 DEF Onward
  <2> QED  BY <2>1 DEF Clear
<1> QED  BY <1>1, <1>2 DEF Clear

LEMMA ShowsStays ==
    ASSUME Onward, NEW id, NEW t, Shows(id, t)
    PROVE  Shows(id, t)'
BY DEF Onward, Shows

LEMMA LaunchedStays ==
    ASSUME Onward, NEW t, NEW owner, NEW run, NEW x, NEW fate, Launched(t, owner, run, x, fate),
           log'[t].fate = log[t].fate
    PROVE  Launched(t, owner, run, x, fate)'
BY DEF Onward, Launched

\* A step in which the others do not start a launch while follow holds the
\* lock, and end none of its launches.
BesideFollow ==
    /\ Desk' /\ Onward /\ UNCHANGED <<fpc, follow>>
    /\ fpc \in Holding => DOMAIN log' = DOMAIN log
    /\ \A t \in DOMAIN log : log[t].by = "follow" => log'[t].fate = log[t].fate

LEMMA FollowFitStays == FollowFit /\ BesideFollow => FollowFit'
<1> SUFFICES ASSUME FollowFit, BesideFollow
             PROVE  FollowFit'
  OBVIOUS
<1>1. fpc' = fpc /\ follow' = follow /\ Onward
  BY DEF BesideFollow
<1>2. ASSUME fpc \in {"gate", "launch", "wait", "aim", "move"}, NEW x, Clear(x)
      PROVE  Clear(x)'
  BY <1>2, ClearStays DEF BesideFollow, Holding, FollowPlaces
<1>3. ASSUME NEW fate, Launched(follow.token, "follow", follow.run, follow.item, fate)
      PROVE  Launched(follow.token, "follow", follow.run, follow.item, fate)'
  <2>1. PICK t, run, x : t = follow.token /\ run = follow.run /\ x = follow.item
    OBVIOUS
  <2>2. log'[t].fate = log[t].fate
    BY <1>3, <2>1 DEF BesideFollow, Launched
  <2>3. Launched(t, "follow", run, x, fate)
    BY <1>3, <2>1
  <2>4. Launched(t, "follow", run, x, fate)'
    BY <1>1, <2>2, <2>3, LaunchedStays
  <2> QED  BY <1>1, <2>1, <2>4
<1>4. Shows(follow.match, follow.token) => Shows(follow.match, follow.token)'
  <2>1. PICK id, t : id = follow.match /\ t = follow.token
    OBVIOUS
  <2>2. Shows(id, t) => Shows(id, t)'
    BY <1>1, ShowsStays
  <2> QED  BY <1>1, <2>1, <2>2
<1>5. IsFollow(follow)' /\ (fpc' # "off" => follow'.run \in Nat)
  BY <1>1 DEF FollowFit
<1>6. /\ Planned(follow.elig)' /\ Planned(follow.plans)'
      /\ fpc' \notin {"launch", "wait", "aim", "move"} => follow'.plans = {}
      /\ fpc' = "move" => (Landing(follow.seen, follow.target) = follow.dest)'
  BY <1>1 DEF FollowFit
<1>7. fpc' = "gate" => \A p \in follow'.elig : Clear(p.session)'
  BY <1>1, <1>2 DEF FollowFit
<1>8. \A p \in follow'.plans : Clear(p.session)'
  BY <1>1, <1>2 DEF FollowFit
<1> QED  BY <1>1, <1>3, <1>4, <1>5, <1>6, <1>7, <1>8 DEF FollowFit

\* The same for apply, whose pin is left alone as well.
BesideApply ==
    /\ Desk' /\ Onward /\ UNCHANGED <<apc, apply>>
    /\ apc \in ApplyHolding => DOMAIN log' = DOMAIN log /\ pin' = pin
    /\ \A t \in DOMAIN log : log[t].by = "apply" => log'[t].fate = log[t].fate

LEMMA ApplyFitStays == ApplyFit /\ BesideApply => ApplyFit'
<1> SUFFICES ASSUME ApplyFit, BesideApply
             PROVE  ApplyFit'
  OBVIOUS
<1>1. apc' = apc /\ apply' = apply /\ Onward
  BY DEF BesideApply
<1>2. ASSUME apc = "launch", NEW x, Clear(x)
      PROVE  Clear(x)'
  BY <1>2, ClearStays DEF BesideApply, ApplyHolding, ApplyPlaces
<1>3. ASSUME NEW fate, Launched(apply.token, "apply", apply.run, apply.item.session, fate)
      PROVE  Launched(apply.token, "apply", apply.run, apply.item.session, fate)'
  <2>1. PICK t, run, x : t = apply.token /\ run = apply.run /\ x = apply.item.session
    OBVIOUS
  <2>2. log'[t].fate = log[t].fate
    BY <1>3, <2>1 DEF BesideApply, Launched
  <2>3. Launched(t, "apply", run, x, fate)
    BY <1>3, <2>1
  <2>4. Launched(t, "apply", run, x, fate)'
    BY <1>1, <2>2, <2>3, LaunchedStays
  <2> QED  BY <1>1, <2>1, <2>4
<1>4. Shows(apply.match, apply.token) => Shows(apply.match, apply.token)'
  <2>1. PICK id, t : id = apply.match /\ t = apply.token
    OBVIOUS
  <2>2. Shows(id, t) => Shows(id, t)'
    BY <1>1, ShowsStays
  <2> QED  BY <1>1, <2>1, <2>2
<1>5. IsApply(apply)' /\ (apc' # "off" => apply'.run \in Nat)
  BY <1>1 DEF ApplyFit
<1>6. /\ apc' = "lock" => apply'.pin = None
      /\ apc' = "observe" => apply'.pin # None
      /\ \A p \in apply'.items : p.session # None
  BY <1>1 DEF ApplyFit
<1>7. apc' \in ApplyHolding /\ apply'.pin # None => apply'.pin = ReadPin'
  BY <1>1 DEF ApplyFit, BesideApply, ReadPin, ValidPin
<1>8. apc' = "launch" => apply'.item.session # None /\ Clear(apply.item.session)'
  <2>1. PICK x : x = apply.item.session
    OBVIOUS
  <2>2. apc = "launch" => x # None /\ Clear(x)
    BY <2>1 DEF ApplyFit
  <2>3. apc = "launch" => x # None /\ Clear(x)'
    BY <1>2, <2>2
  <2> QED  BY <1>1, <2>1, <2>3
<1> QED  BY <1>1, <1>3, <1>4, <1>5, <1>6, <1>7, <1>8 DEF ApplyFit

LEMMA ProjectionStays == OneProjectionEach /\ Onward /\ DOMAIN log' = DOMAIN log => OneProjectionEach'
<1> SUFFICES ASSUME OneProjectionEach, Onward, DOMAIN log' = DOMAIN log,
                    NEW t \in DOMAIN log, NEW u \in DOMAIN log,
                    t # u, log'[t].session = log'[u].session, Lives(t)', Lives(u)'
             PROVE  \E a \in DOMAIN log' : /\ log'[a].session = log'[t].session
                                           /\ log'[a].fate = "abandoned" \/ log'[a].copied
  BY DEF OneProjectionEach
<1>1. log[t].session = log[u].session /\ log[t].session = log'[t].session /\ Lives(t) /\ Lives(u)
  BY DEF Onward
<1>2. PICK a \in DOMAIN log : /\ log[a].session = log[t].session
                              /\ log[a].fate = "abandoned" \/ log[a].copied
  BY <1>1 DEF OneProjectionEach
<1> QED  BY <1>1, <1>2 DEF Onward

\* The heart of it: who starts a launch has made sure.
LEMMA ProjectionStarts ==
    ASSUME OneProjectionEach, Onward, NEW owner, NEW run, NEW x, NEW fate,
           Started(owner, run, x, fate), Clear(x)
    PROVE  OneProjectionEach'
<1> SUFFICES ASSUME NEW t \in DOMAIN log', NEW u \in DOMAIN log',
                    t # u, log'[t].session = log'[u].session, Lives(t)', Lives(u)'
             PROVE  \E a \in DOMAIN log' : /\ log'[a].session = log'[t].session
                                           /\ log'[a].fate = "abandoned" \/ log'[a].copied
  BY DEF OneProjectionEach
<1>1. \A a \in DOMAIN log : a \in DOMAIN log' /\ log'[a] = log[a] /\ (Lives(a)' => Lives(a))
  BY DEF Onward, Started
<1>2. CASE t \in DOMAIN log /\ u \in DOMAIN log
  BY <1>1, <1>2 DEF OneProjectionEach
<1>3. CASE ~(t \in DOMAIN log /\ u \in DOMAIN log)
  <2>1. log'[t].session = x
    BY <1>3 DEF Started
  <2>2. \E a \in DOMAIN log : log[a].session = x /\ Lives(a)
    <3>1. PICK a \in {t, u} : a \in DOMAIN log
      BY <1>3 DEF Started
    <3>2. log'[a].session = x /\ Lives(a)'
      BY <2>1, <3>1
    <3> QED  BY <1>1, <3>1, <3>2
  <2>3. Excused(x)
    BY <2>2 DEF Clear
  <2> QED  BY <1>1, <2>1, <2>3 DEF Excused
<1> QED  BY <1>2, <1>3

\* No launch of follow is started; it may end its run or charge an attempt.
LEMMA TallyStays ==
    ASSUME TallyFit, RoomFit, Onward, IsFollow(follow), runs'["follow"] = runs["follow"],
           \A t \in DOMAIN log' : log'[t].by = "follow" => t \in DOMAIN log,
           fpc' # "off" => /\ fpc # "off" /\ follow'.run = follow.run
                           /\ follow'.attempts = follow.attempts
    PROVE  TallyFit'
<1>1. \A r : Of(r)' = Of(r)
  BY DEF Of, Onward
<1>2. \A t \in DOMAIN log' : log'[t].by = "follow" =>
         t \in DOMAIN log /\ log[t].by = "follow" /\ log'[t].run = log[t].run
  BY DEF Onward
<1>3. ASSUME NEW t \in DOMAIN log', log'[t].by = "follow", NEW r, r = log'[t].run
      PROVE  Cardinality(Of(r)') <= MaxTotal
  BY <1>1, <1>2, <1>3 DEF TallyFit
<1>4. ASSUME NEW r, r = follow.run, fpc # "off"
      PROVE  Cardinality(Of(r)') <= follow.attempts
  BY <1>1, <1>4 DEF TallyFit
<1> QED  BY <1>1, <1>2, <1>3, <1>4 DEF TallyFit

-----------------------------------------------------------------------------
(* The lock.                                                               *)

\* follow goes on without touching the lock.
LEMMA FollowGoesOn ==
    ASSUME FollowWork, ~FollowLocks, ~FollowUnlocks
    PROVE  fpc \in Holding /\ fpc' \in Holding /\ UNCHANGED store
<1> USE DEF Holding, FollowPlaces, Quiet, EndPoll
<1>1. CASE PollFails
  BY <1>1 DEF PollFails
<1>2. CASE FollowPolls
  BY <1>2 DEF FollowPolls
<1>3. CASE FollowObserves
  BY <1>3 DEF FollowObserves
<1>4. CASE FollowPlans
  BY <1>4 DEF FollowPlans
<1>5. CASE FollowLaunches
  BY <1>5 DEF FollowLaunches
<1>6. CASE FollowLaunchFails
  BY <1>6 DEF FollowLaunchFails
<1>7. CASE FollowStopsBatch
  BY <1>7 DEF FollowStopsBatch
<1>8. CASE FollowConfirms
  BY <1>8 DEF FollowConfirms
<1>9. CASE FollowAbandons
  BY <1>9 DEF FollowAbandons
<1>10. CASE FollowAims
  BY <1>10 DEF FollowAims
<1>11. CASE FollowMoveFails
  BY <1>11 DEF FollowMoveFails
<1>12. CASE FollowMoves
  BY <1>12 DEF FollowMoves
<1>13. CASE FollowReports
  BY <1>13 DEF FollowReports
<1>14. CASE FollowSleeps
  BY <1>14 DEF FollowSleeps
<1> QED  BY <1>1, <1>2, <1>3, <1>4, <1>5, <1>6, <1>7, <1>8, <1>9, <1>10, <1>11, <1>12, <1>13, <1>14
         DEF FollowWork

\* How a command may stand to the lock before and after its step.
Turn(holder, before, after) ==
    \/ before /\ after /\ UNCHANGED lock
    \/ ~before /\ ~after /\ UNCHANGED lock
    \/ ~before /\ after /\ lock = None /\ lock' = holder
    \/ before /\ ~after /\ lock = holder /\ lock' = None

LEMMA FollowTurn ==
    ASSUME Held, FollowStep
    PROVE  fpc' \in FollowPlaces /\ Turn("follow", fpc \in Holding, fpc' \in Holding)
<1> USE DEF Turn, store
<1>1. CASE FollowWork /\ ~FollowLocks /\ ~FollowUnlocks
  BY <1>1, FollowGoesOn DEF Holding
<1>2. CASE FollowLocks
  BY <1>2 DEF FollowLocks, Locked, Acquire, Holding, FollowPlaces
<1>3. CASE FollowUnlocks
  BY <1>3 DEF FollowUnlocks, Release, Holding, FollowPlaces
<1>4. CASE FollowStart
  BY <1>4 DEF FollowStart, Holding, FollowPlaces
<1>5. CASE ScreenReads
  BY <1>5 DEF ScreenReads, Held
<1>6. CASE Quits
  BY <1>6 DEF Quits, Held
<1>7. CASE FollowDies
  BY <1>7 DEF FollowDies, Release, Holding, FollowPlaces
<1> QED  BY <1>1, <1>2, <1>3, <1>4, <1>5, <1>6, <1>7 DEF FollowStep

\* apply goes on without touching the lock.
LEMMA ApplyGoesOn ==
    ASSUME ApplyStep, ~ApplyStart, ~ApplyLocks, ~ApplyUnlocks, ~ApplyDies
    PROVE  apc \in ApplyHolding /\ apc' \in ApplyHolding /\ UNCHANGED store
<1> USE DEF ApplyHolding, ApplyPlaces
<1>1. CASE ApplyReads
  BY <1>1 DEF ApplyReads
<1>2. CASE ApplyObserves
  BY <1>2 DEF ApplyObserves
<1>3. CASE ApplyPrepares
  BY <1>3 DEF ApplyPrepares
<1>4. CASE ApplyFails
  BY <1>4 DEF ApplyFails
<1>5. CASE ApplyDone
  BY <1>5 DEF ApplyDone
<1>6. CASE ApplySkips
  BY <1>6 DEF ApplySkips
<1>7. CASE ApplyRechecks
  BY <1>7 DEF ApplyRechecks
<1>8. CASE ApplyLaunches
  BY <1>8 DEF ApplyLaunches
<1>9. CASE ApplyLaunchFails
  BY <1>9 DEF ApplyLaunchFails
<1>10. CASE ApplyConfirms
  BY <1>10 DEF ApplyConfirms
<1>11. CASE ApplyAbandons
  BY <1>11 DEF ApplyAbandons
<1>12. CASE ApplyPlaces_
  BY <1>12 DEF ApplyPlaces_
<1> QED  BY <1>1, <1>2, <1>3, <1>4, <1>5, <1>6, <1>7, <1>8, <1>9, <1>10, <1>11, <1>12 DEF ApplyStep

LEMMA ApplyTurn ==
    ASSUME Held, ApplyStep
    PROVE  apc' \in ApplyPlaces /\ Turn("apply", apc \in ApplyHolding, apc' \in ApplyHolding)
<1> USE DEF Turn, store
<1>1. CASE ~ApplyStart /\ ~ApplyLocks /\ ~ApplyUnlocks /\ ~ApplyDies
  BY <1>1, ApplyGoesOn DEF ApplyHolding
<1>2. CASE ApplyStart
  BY <1>2 DEF ApplyStart, ApplyHolding, ApplyPlaces
<1>3. CASE ApplyLocks
  BY <1>3 DEF ApplyLocks, Locked, Acquire, ApplyHolding, ApplyPlaces
<1>4. CASE ApplyUnlocks
  BY <1>4 DEF ApplyUnlocks, Release, ApplyHolding, ApplyPlaces
<1>5. CASE ApplyDies
  BY <1>5 DEF ApplyDies, Release, ApplyHolding, ApplyPlaces
<1> QED  BY <1>1, <1>2, <1>3, <1>4, <1>5

LEMMA SaveTurn ==
    ASSUME Held, SaveStep
    PROVE  spc' \in SavePlaces /\ Turn("save", spc \in SaveHolding, spc' \in SaveHolding)
<1> USE DEF Turn, store, SaveHolding, SavePlaces
<1>1. CASE SaveStart \/ SaveListsWindows \/ SaveListsWorkspaces \/ SaveBuilds \/ SaveFails
  BY <1>1 DEF SaveStart, SaveListsWindows, SaveListsWorkspaces, SaveBuilds, SaveFails
<1>2. CASE SaveLocks
  BY <1>2 DEF SaveLocks, Locked, Acquire
<1>3. CASE SaveWrites \/ SaveRenames \/ SaveGivesUp
  BY <1>3 DEF SaveWrites, SaveRenames, SaveGivesUp, WriteTemp, RenameTemp, DropTemp
<1>4. CASE SaveUnlocks \/ SaveDies
  BY <1>4 DEF SaveUnlocks, SaveDies, Release
<1> QED  BY <1>1, <1>2, <1>3, <1>4 DEF SaveStep

LEMMA HeldStays == Held /\ [Next]_vars => Held'
<1> SUFFICES ASSUME Held, [Next]_vars
             PROVE  Held'
  OBVIOUS
<1> USE PinAssumption DEF Held
<1>1. CASE DesktopStep /\ UNCHANGED <<runs, store, following, pinning>>
  BY <1>1 DEF store, following, pinning
<1>2. CASE FollowStep /\ UNCHANGED pinning
  BY <1>2, FollowTurn DEF Turn, pinning
<1>3. CASE ApplyStep
  <2>1. UNCHANGED <<following, spc>>
    BY <1>3 DEF ApplyStep, ApplyStart, ApplyLocks, ApplyReads, ApplyObserves, ApplyPrepares, ApplyFails,
                ApplyDone, ApplySkips, ApplyRechecks, ApplyLaunches, ApplyLaunchFails, ApplyConfirms,
                ApplyAbandons, ApplyPlaces_, ApplyUnlocks, ApplyDies, Still
  <2> QED  BY <1>3, <2>1, ApplyTurn DEF Turn, following
<1>4. CASE SaveStep
  <2>1. UNCHANGED <<following, apc, apply>>
    BY <1>4 DEF SaveStep, SaveStart, SaveListsWindows, SaveListsWorkspaces, SaveBuilds, SaveLocks,
                SaveWrites, SaveRenames, SaveGivesUp, SaveFails, SaveUnlocks, SaveDies, Calm
  <2> QED  BY <1>4, <2>1, SaveTurn DEF Turn, following
<1>5. CASE UNCHANGED vars
  BY <1>5 DEF vars, store, following, pinning
<1> QED  BY <1>1, <1>2, <1>3, <1>4, <1>5 DEF Next

-----------------------------------------------------------------------------
(* Steps of follow.                                                        *)

\* Nothing on the desktop changes.
LEMMA StillKeeps ==
    ASSUME Desk, UNCHANGED desktop
    PROVE  Kept /\ DOMAIN log' = DOMAIN log
<1>1. Less
  <2>1. left \in Nat
    BY DesktopAssumption DEF Desk
  <2> QED  BY <2>1 DEF Less, desktop, Desk
<1> QED  BY <1>1, LessKeeps DEF Less

LEMMA NoneToOpen == Planned({}) /\ Cardinality({}) = 0
BY FS_EmptySet DEF Planned

\* A poll ends: what is kept for the next one makes no claim on the desktop.
LEMMA BetweenFit ==
    ASSUME FollowFit, RoomFit, fpc # "off", fpc' = "report", NEW n \in Nat, n <= MaxTotal,
           follow' = [BetweenPolls EXCEPT !.attempts = n]
    PROVE  FollowFit' /\ RoomFit' /\ follow'.run = follow.run /\ follow'.attempts = n
<1>1. /\ IsFollow(follow') /\ follow'.run = follow.run /\ follow'.attempts = n
      /\ follow'.plans = {} /\ follow'.elig = {} /\ follow'.batch = 0
  BY DEF BetweenPolls, NoFollow, IsFollow
<1>2. follow.run \in Nat
  BY DEF FollowFit
<1>3. IsFollow(follow)' /\ Planned(follow.plans)' /\ Planned(follow.elig)'
  BY <1>1, NoneToOpen DEF IsFollow, Planned
<1>4. FollowFit'
  BY <1>1, <1>2, <1>3 DEF FollowFit
<1>5. RoomFit'
  <2>1. Cardinality(follow'.plans) = 0
    BY <1>1, NoneToOpen
  <2>2. MaxPerPoll \in Nat /\ n + 0 <= MaxTotal
    BY FollowAssumption
  <2> QED  BY <1>1, <2>1, <2>2 DEF RoomFit
<1> QED  BY <1>1, <1>4, <1>5

LEMMA RoomLeft ==
    ASSUME FollowFit, RoomFit
    PROVE  /\ follow.attempts \in Nat /\ follow.attempts <= MaxTotal
           /\ follow.batch \in Nat /\ follow.batch <= MaxPerPoll
           /\ Cardinality(follow.plans) \in Nat
           /\ BetweenPolls = [BetweenPolls EXCEPT !.attempts = follow.attempts]
<1>1. follow.attempts \in Nat /\ follow.batch \in Nat
  BY DEF FollowFit, IsFollow
<1>2. Cardinality(follow.plans) \in Nat
  BY FS_CardinalityType DEF FollowFit, Planned
<1>3. BetweenPolls = [BetweenPolls EXCEPT !.attempts = follow.attempts]
  BY DEF BetweenPolls, NoFollow
<1> QED  BY <1>1, <1>2, <1>3, FollowAssumption DEF RoomFit

LEMMA NoFollowFit ==
    ASSUME fpc' = "off", follow' = NoFollow
    PROVE  FollowFit' /\ RoomFit'
<1>1. /\ IsFollow(NoFollow) /\ NoFollow.plans = {} /\ NoFollow.elig = {}
      /\ NoFollow.attempts = 0 /\ NoFollow.batch = 0
  BY DEF NoFollow, IsFollow
<1>2. IsFollow(follow)' /\ Planned(follow.elig)' /\ Planned(follow.plans)'
  BY <1>1, NoneToOpen DEF IsFollow, Planned
<1>3. FollowFit'
  BY <1>1, <1>2 DEF FollowFit
<1>4. RoomFit'
  BY <1>1, NoneToOpen, FollowAssumption DEF RoomFit
<1> QED  BY <1>3, <1>4

LEMMA EndPollFit ==
    ASSUME FollowFit, RoomFit, fpc # "off", EndPoll
    PROVE  FollowFit' /\ RoomFit' /\ follow'.run = follow.run /\ follow'.attempts = follow.attempts
<1>1. PICK n : n = follow.attempts
  OBVIOUS
<1>2. n \in Nat /\ n <= MaxTotal /\ follow' = [BetweenPolls EXCEPT !.attempts = n] /\ fpc' = "report"
  BY <1>1, RoomLeft DEF EndPoll
<1> QED  BY <1>1, <1>2, BetweenFit

LEMMA PlannedSubset == ASSUME NEW P, Planned(P), NEW Q \in SUBSET P PROVE Planned(Q)
BY FS_Subset DEF Planned

\* A valid snapshot offers a session at most once.
LEMMA EligiblePlanned ==
    ASSUME NEW s \in Snapshots, ValidFollowSnapshot(s), NEW space
    PROVE  Planned(Eligible(s, space))
<1> DEFINE n == Len(s.windows)
           E == Eligible(s, space)
           Offer(w) == [session |-> SessionName(w), order |-> w.order]
<1>1. n \in Nat /\ DOMAIN s.windows = 1..n
  BY FollowAssumption
<1>2. \A i \in 1..n : s.windows[i].order \in Nat
  BY <1>1 DEF ValidFollowSnapshot
<1>3. \A i, j \in 1..n : s.windows[i].order = s.windows[j].order => i = j
  BY <1>1 DEF ValidFollowSnapshot, Field, IsInjective
<1>4. \A i, j \in 1..n :
         SessionName(s.windows[i]) = SessionName(s.windows[j]) => SessionName(s.windows[i]) = None \/ i = j
  BY <1>1 DEF ValidFollowSnapshot
<1>5. \A p \in E : \E i \in 1..n : p = Offer(s.windows[i]) /\ SessionName(s.windows[i]) # None
  BY <1>1 DEF Eligible, TerminalsOn, ToSet
<1> HIDE DEF E, n
<1>6. \A w : Offer(w).session = SessionName(w) /\ Offer(w).order = w.order
             /\ Offer(w) \in [session : {Offer(w).session}, order : {w.order}]
  OBVIOUS
<1>7. \A p \in E : p \in [session : {p.session}, order : Nat] /\ p.session # None
  BY <1>2, <1>5
<1>8. \A p, q \in E : p.session = q.session \/ p.order = q.order => p = q
  <2> SUFFICES ASSUME NEW p \in E, NEW q \in E, p.session = q.session \/ p.order = q.order
               PROVE  p = q
    OBVIOUS
  <2>1. PICK i \in 1..n : p = Offer(s.windows[i]) /\ SessionName(s.windows[i]) # None
    BY <1>5
  <2>2. PICK j \in 1..n : q = Offer(s.windows[j]) /\ SessionName(s.windows[j]) # None
    BY <1>5
  <2>3. i = j
    BY <1>3, <1>4, <1>6, <2>1, <2>2
  <2> QED  BY <2>1, <2>2, <2>3
<1>9. IsFiniteSet(E)
  <2> DEFINE T == {Offer(s.windows[i]) : i \in 1..n}
             f == [i \in 1..n |-> Offer(s.windows[i])]
  <2>1. f \in Surjection(1..n, T)
    BY DEF Surjection
  <2>2. IsFiniteSet(1..n)
    BY <1>1, FS_Interval
  <2> HIDE DEF f
  <2>3. IsFiniteSet(T)
    BY <2>1, <2>2, FS_Surjection
  <2>4. E \subseteq T
    BY <1>5
  <2> QED  BY <2>3, <2>4, FS_Subset
<1>10. Planned(E)
  BY <1>7, <1>8, <1>9 DEF Planned
<1> QED  BY <1>10 DEF E

\* The first n of a plan are at most n: their ranks are different.
LEMMA FirstFew ==
    ASSUME NEW S, Planned(S), NEW n \in Nat
    PROVE  FirstOf(S, n) \subseteq S /\ Cardinality(FirstOf(S, n)) <= n
<1> DEFINE F == FirstOf(S, n)
           Below(p) == {q \in S : q.order < p.order}
           f == [p \in F |-> Cardinality(Below(p))]
<1>1. \A p \in S : p.order \in Nat
  BY DEF Planned
<1>2. \A p \in S : Below(p) \in SUBSET S /\ IsFiniteSet(Below(p)) /\ Cardinality(Below(p)) \in Nat
  <2> SUFFICES ASSUME NEW p \in S
               PROVE  IsFiniteSet(Below(p)) /\ Cardinality(Below(p)) \in Nat
    OBVIOUS
  <2>1. Below(p) \in SUBSET S /\ IsFiniteSet(S)
    BY DEF Planned
  <2> HIDE DEF Below
  <2> QED  BY <2>1, FS_Subset, FS_CardinalityType
<1>3. F \subseteq S /\ \A p \in F : Cardinality(Below(p)) < n
  BY DEF FirstOf
<1>4. ASSUME NEW p \in S, NEW q \in S, p.order < q.order
      PROVE  Cardinality(Below(p)) # Cardinality(Below(q))
  <2>1. Below(p) \in SUBSET Below(q) /\ p \in Below(q) /\ p \notin Below(p)
    BY <1>1, <1>4
  <2>2. IsFiniteSet(Below(q))
    BY <1>2
  <2> HIDE DEF Below
  <2> QED  BY <2>1, <2>2, FS_Subset
<1>5. ASSUME NEW p \in F, NEW q \in F, Cardinality(Below(p)) = Cardinality(Below(q))
      PROVE  p = q
  <2>1. p.order = q.order
    BY <1>1, <1>3, <1>4, <1>5
  <2> QED  BY <1>3, <2>1 DEF Planned
<1> HIDE DEF F, Below
<1>6. f \in Injection(F, 0..(n - 1))
  BY <1>2, <1>3, <1>5 DEF Injection, IsInjective
<1>7. IsFiniteSet(0..(n - 1)) /\ Cardinality(0..(n - 1)) = n
  BY FS_Interval
<1> HIDE DEF f
<1>8. Cardinality(F) <= n
  BY <1>6, <1>7, FS_Injection
<1> QED  BY <1>3, <1>8 DEF F

\* A target that the selector resolved is where the move lands, as long as the
\* workspaces stay.
LEMMA AimLands ==
    ASSUME NEW rows \in Shapes, NEW dest, CurrentTarget(rows, dest) # None
    PROVE  Landing(rows, CurrentTarget(rows, dest)) = dest
<1> DEFINE current == Only(rows, Matching(rows, "id", dest))
<1>1. DOMAIN rows \subseteq Nat
  BY DesktopAssumption
<1>2. ASSUME NEW i \in DOMAIN rows
      PROVE  First(rows, {i}) = rows[i]
  BY <1>1 DEF First
<1>3. ASSUME NEW S, Only(rows, S) # None, S \subseteq DOMAIN rows
      PROVE  \E i \in DOMAIN rows : S = {i} /\ Only(rows, S) = rows[i]
  BY <1>2, <1>3 DEF Only
<1>4. ASSUME NEW f, NEW v
      PROVE  Matching(rows, f, v) \subseteq DOMAIN rows /\ \A i \in Matching(rows, f, v) : rows[i][f] = v
  BY DEF Matching
<1>5. current # None
  BY DEF CurrentTarget
<1>6. PICK i \in DOMAIN rows : Matching(rows, "id", dest) = {i} /\ current = rows[i]
  BY <1>3, <1>4, <1>5
<1>7. current.id = dest
  BY <1>4, <1>6
<1> HIDE DEF current
<1>8. CASE current.name # None
  <2>1. /\ Only(rows, Matching(rows, "name", current.name)) = current
        /\ CurrentTarget(rows, dest) = Target(dest, current.name, current.index)
    BY <1>5, <1>8 DEF CurrentTarget, current
  <2>2. PICK j \in DOMAIN rows : Matching(rows, "name", current.name) = {j} /\ current = rows[j]
    BY <1>3, <1>4, <1>5, <2>1
  <2>3. Landing(rows, CurrentTarget(rows, dest)) = First(rows, {j}).id
    BY <1>8, <2>1, <2>2 DEF Landing, Target
  <2> QED  BY <1>2, <1>7, <2>2, <2>3
<1>9. CASE current.name = None
  <2>1. /\ Only(rows, Matching(rows, "index", current.index)) = current
        /\ CurrentTarget(rows, dest) = Target(dest, None, current.index)
    BY <1>5, <1>9 DEF CurrentTarget, current
  <2>2. PICK j \in DOMAIN rows : Matching(rows, "index", current.index) = {j} /\ current = rows[j]
    BY <1>3, <1>4, <1>5, <2>1
  <2>3. Landing(rows, CurrentTarget(rows, dest)) = First(rows, {j}).id
    BY <2>1, <2>2 DEF Landing, Target
  <2> QED  BY <1>2, <1>7, <2>2, <2>3
<1> QED  BY <1>8, <1>9

\* Without a launch in the balance and without an answer from a window of the
\* session, no launch of it is alive, if none was left in uncertainty.
LEMMA SilentClear ==
    ASSUME Desk, \A t \in DOMAIN log : log[t].fate # "open",
           NEW x, \A w \in windows : w.session = x => ~w.up
    PROVE  Clear(x)
<1> SUFFICES ASSUME ~Excused(x), NEW t \in DOMAIN log, log[t].session = x, Lives(t)
             PROVE  FALSE
  BY DEF Clear
<1>1. log[t].fate = "confirmed" /\ ~log[t].copied
  <2>1. IsAttempt(log[t])
    BY DEF Desk, IsLog
  <2>2. log[t].fate \in {"open", "confirmed", "abandoned"}
    BY <2>1 DEF IsAttempt
  <2> QED  BY <2>2 DEF Excused
<1>2. t \notin launches /\ \A w \in windows : w.token = t => w.up
  BY <1>1 DEF Desk, Seen
<1>3. PICK w \in windows : w.token = t /\ w.up
  BY <1>2 DEF Lives
<1>4. t # None
  BY LogIsList, DesktopAssumption DEF Desk
<1>5. w.session = x
  BY <1>3, <1>4 DEF Desk, WindowsFit, Bears
<1> QED  BY <1>3, <1>5

LEMMA NoneOpen ==
    ASSUME Held, Waited, \/ fpc \in Holding /\ fpc # "wait"
                         \/ apc \in ApplyHolding /\ apc # "wait"
    PROVE  \A t \in DOMAIN log : log[t].fate # "open"
BY PinAssumption DEF Held, Waited, Holding, FollowPlaces, ApplyHolding, ApplyPlaces

\* What follow sees when it is certain of every window.
LEMMA CertainClear ==
    ASSUME Desk, \A t \in DOMAIN log : log[t].fate # "open", NEW x,
           NEW inventory \in InspectProjections, Certain(inventory), ExactProjections(inventory, x) = {}
    PROVE  Clear(x)
<1>1. PICK noise, v : inventory = Inventory(noise, v)
  BY DEF InspectProjections
<1>2. inventory.untracked = windows \ (inventory.exact \cup inventory.ambiguous)
  BY <1>1 DEF Inventory
<1>3. \A w \in windows : w \in inventory.exact
  BY <1>2 DEF Certain
<1>4. \A w \in windows : w.session # x
  BY <1>3 DEF ExactProjections
<1> QED  BY <1>4, SilentClear

\* What apply sees when nothing of the session may be there.
LEMMA RecheckedClear ==
    ASSUME Desk, \A t \in DOMAIN log : log[t].fate # "open", NEW x, x # None,
           NEW inventory \in InspectProjections, ~AmbiguousCandidate(inventory, x, None),
           inventory.unverified = {}, ExactProjections(inventory, x) = {}
    PROVE  Clear(x)
<1>1. PICK noise, v : inventory = Inventory(noise, v)
  BY DEF InspectProjections
<1>2. inventory.exact = {w \in windows : w.up /\ w.session # None}
                           \ (inventory.ambiguous \cup inventory.unverified)
  BY <1>1 DEF Inventory
<1>3. ASSUME NEW w \in windows, w.session = x, w.up
      PROVE  FALSE
  <2>1. w \in inventory.exact \cup inventory.ambiguous
    BY <1>2, <1>3
  <2> QED  BY <1>3, <2>1 DEF AmbiguousCandidate, ExactProjections
<1> QED  BY <1>3, SilentClear

\* The one window that a launch takes for its own.
LEMMA MatchShows ==
    ASSUME Desk, NEW inventory \in InspectProjections, NEW x, NEW t \in DOMAIN log, NEW before,
           Cardinality(NewMatches(inventory, x, t, before)) = 1, NEW id,
           id = CHOOSE i \in WindowIDs(NewMatches(inventory, x, t, before)) : TRUE
    PROVE  /\ Shows(id, t) /\ t \notin launches
           /\ log[t].copied \/ \A w \in windows : w.token = t => w.up
<1> DEFINE matches == NewMatches(inventory, x, t, before)
<1>1. PICK noise, v : inventory = Inventory(noise, v)
  BY DEF InspectProjections
<1>2. \A w \in matches : w \in windows /\ w.up /\ w.token = t
  BY <1>1 DEF NewMatches, ExactProjections, Inventory
<1>3. matches # {}
  BY FS_EmptySet
<1>4. id \in WindowIDs(matches)
  BY <1>3 DEF WindowIDs
<1> HIDE DEF matches
<1>5. PICK w \in windows : w.id = id /\ w.up /\ w.token = t
  BY <1>2, <1>4 DEF WindowIDs
<1>6. t # None
  BY LogIsList, DesktopAssumption DEF Desk
<1>7. \A u, y \in windows : u.id = y.id => u = y
  BY DEF Desk, WindowsFit
<1>8. Shows(id, t)
  <2>1. IsWindow(w) /\ Used(w.id)
    BY DEF Desk, WindowsFit
  <2>2. w.id \in Nat
    BY <2>1 DEF IsWindow
  <2> QED  BY <1>5, <1>7, <2>1, <2>2 DEF Shows
<1>9. \A u \in windows : u.token = t => Bears(u, t)
  BY <1>6 DEF Desk, WindowsFit
<1>10. t \notin launches
  BY <1>5, <1>9 DEF Bears
<1>11. ASSUME ~log[t].copied, NEW u \in windows, u.token = t
       PROVE  u.up
  <2>1. u.id = LaunchedID(t) /\ w.id = LaunchedID(t)
    BY <1>5, <1>9, <1>11 DEF Bears
  <2> QED  BY <1>5, <1>7, <2>1
<1> QED  BY <1>8, <1>10, <1>11

FollowQuiet ==
    \/ FollowStart \/ FollowLocks \/ PollFails \/ FollowPolls \/ FollowObserves \/ FollowPlans
    \/ FollowStopsBatch \/ FollowAims \/ FollowMoveFails \/ FollowReports \/ FollowSleeps
    \/ FollowUnlocks \/ ScreenReads \/ Quits

LEMMA FollowQuietStill ==
    ASSUME FollowQuiet
    PROVE  UNCHANGED <<desktop, pin, temp>>
BY DEF FollowQuiet, FollowStart, FollowLocks, PollFails, FollowPolls, FollowObserves, FollowPlans,
       FollowStopsBatch, FollowAims, FollowMoveFails, FollowReports, FollowSleeps, FollowUnlocks,
       ScreenReads, Quits, Quiet, Acquire, Release, store

\* What the follow command makes of its own state, action by action.
FollowOwn ==
    /\ FollowFit' /\ RoomFit'
    /\ fpc' # "off" => /\ follow'.run = follow.run /\ follow'.attempts = follow.attempts
                       /\ fpc # "off"
    /\ fpc = "wait" => fpc' = "wait" /\ follow'.token = follow.token

LEMMA FollowQuietOwn ==
    ASSUME IInv, FollowQuiet, ~FollowStart
    PROVE  FollowOwn /\ runs' = runs
<1> USE DEF FollowOwn
<1>0. /\ FollowFit /\ RoomFit /\ Desk /\ Held /\ Waited /\ Kept
      /\ \A x : Clear(x) => Clear(x)'
  <2>1. Desk /\ UNCHANGED desktop
    BY FollowQuietStill DEF IInv, desktop
  <2>2. Kept /\ DOMAIN log' = DOMAIN log
    BY <2>1, StillKeeps
  <2>3. \A x : Clear(x) => Clear(x)'
    BY <2>2, ClearStays DEF Kept
  <2> QED  BY <2>2, <2>3 DEF IInv
<1>1. CASE EndPoll /\ fpc \notin {"off", "wait"} /\ runs' = runs
  BY <1>0, <1>1, EndPollFit DEF EndPoll
<1>2. CASE FollowLocks
  <2>1. fpc = "lock" /\ follow' = follow /\ fpc' \in {"off", "poll"} /\ runs' = runs
    BY <1>2 DEF FollowLocks
  <2>2. follow.plans = {}
    BY <1>0, <2>1 DEF FollowFit
  <2> QED  BY <1>0, <2>1, <2>2 DEF FollowFit, RoomFit
<1>3. CASE PollFails \/ FollowStopsBatch \/ FollowMoveFails
  BY <1>1, <1>3 DEF PollFails, FollowStopsBatch, FollowMoveFails, Quiet
<1>4. CASE FollowPolls
  <2>1. PICK s \in Snapshots :
           /\ ValidFollowSnapshot(s)
           /\ follow' = [follow EXCEPT !.elig = Eligible(s, follow.sel), !.batch = 0,
                                       !.known = {x \in ToSet(s.active) : ExactSessionID(s, x) # None}]
    BY <1>4 DEF FollowPolls, AcquireRemote
  <2>2. fpc = "poll" /\ fpc' = "observe" /\ runs' = runs
    BY <1>4 DEF FollowPolls, Quiet
  <2>3. PICK E : E = Eligible(s, follow.sel) /\ Planned(E)
    BY <2>1, EligiblePlanned
  <2>4. /\ IsFollow(follow') /\ follow'.run = follow.run /\ follow'.plans = follow.plans
        /\ follow'.attempts = follow.attempts /\ follow'.batch = 0 /\ follow'.elig = E
    BY <1>0, <2>1, <2>3 DEF FollowFit, IsFollow
  <2>5. follow.plans = {}
    BY <1>0, <2>2 DEF FollowFit
  <2>6. FollowFit'
    <3>1. IsFollow(follow)' /\ Planned(follow.elig)' /\ Planned(follow.plans)'
      BY <2>3, <2>4, <2>5, NoneToOpen DEF IsFollow, Planned
    <3> QED  BY <1>0, <2>2, <2>4, <2>5, <3>1 DEF FollowFit
  <2>7. RoomFit'
    <3>1. follow.attempts \in Nat /\ Cardinality(follow.plans) = 0 /\ follow.attempts <= MaxTotal
      BY <1>0, <2>5, NoneToOpen, RoomLeft
    <3> QED  BY <2>4, <2>5, <3>1, FollowAssumption DEF RoomFit
  <2> QED  BY <2>2, <2>4, <2>6, <2>7
<1>5. CASE FollowObserves
  <2>1. PICK inventory \in InspectProjections :
           /\ Certain(inventory)
           /\ follow' = [follow EXCEPT !.before = WindowIDs(windows),
                                       !.elig = {p \in @ : ExactProjections(inventory, p.session) = {}}]
    BY <1>5 DEF FollowObserves
  <2>2. fpc = "observe" /\ fpc' = "gate" /\ runs' = runs
    BY <1>5 DEF FollowObserves, Quiet
  <2>3. PICK E : E = {p \in follow.elig : ExactProjections(inventory, p.session) = {}}
    OBVIOUS
  <2>4. /\ IsFollow(follow') /\ follow'.run = follow.run /\ follow'.plans = follow.plans
        /\ follow'.attempts = follow.attempts /\ follow'.batch = follow.batch /\ follow'.elig = E
    BY <1>0, <2>1, <2>3 DEF FollowFit, IsFollow
  <2>5. follow.plans = {}
    BY <1>0, <2>2 DEF FollowFit
  <2>6. \A t \in DOMAIN log : log[t].fate # "open"
    BY <1>0, <2>2, NoneOpen DEF Holding, FollowPlaces
  <2>7. \A p \in E : Clear(p.session)
    BY <1>0, <2>1, <2>3, <2>6, CertainClear
  <2>8. Planned(E)
    BY <1>0, <2>3, PlannedSubset DEF FollowFit
  <2>9. FollowFit'
    <3>1. IsFollow(follow)' /\ Planned(follow.elig)' /\ Planned(follow.plans)'
      BY <2>4, <2>5, <2>8, NoneToOpen DEF IsFollow, Planned
    <3>2. \A p \in follow'.elig : Clear(p.session)'
      BY <1>0, <2>4, <2>7
    <3> QED  BY <1>0, <2>2, <2>4, <2>5, <3>1, <3>2 DEF FollowFit
  <2>10. RoomFit'
    BY <1>0, <2>2, <2>4 DEF RoomFit
  <2> QED  BY <2>2, <2>4, <2>9, <2>10
<1>6. CASE FollowPlans
  <2>1. CASE EndPoll
    BY <1>1, <1>6, <2>1 DEF FollowPlans, Quiet
  <2>2. CASE ~EndPoll
    <3>1. PICK M : M = FirstOf(follow.elig, Limit)
      OBVIOUS
    <3>2. /\ follow' = [follow EXCEPT !.plans = M, !.elig = {}, !.known = {}]
          /\ fpc = "gate" /\ fpc' = "launch" /\ runs' = runs
      BY <1>6, <2>2, <3>1 DEF FollowPlans, Quiet
    <3>3. /\ IsFollow(follow') /\ follow'.run = follow.run /\ follow'.plans = M
          /\ follow'.attempts = follow.attempts /\ follow'.batch = follow.batch /\ follow'.elig = {}
      BY <1>0, <3>2 DEF FollowFit, IsFollow
    <3>4. Planned(follow.elig) /\ \A p \in follow.elig : Clear(p.session)
      BY <1>0, <3>2 DEF FollowFit
    <3>5. follow.plans = {}
      BY <1>0, <3>2 DEF FollowFit
    <3>6. /\ Limit \in Nat /\ follow.attempts + Limit <= MaxTotal /\ Limit <= MaxPerPoll
      BY <1>0, RoomLeft, FollowAssumption DEF Limit
    <3>7. M \subseteq follow.elig /\ Cardinality(M) <= Limit
      BY <3>1, <3>4, <3>6, FirstFew
    <3>8. Planned(M)
      BY <3>4, <3>7, PlannedSubset
    <3>9. FollowFit'
      <4>1. IsFollow(follow)' /\ Planned(follow.elig)' /\ Planned(follow.plans)'
        BY <3>3, <3>8, NoneToOpen DEF IsFollow, Planned
      <4>2. \A p \in follow'.plans : Clear(p.session)'
        BY <1>0, <3>3, <3>4, <3>7
      <4> QED  BY <1>0, <3>2, <3>3, <4>1, <4>2 DEF FollowFit
    <3>10. RoomFit'
      <4>1. Cardinality(M) \in Nat /\ follow.batch = 0
        BY <1>0, <3>2, <3>8, FS_CardinalityType DEF Planned, RoomFit
      <4>2. follow.attempts \in Nat
        BY <1>0, RoomLeft
      <4>3. follow.attempts + Cardinality(M) <= MaxTotal /\ 0 + Cardinality(M) <= MaxPerPoll
        BY <3>6, <3>7, <4>1, <4>2, FollowAssumption
      <4> QED  BY <3>2, <3>3, <4>1, <4>3 DEF RoomFit
    <3> QED  BY <3>2, <3>3, <3>9, <3>10
  <2> QED  BY <2>1, <2>2
<1>7. CASE FollowAims
  <2>1. CASE EndPoll
    BY <1>1, <1>7, <2>1 DEF FollowAims, Quiet
  <2>2. CASE ~EndPoll
    <3>1. PICK target : target = CurrentTarget(shape, follow.dest)
      OBVIOUS
    <3>2. /\ target # None /\ fpc = "aim" /\ fpc' = "move" /\ runs' = runs
          /\ follow' = [follow EXCEPT !.target = target, !.seen = shape]
      BY <1>7, <2>2, <3>1 DEF FollowAims, Quiet
    <3>3. /\ IsFollow(follow') /\ follow'.run = follow.run /\ follow'.plans = follow.plans
          /\ follow'.attempts = follow.attempts /\ follow'.batch = follow.batch
          /\ follow'.elig = follow.elig /\ follow'.token = follow.token /\ follow'.item = follow.item
          /\ follow'.match = follow.match /\ follow'.dest = follow.dest
          /\ follow'.target = target /\ follow'.seen = shape
      BY <1>0, <3>2 DEF FollowFit, IsFollow
    <3>4. Landing(shape, target) = follow.dest
      BY <1>0, <3>1, <3>2, AimLands DEF Desk
    <3>5. UNCHANGED <<windows, launches, log, left>>
      BY <1>7, FollowQuietStill DEF FollowQuiet, desktop
    <3>6. FollowFit'
      <4>1. IsFollow(follow)' /\ Planned(follow.elig)' /\ Planned(follow.plans)'
        BY <1>0, <3>3 DEF IsFollow, Planned, FollowFit
      <4>2. \A p \in follow'.plans : Clear(p.session)'
        BY <1>0, <3>3 DEF FollowFit
      <4>3. /\ Launched(follow.token, "follow", follow.run, follow.item, "confirmed")'
            /\ Shows(follow.match, follow.token)'
        BY <1>0, <3>2, <3>3, <3>5 DEF FollowFit, Launched, Shows, Used
      <4> QED  BY <1>0, <3>2, <3>3, <3>4, <4>1, <4>2, <4>3 DEF FollowFit
    <3>7. RoomFit'
      BY <1>0, <3>2, <3>3 DEF RoomFit
    <3> QED  BY <3>2, <3>3, <3>6, <3>7
  <2> QED  BY <2>1, <2>2
<1>8. CASE FollowReports \/ FollowSleeps
  <2>1. /\ fpc \in {"report", "sleep"} /\ fpc' \in {"sleep", "join", "poll"}
        /\ follow' = follow /\ runs' = runs
    BY <1>8 DEF FollowReports, FollowSleeps
  <2>2. follow.plans = {}
    BY <1>0, <2>1 DEF FollowFit
  <2> QED  BY <1>0, <2>1, <2>2 DEF FollowFit, RoomFit
<1>9. CASE FollowUnlocks
  <2>1. fpc = "join" /\ fpc' = "off" /\ follow' = NoFollow /\ runs' = runs
    BY <1>9 DEF FollowUnlocks
  <2> QED  BY <2>1, NoFollowFit
<1>10. CASE ScreenReads \/ Quits
  <2>1. fpc' = fpc /\ follow' = follow /\ runs' = runs /\ UNCHANGED desktop
    BY <1>10 DEF ScreenReads, Quits
  <2>2. BesideFollow
    BY <1>0, <2>1 DEF BesideFollow, Kept, desktop
  <2> QED  BY <1>0, <2>1, <2>2, FollowFitStays DEF RoomFit
<1> QED  BY <1>2, <1>3, <1>4, <1>5, <1>6, <1>7, <1>8, <1>9, <1>10 DEF FollowQuiet

\* What a step may do to others' windows and launches, and must know of its own.
Right ==
    /\ Len(log') > Len(log) => lock = log'[Len(log')].by
    /\ \A w \in windows, x \in windows' : w.id = x.id /\ w.place # x.place =>
          /\ lock \in Owners /\ w.token # None
          /\ log[w.token].by = lock /\ log[w.token].fate = "confirmed"
          /\ lock = "follow" => x.place = follow.dest \/ shape # follow.seen

FollowDone ==
    /\ FollowFit' /\ RoomFit' /\ TallyFit' /\ RunsFit' /\ Waited' /\ OneProjectionEach'
    /\ BesideApply /\ Right

LEMMA WaitedStays ==
    ASSUME Waited, Onward, DOMAIN log' = DOMAIN log, UNCHANGED <<apc, apply>>,
           fpc = "wait" => \/ fpc' = "wait" /\ follow'.token = follow.token
                           \/ follow.token \in DOMAIN log => log'[follow.token].fate # "open"
    PROVE  Waited'
BY DEF Waited, Onward

LEMMA RightStays == ASSUME Kept, Len(log') = Len(log), Desk PROVE Right
BY LogIsList DEF Right, Kept, Unmoved, Desk

LEMMA FollowQuietDone ==
    ASSUME IInv, FollowQuiet, ~FollowStart, UNCHANGED pinning
    PROVE  FollowDone
<1>1. FollowOwn /\ runs' = runs
  BY FollowQuietOwn
<1>2. UNCHANGED <<desktop, pin, temp, apc, apply>>
  BY FollowQuietStill DEF pinning
<1>3. Kept /\ DOMAIN log' = DOMAIN log /\ log' = log
  BY <1>2, StillKeeps DEF IInv, desktop
<1>4. Waited'
  BY <1>1, <1>2, <1>3, WaitedStays DEF IInv, FollowOwn, Kept
<1>5. TallyFit'
  BY <1>1, <1>3, TallyStays DEF IInv, FollowOwn, Kept, FollowFit
<1>6. OneProjectionEach'
  BY <1>3, ProjectionStays DEF IInv, Kept
<1>7. BesideApply
  BY <1>2, <1>3 DEF BesideApply, Kept
<1>8. Right
  BY <1>3, RightStays DEF IInv
<1> QED  BY <1>1, <1>4, <1>5, <1>6, <1>7, <1>8 DEF FollowDone, FollowOwn, RunsFit, IInv

LEMMA RunOnce ==
    ASSUME RunsFit, NEW command \in {"follow", "apply", "save"}, MayRun(command), Run(command)
    PROVE  /\ RunsFit' /\ runs[command] \in Nat /\ runs'[command] = runs[command] - 1
           /\ \A other \in {"follow", "apply", "save"} : other # command => runs'[other] = runs[other]
BY DEF RunsFit, MayRun, Run

LEMMA FollowStartDone ==
    ASSUME IInv, FollowStart, UNCHANGED pinning
    PROVE  FollowDone
<1>1. UNCHANGED <<desktop, pin, temp, apc, apply>>
  BY FollowQuietStill DEF FollowQuiet, pinning
<1>2. Kept /\ DOMAIN log' = DOMAIN log /\ log' = log
  BY <1>1, StillKeeps DEF IInv, desktop
<1>3. PICK n, sel, dest : n = runs["follow"] /\ follow' = [NoFollow EXCEPT !.run = n, !.sel = sel, !.dest = dest]
  BY DEF FollowStart
<1>4. fpc = "off" /\ fpc' = "lock"
  BY DEF FollowStart
<1>5. RunsFit' /\ n \in Nat /\ runs'["follow"] = n - 1
  BY <1>3, RunOnce DEF IInv, FollowStart
<1>6. /\ IsFollow(follow') /\ follow'.run = n /\ follow'.plans = {} /\ follow'.elig = {}
      /\ follow'.attempts = 0 /\ follow'.batch = 0
  BY <1>3 DEF NoFollow, IsFollow
<1>7. FollowFit'
  <2>1. IsFollow(follow)' /\ Planned(follow.elig)' /\ Planned(follow.plans)'
    BY <1>6, NoneToOpen DEF IsFollow, Planned
  <2> QED  BY <1>4, <1>5, <1>6, <2>1 DEF FollowFit
<1>8. RoomFit'
  BY <1>4, <1>6, NoneToOpen, FollowAssumption DEF RoomFit
<1>9. \A t \in DOMAIN log : log[t].by = "follow" => log[t].run \in Nat /\ log[t].run > n
  BY <1>3 DEF IInv, TallyFit, Desk, IsLog, IsAttempt
<1>10. TallyFit'
  <2>1. \A r : Of(r)' = Of(r)
    BY <1>2 DEF Of
  <2>2. Of(n) = {}
    BY <1>5, <1>9 DEF Of
  <2>3. Cardinality(Of(n)') = 0
    BY <2>1, <2>2, NoneToOpen
  <2>4. ASSUME NEW t \in DOMAIN log', log'[t].by = "follow", NEW r, r = log'[t].run
        PROVE  Cardinality(Of(r)') <= MaxTotal
    BY <1>2, <2>1, <2>4 DEF IInv, TallyFit
  <2>5. \A t \in DOMAIN log' : log'[t].by = "follow" => log'[t].run > runs'["follow"]
    BY <1>2, <1>5, <1>9
  <2>6. follow'.run > runs'["follow"] /\ Cardinality(Of(follow.run)') <= follow'.attempts
    BY <1>5, <1>6, <2>3
  <2> QED  BY <2>4, <2>5, <2>6 DEF TallyFit
<1>11. Waited'
  BY <1>1, <1>2, <1>4, WaitedStays DEF IInv, Kept
<1>12. OneProjectionEach'
  BY <1>2, ProjectionStays DEF IInv, Kept
<1>13. BesideApply
  BY <1>1, <1>2 DEF BesideApply, Kept
<1>14. Right
  BY <1>2, RightStays DEF IInv
<1> QED  BY <1>5, <1>7, <1>8, <1>10, <1>11, <1>12, <1>13, <1>14 DEF FollowDone

\* A launch is tried: the account of follow's launches grows by one, or not.
LEMMA TallyGrows ==
    ASSUME IsLog(log), Onward, NEW owner, NEW run, NEW x, NEW fate, Started(owner, run, x, fate), NEW r
    PROVE  /\ IsFiniteSet(Of(r)) /\ Cardinality(Of(r)) \in Nat
           /\ Of(r)' = IF owner = "follow" /\ r = run THEN Of(r) \cup {Len(log) + 1} ELSE Of(r)
           /\ Cardinality(Of(r)') = IF owner = "follow" /\ r = run THEN Cardinality(Of(r)) + 1
                                                                  ELSE Cardinality(Of(r))
<1>1. Of(r)' = IF owner = "follow" /\ r = run THEN Of(r) \cup {Len(log) + 1} ELSE Of(r)
  BY DEF Of, Started
<1>2. IsFiniteSet(Of(r))
  <2>1. IsFiniteSet(DOMAIN log)
    BY LogIsList, FS_Interval
  <2> QED  BY <2>1, FS_Subset DEF Of
<1>3. Len(log) + 1 \notin Of(r)
  BY DEF Of, Started
<1> HIDE DEF Of
<1> QED  BY <1>1, <1>2, <1>3, FS_AddElement, FS_CardinalityType

LEMMA FollowHolds ==
    ASSUME Held, fpc \in Holding
    PROVE  lock = "follow" /\ apc \notin ApplyHolding /\ spc \notin SaveHolding /\ fpc # "off"
BY DEF Held, Holding

\* The account of a launch that follow tries.
LEMMA TallyCharged ==
    ASSUME IInv, Onward, NEW x, NEW fate, Started("follow", follow.run, x, fate), fpc # "off",
           follow'.run = follow.run, follow'.attempts = follow.attempts + 1,
           follow'.attempts <= MaxTotal, runs' = runs
    PROVE  TallyFit'
<1>1. /\ IsLog(log) /\ TallyFit /\ follow.attempts \in Nat /\ MaxTotal \in Nat
  BY FollowAssumption DEF IInv, Desk, FollowFit, IsFollow
<1>2. PICK run : run = follow.run
  OBVIOUS
<1>3. \A r : /\ Cardinality(Of(r)) \in Nat
             /\ Cardinality(Of(r)') = IF r = run THEN Cardinality(Of(r)) + 1 ELSE Cardinality(Of(r))
  BY <1>1, <1>2, TallyGrows
<1>4. Cardinality(Of(run)) <= follow.attempts
  BY <1>1, <1>2 DEF TallyFit
<1>5. Cardinality(Of(run)') <= follow.attempts + 1
  BY <1>1, <1>3, <1>4
<1>6. ASSUME NEW t \in DOMAIN log', log'[t].by = "follow", NEW r, r = log'[t].run
      PROVE  Cardinality(Of(r)') <= MaxTotal
  <2>1. CASE r = run
    BY <1>1, <1>3, <1>5, <2>1
  <2>2. CASE r # run
    <3>1. t \in DOMAIN log /\ log[t].by = "follow" /\ log[t].run = r
      BY <1>2, <1>6, <2>2 DEF Started
    <3> QED  BY <1>1, <1>3, <2>2, <3>1 DEF TallyFit
  <2> QED  BY <2>1, <2>2
<1>7. \A t \in DOMAIN log' : log'[t].by = "follow" => log'[t].run > runs'["follow"]
  BY <1>1, <1>2 DEF TallyFit, Started
<1>8. follow'.run > runs'["follow"] /\ Cardinality(Of(follow.run)') <= follow'.attempts
  BY <1>1, <1>2, <1>5 DEF TallyFit
<1> QED  BY <1>6, <1>7, <1>8 DEF TallyFit

\* What is the same for every launch that follow tries.
LEMMA FollowTries ==
    ASSUME IInv, fpc = "launch", NEW p \in follow.plans, NEW fate,
           Starts("follow", follow.run, p.session, fate), UNCHANGED <<pin, apc, apply>>
    PROVE  /\ Kept /\ Started("follow", follow.run, p.session, fate)
           /\ OneProjectionEach' /\ BesideApply /\ Right
           /\ follow.attempts + 1 <= MaxTotal
           /\ Cardinality(follow.plans \ {p}) = Cardinality(follow.plans) - 1
<1>1. /\ Desk /\ Held /\ FollowFit /\ RoomFit /\ OneProjectionEach
  BY DEF IInv
<1>2. lock = "follow" /\ apc \notin ApplyHolding
  BY <1>1, FollowHolds DEF Holding, FollowPlaces
<1>3. PICK run, x : run = follow.run /\ x = p.session
  OBVIOUS
<1>4. run \in Nat /\ x # None /\ Clear(x)
  BY <1>1, <1>3 DEF FollowFit, Planned
<1>5. Kept /\ Started("follow", run, x, fate)
  <2>1. "follow" \in Owners /\ Starts("follow", run, x, fate)
    BY <1>3 DEF Owners
  <2> QED  BY <1>1, <1>4, <2>1, StartsKeeps
<1>6. OneProjectionEach'
  BY <1>1, <1>4, <1>5, ProjectionStarts DEF Kept
<1>7. BesideApply
  <2>1. \A t \in DOMAIN log : log'[t] = log[t]
    BY <1>5 DEF Started
  <2> QED  BY <1>2, <1>5, <2>1 DEF BesideApply, Kept
<1>8. Right
  BY <1>2, <1>5 DEF Right, Kept, Unmoved, Started
<1>9. Cardinality(follow.plans \ {p}) = Cardinality(follow.plans) - 1
  BY <1>1, FS_RemoveElement DEF FollowFit, Planned
<1>10. Cardinality(follow.plans \ {p}) \in Nat
  BY <1>1, FS_RemoveElement, FS_CardinalityType DEF FollowFit, Planned
<1>11. follow.attempts + 1 <= MaxTotal
  BY <1>1, <1>9, <1>10, RoomLeft, FollowAssumption DEF RoomFit
<1> QED  BY <1>3, <1>5, <1>6, <1>7, <1>8, <1>9, <1>11

LEMMA FollowLaunchesDone ==
    ASSUME IInv, FollowLaunches, UNCHANGED pinning
    PROVE  FollowDone
<1>1. /\ Desk /\ FollowFit /\ RoomFit /\ Waited /\ IsLog(log) /\ Len(log) \in Nat
      /\ apc' = apc /\ apply' = apply
  BY LogIsList DEF IInv, Desk, pinning
<1>0. PICK n : n = Len(log) + 1
  OBVIOUS
<1>2. PICK p \in follow.plans :
         /\ n = Len(log) + 1 /\ Launch("follow", follow.run, p.session)
         /\ follow' = [Charge EXCEPT !.plans = @ \ {p}, !.item = p.session, !.token = n]
  BY <1>0 DEF FollowLaunches
<1>3. /\ fpc = "launch" /\ fpc' = "wait" /\ runs' = runs /\ UNCHANGED <<pin, temp>>
  BY DEF FollowLaunches, store
<1>4. Starts("follow", follow.run, p.session, "open")
  BY <1>2 DEF Starts, Launch
<1>5. /\ IsFollow(follow') /\ follow'.run = follow.run /\ follow'.plans = follow.plans \ {p}
      /\ follow'.elig = follow.elig /\ follow'.item = p.session /\ follow'.token = n
      /\ follow'.attempts = follow.attempts + 1 /\ follow'.batch = follow.batch + 1
  <2>1. PICK c : c = Charge
    OBVIOUS
  <2>2. /\ IsFollow(c) /\ c.run = follow.run /\ c.plans = follow.plans /\ c.elig = follow.elig
        /\ c.attempts = follow.attempts + 1 /\ c.batch = follow.batch + 1
    <3>1. IsFollow(follow) /\ follow.attempts \in Nat /\ follow.batch \in Nat
      BY <1>1 DEF FollowFit, IsFollow
    <3>2. PICK a, b : a = follow.attempts + 1 /\ b = follow.batch + 1
      OBVIOUS
    <3>3. a \in Nat /\ b \in Nat
      BY <3>1, <3>2
    <3>4. c = [follow EXCEPT !.attempts = a, !.batch = b]
      BY <2>1, <3>2 DEF Charge
    <3>5. /\ c.run = follow.run /\ c.plans = follow.plans /\ c.elig = follow.elig
          /\ c.attempts = a /\ c.batch = b /\ IsFollow(c)
      BY <3>1, <3>3, <3>4 DEF IsFollow
    <3> QED  BY <3>2, <3>5
  <2>3. follow' = [c EXCEPT !.plans = c.plans \ {p}, !.item = p.session, !.token = n]
    BY <1>2, <2>1
  <2> QED  BY <2>2, <2>3 DEF IsFollow
<1>6. /\ Kept /\ Started("follow", follow.run, p.session, "open")
      /\ OneProjectionEach' /\ BesideApply /\ Right
      /\ follow.attempts + 1 <= MaxTotal
      /\ Cardinality(follow.plans \ {p}) = Cardinality(follow.plans) - 1
  BY <1>1, <1>3, <1>4, FollowTries
<1>7. ASSUME NEW q \in follow.plans \ {p}
      PROVE  Clear(q.session)'
  <2>1. Clear(q.session) /\ q.session # p.session
    BY <1>1 DEF FollowFit, Planned
  <2>2. PICK x, y : x = q.session /\ y = p.session
    OBVIOUS
  <2>3. Started("follow", follow.run, y, "open") /\ Onward /\ x # y /\ Clear(x)
    BY <1>6, <2>1, <2>2 DEF Kept
  <2>4. Clear(x)'
    <3>1. \A t \in DOMAIN log : log'[t] = log[t] /\ t \in DOMAIN log' /\ (Lives(t)' => Lives(t))
      BY <2>3 DEF Started, Onward
    <3>2. \A t \in DOMAIN log' : log'[t].session = x => t \in DOMAIN log
      BY <2>3 DEF Started
    <3>3. Excused(x) => Excused(x)'
      BY <3>1 DEF Excused
    <3> QED  BY <2>3, <3>1, <3>2, <3>3 DEF Clear
  <2> QED  BY <2>2, <2>4
<1>8. FollowFit'
  <2>1. Planned(follow.plans \ {p})
    BY <1>1, PlannedSubset DEF FollowFit
  <2>2. IsFollow(follow)' /\ Planned(follow.elig)' /\ Planned(follow.plans)'
    BY <1>1, <1>5, <2>1 DEF IsFollow, Planned, FollowFit
  <2>3. \A q \in follow'.plans : Clear(q.session)'
    BY <1>5, <1>7
  <2>4. Launched(follow.token, "follow", follow.run, follow.item, "open")'
    BY <1>2, <1>5, <1>6 DEF Launched, Started
  <2> QED  BY <1>1, <1>3, <1>5, <2>2, <2>3, <2>4 DEF FollowFit
<1>9. RoomFit'
  <2>1. /\ Cardinality(follow.plans) \in Nat /\ follow.attempts \in Nat /\ follow.batch \in Nat
    BY <1>1, RoomLeft
  <2>2. /\ follow.attempts + 1 + (Cardinality(follow.plans) - 1) <= MaxTotal
        /\ follow.batch + 1 + (Cardinality(follow.plans) - 1) <= MaxPerPoll
    BY <1>1, <2>1, FollowAssumption DEF RoomFit
  <2> QED  BY <1>3, <1>5, <1>6, <2>2 DEF RoomFit
<1>10. TallyFit'
  BY <1>3, <1>5, <1>6, TallyCharged DEF Kept
<1>11. Waited'
  <2>1. \A t \in DOMAIN log' : t = n \/ (t \in DOMAIN log /\ log'[t] = log[t])
    BY <1>2, <1>6 DEF Started
  <2> QED  BY <1>1, <1>3, <1>5, <2>1 DEF Waited
<1> QED  BY <1>3, <1>6, <1>8, <1>9, <1>10, <1>11 DEF FollowDone, IInv, RunsFit

LEMMA FollowLaunchFailsDone ==
    ASSUME IInv, FollowLaunchFails, UNCHANGED pinning
    PROVE  FollowDone
<1>1. /\ Desk /\ FollowFit /\ RoomFit /\ Waited /\ apc' = apc /\ apply' = apply
  BY DEF IInv, pinning
<1>2. PICK p \in follow.plans : LaunchFails("follow", follow.run, p.session)
  BY DEF FollowLaunchFails
<1>3. PICK n : n = follow.attempts + 1
  OBVIOUS
<1>4. /\ fpc = "launch" /\ fpc' = "report" /\ runs' = runs /\ UNCHANGED <<pin, temp>>
      /\ follow' = [BetweenPolls EXCEPT !.attempts = n]
  <2>1. BetweenPolls.attempts = follow.attempts
    BY DEF BetweenPolls, NoFollow
  <2> QED  BY <1>3, <2>1 DEF FollowLaunchFails, store
<1>5. Starts("follow", follow.run, p.session, "abandoned")
  BY <1>2 DEF Starts, LaunchFails
<1>6. /\ Kept /\ Started("follow", follow.run, p.session, "abandoned")
      /\ OneProjectionEach' /\ BesideApply /\ Right /\ follow.attempts + 1 <= MaxTotal
  BY <1>1, <1>4, <1>5, FollowTries
<1>7. n \in Nat /\ n <= MaxTotal
  BY <1>1, <1>3, <1>6, RoomLeft
<1>8. FollowFit' /\ RoomFit' /\ follow'.run = follow.run /\ follow'.attempts = n
  BY <1>1, <1>4, <1>7, BetweenFit
<1>9. TallyFit'
  BY <1>3, <1>4, <1>6, <1>7, <1>8, TallyCharged DEF Kept
<1>10. Waited'
  <2>1. \A t \in DOMAIN log' : (t \in DOMAIN log /\ log'[t] = log[t]) \/ log'[t].fate = "abandoned"
    BY <1>6 DEF Started
  <2> QED  BY <1>1, <1>4, <2>1 DEF Waited
<1> QED  BY <1>4, <1>6, <1>8, <1>9, <1>10 DEF FollowDone, IInv, RunsFit

\* What is the same whenever follow's wait for a window is over.
LEMMA FollowSettles ==
    ASSUME IInv, fpc = "wait", NEW fate, Settles(follow.token, fate), UNCHANGED <<pin, apc, apply>>
    PROVE  /\ Kept /\ DOMAIN log' = DOMAIN log /\ OneProjectionEach' /\ BesideApply /\ Right /\ Waited'
           /\ fate # "open" /\ Launched(follow.token, "follow", follow.run, follow.item, "open")
           /\ log'[follow.token].fate = fate
<1>1. /\ Desk /\ Held /\ FollowFit /\ Waited /\ OneProjectionEach
  BY DEF IInv
<1>2. apc \notin ApplyHolding
  BY <1>1, FollowHolds DEF Holding, FollowPlaces
<1>3. PICK t : t = follow.token
  OBVIOUS
<1>4. Kept /\ Assessed(t, fate, log[t].copied)
  BY <1>1, <1>3, SettlesKeeps
<1>5. DOMAIN log' = DOMAIN log /\ Len(log') = Len(log) /\ log'[t].fate = fate /\ fate # "open"
  BY <1>3, <1>4 DEF Assessed, Settles
<1>6. Launched(t, "follow", follow.run, follow.item, "open")
  BY <1>1, <1>3 DEF FollowFit
<1>7. OneProjectionEach'
  BY <1>1, <1>4, <1>5, ProjectionStays DEF Kept
<1>8. BesideApply
  <2>1. \A u \in DOMAIN log : log[u].by = "apply" => log'[u] = log[u]
    BY <1>4, <1>6 DEF Assessed, Launched
  <2> QED  BY <1>2, <1>4, <2>1 DEF BesideApply, Kept
<1>9. Right
  BY <1>1, <1>4, <1>5, RightStays
<1>10. Waited'
  BY <1>1, <1>3, <1>4, <1>5, WaitedStays DEF Kept
<1> QED  BY <1>3, <1>4, <1>5, <1>6, <1>7, <1>8, <1>9, <1>10

LEMMA FollowConfirmsDone ==
    ASSUME IInv, FollowConfirms, UNCHANGED pinning
    PROVE  FollowDone
<1>1. /\ Desk /\ FollowFit /\ RoomFit /\ Waited /\ UNCHANGED <<apc, apply>>
  BY DEF IInv, pinning
<1>0. PICK t : t = follow.token
  OBVIOUS
<1>a. PICK inventory \in InspectProjections :
         LET matches == NewMatches(inventory, follow.item, t, follow.before)
         IN /\ Cardinality(matches) = 1
            /\ follow' = [follow EXCEPT !.match = CHOOSE i \in WindowIDs(matches) : TRUE]
  BY <1>0 DEF FollowConfirms
<1>b. PICK id : id = CHOOSE i \in WindowIDs(NewMatches(inventory, follow.item, t, follow.before)) : TRUE
  OBVIOUS
<1>2. /\ t = follow.token
      /\ Cardinality(NewMatches(inventory, follow.item, t, follow.before)) = 1
      /\ id = CHOOSE i \in WindowIDs(NewMatches(inventory, follow.item, t, follow.before)) : TRUE
      /\ follow' = [follow EXCEPT !.match = id]
  BY <1>0, <1>a, <1>b
<1>3. /\ fpc = "wait" /\ fpc' = "aim" /\ runs' = runs /\ UNCHANGED <<pin, temp>>
      /\ Resolve(t, "confirmed") /\ UNCHANGED <<windows, launches, shape, left>>
  BY <1>2 DEF FollowConfirms, store
<1>4. Launched(t, "follow", follow.run, follow.item, "open")
  BY <1>1, <1>2, <1>3 DEF FollowFit
<1>5. /\ Shows(id, t) /\ t \notin launches
      /\ log[t].copied \/ \A w \in windows : w.token = t => w.up
  BY <1>1, <1>2, <1>4, MatchShows DEF Launched
<1>6. Settles(follow.token, "confirmed")
  BY <1>2, <1>3, <1>4, <1>5 DEF Settles, Launched
<1>7. /\ Kept /\ DOMAIN log' = DOMAIN log /\ OneProjectionEach' /\ BesideApply /\ Right /\ Waited'
      /\ log'[follow.token].fate = "confirmed"
  BY <1>1, <1>3, <1>6, FollowSettles
<1>8. /\ IsFollow(follow') /\ follow'.run = follow.run /\ follow'.plans = follow.plans
      /\ follow'.elig = follow.elig /\ follow'.item = follow.item /\ follow'.token = t
      /\ follow'.attempts = follow.attempts /\ follow'.batch = follow.batch /\ follow'.match = id
  BY <1>1, <1>2 DEF FollowFit, IsFollow
<1>9. FollowFit'
  <2>1. IsFollow(follow)' /\ Planned(follow.elig)' /\ Planned(follow.plans)'
    BY <1>1, <1>8 DEF IsFollow, Planned, FollowFit
  <2>2. \A p \in follow'.plans : Clear(p.session)'
    BY <1>1, <1>7, <1>8, ClearStays DEF Kept, FollowFit
  <2>3. Launched(t, "follow", follow.run, follow.item, "confirmed")'
    BY <1>2, <1>4, <1>7, <1>8 DEF Launched, Kept, Onward
  <2>4. Shows(id, t)'
    BY <1>5, <1>7, ShowsStays DEF Kept
  <2>5. Launched(follow.token, "follow", follow.run, follow.item, "confirmed")'
    BY <1>2, <1>8, <2>3
  <2>6. Shows(follow.match, follow.token)'
    BY <1>8, <2>4
  <2> QED  BY <1>1, <1>3, <1>8, <2>1, <2>2, <2>5, <2>6 DEF FollowFit
<1>10. RoomFit'
  BY <1>1, <1>3, <1>8 DEF RoomFit
<1>11. TallyFit'
  BY <1>1, <1>3, <1>7, <1>8, TallyStays DEF IInv, Kept, FollowFit
<1> QED  BY <1>3, <1>7, <1>9, <1>10, <1>11 DEF FollowDone, IInv, RunsFit

LEMMA FollowAbandonsDone ==
    ASSUME IInv, FollowAbandons, UNCHANGED pinning
    PROVE  FollowDone
<1>1. /\ Desk /\ FollowFit /\ RoomFit /\ Waited /\ UNCHANGED <<apc, apply>>
  BY DEF IInv, pinning
<1>2. /\ fpc = "wait" /\ EndPoll /\ fpc' = "report" /\ runs' = runs /\ UNCHANGED <<pin, temp>>
      /\ Resolve(follow.token, "abandoned") /\ UNCHANGED <<windows, launches, shape, left>>
  BY DEF FollowAbandons, store, EndPoll
<1>3. Launched(follow.token, "follow", follow.run, follow.item, "open")
  BY <1>1, <1>2 DEF FollowFit
<1>4. Settles(follow.token, "abandoned")
  BY <1>2, <1>3 DEF Settles, Launched
<1>5. /\ Kept /\ DOMAIN log' = DOMAIN log /\ OneProjectionEach' /\ BesideApply /\ Right /\ Waited'
  BY <1>1, <1>2, <1>4, FollowSettles
<1>6. FollowFit' /\ RoomFit' /\ follow'.run = follow.run /\ follow'.attempts = follow.attempts
  BY <1>1, <1>2, EndPollFit
<1>7. TallyFit'
  BY <1>1, <1>2, <1>5, <1>6, TallyStays DEF IInv, Kept, FollowFit
<1> QED  BY <1>2, <1>5, <1>6, <1>7 DEF FollowDone, IInv, RunsFit

LEMMA FollowDiesDone ==
    ASSUME IInv, FollowDies, UNCHANGED pinning
    PROVE  FollowDone
<1>1. /\ Desk /\ Held /\ FollowFit /\ RoomFit /\ Waited /\ UNCHANGED <<apc, apply>>
  BY DEF IInv, pinning
<1>2. /\ fpc \in Holding /\ fpc' = "off" /\ follow' = NoFollow /\ runs' = runs /\ UNCHANGED <<pin, temp>>
      /\ UNCHANGED <<windows, launches, shape, left>>
  BY DEF FollowDies, Release
<1>3. /\ Kept /\ DOMAIN log' = DOMAIN log /\ OneProjectionEach' /\ BesideApply /\ Right /\ Waited'
  <2>1. CASE fpc = "wait"
    <3>1. Launched(follow.token, "follow", follow.run, follow.item, "open")
      BY <1>1, <2>1 DEF FollowFit
    <3>2. Settles(follow.token, "abandoned")
      BY <1>2, <2>1, <3>1 DEF Settles, Launched, FollowDies
    <3> QED  BY <1>1, <1>2, <2>1, <3>2, FollowSettles
  <2>2. CASE fpc # "wait"
    <3>1. log' = log /\ UNCHANGED desktop
      BY <1>2, <2>2 DEF FollowDies, desktop
    <3>2. Kept
      BY <1>1, <3>1, StillKeeps
    <3>3. OneProjectionEach'
      BY <3>1, <3>2, ProjectionStays DEF IInv, Kept
    <3>4. BesideApply
      BY <1>1, <1>2, <3>1, <3>2 DEF BesideApply, Kept
    <3>5. Right
      BY <1>1, <3>1, <3>2, RightStays
    <3>6. Waited'
      BY <1>1, <2>2, <3>1, <3>2, WaitedStays DEF Kept
    <3> QED  BY <3>1, <3>2, <3>3, <3>4, <3>5, <3>6
  <2> QED  BY <2>1, <2>2
<1>4. FollowFit' /\ RoomFit'
  BY <1>2, NoFollowFit
<1>5. TallyFit'
  BY <1>1, <1>2, <1>3, TallyStays DEF IInv, Kept, FollowFit
<1> QED  BY <1>2, <1>3, <1>4, <1>5 DEF FollowDone, IInv, RunsFit

LEMMA FollowMovesDone ==
    ASSUME IInv, FollowMoves, UNCHANGED pinning
    PROVE  FollowDone
<1>1. /\ Desk /\ Held /\ FollowFit /\ RoomFit /\ Waited /\ UNCHANGED <<apc, apply>>
  BY DEF IInv, pinning
<1>2. /\ fpc = "move" /\ runs' = runs /\ UNCHANGED <<pin, temp>>
      /\ Moves(follow.match, follow.target)
  BY DEF FollowMoves, store, Moves
<1>3. PICK id, t, target : id = follow.match /\ t = follow.token /\ target = follow.target
  OBVIOUS
<1>4. /\ Desk' /\ Onward /\ log' = log
      /\ \A w \in windows, x \in windows' :
            w.id = x.id /\ w.place # x.place => w.id = id /\ x.place = Landing(shape, target)
  BY <1>1, <1>2, <1>3, MovesKeeps
<1>5. /\ Launched(t, "follow", follow.run, follow.item, "confirmed") /\ Shows(id, t)
      /\ Landing(follow.seen, target) = follow.dest
  BY <1>1, <1>2, <1>3 DEF FollowFit
<1>6. lock = "follow" /\ apc \notin ApplyHolding
  BY <1>1, <1>2, FollowHolds DEF Holding, FollowPlaces
<1>7. OneProjectionEach'
  BY <1>4, ProjectionStays DEF IInv
<1>8. BesideApply
  BY <1>1, <1>4, <1>6 DEF BesideApply
<1>9. Right
  <2>1. ASSUME NEW w \in windows, NEW x \in windows', w.id = x.id, w.place # x.place
        PROVE  /\ w.token # None /\ log[w.token].by = "follow" /\ log[w.token].fate = "confirmed"
               /\ x.place = follow.dest \/ shape # follow.seen
    <3>1. w.token = t /\ x.place = Landing(shape, target)
      BY <1>4, <1>5, <2>1 DEF Shows
    <3>2. t # None
      BY <1>1, <1>5, LogIsList, DesktopAssumption DEF Launched, Desk
    <3> QED  BY <1>5, <3>1, <3>2 DEF Launched
  <2>2. ~(Len(log') > Len(log))
    BY <1>1, <1>4, LogIsList DEF Desk
  <2> QED  BY <1>6, <2>1, <2>2 DEF Right, Owners
<1>10. Waited'
  BY <1>1, <1>2, <1>4, WaitedStays
<1>11. FollowFit' /\ RoomFit' /\ follow'.run = follow.run /\ follow'.attempts = follow.attempts
  <2>1. CASE EndPoll
    BY <1>1, <1>2, <2>1, EndPollFit
  <2>2. CASE ~EndPoll
    <3>1. /\ follow' = [follow EXCEPT !.item = None, !.token = None, !.match = None,
                                      !.target = None, !.seen = <<>>]
          /\ fpc' = "launch"
      BY <2>2 DEF FollowMoves
    <3>2. /\ IsFollow(follow') /\ follow'.run = follow.run /\ follow'.plans = follow.plans
          /\ follow'.elig = follow.elig /\ follow'.attempts = follow.attempts
          /\ follow'.batch = follow.batch
      BY <1>1, <3>1 DEF FollowFit, IsFollow
    <3>3. IsFollow(follow)' /\ Planned(follow.elig)' /\ Planned(follow.plans)'
      BY <1>1, <3>2 DEF IsFollow, Planned, FollowFit
    <3>4. \A p \in follow'.plans : Clear(p.session)'
      BY <1>1, <1>4, <3>2, ClearStays DEF FollowFit
    <3>5. FollowFit'
      BY <1>1, <1>2, <3>1, <3>2, <3>3, <3>4 DEF FollowFit
    <3>6. RoomFit'
      BY <1>1, <3>1, <3>2 DEF RoomFit
    <3> QED  BY <3>2, <3>5, <3>6
  <2> QED  BY <2>1, <2>2
<1>12. TallyFit'
  BY <1>1, <1>2, <1>4, <1>11, TallyStays DEF IInv, FollowFit
<1> QED  BY <1>2, <1>7, <1>8, <1>9, <1>10, <1>11, <1>12 DEF FollowDone, IInv, RunsFit

LEMMA FollowStepDone ==
    ASSUME IInv, FollowStep, UNCHANGED pinning
    PROVE  IInv' /\ Right
<1>1. FollowDone
  BY FollowQuietDone, FollowStartDone, FollowLaunchesDone, FollowLaunchFailsDone, FollowConfirmsDone,
     FollowAbandonsDone, FollowMovesDone, FollowDiesDone DEF FollowStep, FollowWork, FollowQuiet
<1>2. Held'
  BY HeldStays DEF IInv, Next
<1>3. UNCHANGED <<pin, temp>>
  BY FollowQuietStill DEF FollowStep, FollowWork, FollowQuiet, FollowLaunches, FollowLaunchFails,
     FollowConfirms, FollowAbandons, FollowMoves, FollowDies, Release, store
<1>4. SaveFit'
  BY <1>3 DEF SaveFit, IInv, pinning
<1>5. ApplyFit'
  BY <1>1, ApplyFitStays DEF IInv, FollowDone
<1> QED  BY <1>1, <1>2, <1>4, <1>5 DEF IInv, FollowDone, BesideApply

-----------------------------------------------------------------------------
(* Steps of apply.                                                         *)

ApplyQuiet ==
    \/ ApplyStart \/ ApplyLocks \/ ApplyReads \/ ApplyObserves \/ ApplyPrepares \/ ApplyFails
    \/ ApplyDone \/ ApplySkips \/ ApplyRechecks \/ ApplyUnlocks

LEMMA ApplyQuietStill ==
    ASSUME ApplyQuiet
    PROVE  UNCHANGED <<desktop, pin, temp, following, spc, save>>
BY DEF ApplyQuiet, ApplyStart, ApplyLocks, ApplyReads, ApplyObserves, ApplyPrepares, ApplyFails,
       ApplyDone, ApplySkips, ApplyRechecks, ApplyUnlocks, Still, Acquire, Release, store

\* What the apply command makes of its own state, action by action.
ApplyOwn == ApplyFit' /\ apc # "wait"

LEMMA NoApplyFit ==
    ASSUME apc' = "off", apply' = NoApply
    PROVE  ApplyFit'
<1>1. IsApply(NoApply) /\ NoApply.items = {}
  BY DEF NoApply, IsApply
<1>2. IsApply(apply)'
  BY <1>1 DEF IsApply
<1> QED  BY <1>1, <1>2 DEF ApplyFit, ApplyHolding

\* apply goes on to the next session, or ends.
LEMMA ApplyAt ==
    ASSUME ApplyFit, IsApply(apply'), apply'.run = apply.run, apply'.pin = apply.pin,
           apply'.items \subseteq apply.items, apc \in ApplyHolding, pin' = pin,
           apc' \in {"item", "unlock"}
    PROVE  ApplyFit'
<1>1. IsApply(apply)' /\ ReadPin' = ReadPin
  BY DEF IsApply, ReadPin, ValidPin
<1> QED  BY <1>1 DEF ApplyFit, ApplyHolding, ApplyPlaces

LEMMA NextItemFields ==
    ASSUME IsApply(apply)
    PROVE  /\ IsApply(NextItem) /\ NextItem.run = apply.run /\ NextItem.pin = apply.pin
           /\ NextItem.items = apply.items
BY DEF NextItem, IsApply

LEMMA ApplyQuietOwn ==
    ASSUME IInv, ApplyQuiet, ~ApplyStart
    PROVE  ApplyOwn /\ runs' = runs
<1> USE DEF ApplyOwn
<1>0. /\ ApplyFit /\ Desk /\ Held /\ Waited /\ Kept /\ pin' = pin /\ ReadPin' = ReadPin
      /\ \A x : Clear(x) => Clear(x)'
  <2>1. Desk /\ UNCHANGED desktop /\ pin' = pin
    BY ApplyQuietStill DEF IInv, desktop
  <2>2. Kept /\ DOMAIN log' = DOMAIN log
    BY <2>1, StillKeeps
  <2>3. \A x : Clear(x) => Clear(x)'
    BY <2>2, ClearStays DEF Kept
  <2> QED  BY <2>1, <2>2, <2>3 DEF IInv, ReadPin, ValidPin
<1>1. CASE ApplyLocks
  <2>1. apc = "lock" /\ apply' = apply /\ apc' \in {"off", "read"} /\ runs' = runs
    BY <1>1 DEF ApplyLocks, Still
  <2> QED  BY <1>0, <2>1 DEF ApplyFit
<1>2. CASE ApplyReads
  <2>1. PICK p : p = ReadPin
    OBVIOUS
  <2>2. /\ apc = "read" /\ apply' = [apply EXCEPT !.pin = p] /\ runs' = runs
        /\ apc' = IF p = None THEN "unlock" ELSE "observe"
    BY <1>2, <2>1 DEF ApplyReads, Still
  <2>3. IsApply(apply') /\ apply'.run = apply.run /\ apply'.pin = p /\ apply'.items = apply.items
    BY <1>0, <2>2 DEF ApplyFit, IsApply
  <2>4. IsApply(apply)'
    BY <2>3 DEF IsApply
  <2> QED  BY <1>0, <2>1, <2>2, <2>3, <2>4 DEF ApplyFit
<1>3. CASE ApplyObserves
  <2>1. PICK inventory \in InspectProjections :
           apply' = [apply EXCEPT !.items = {p \in apply.pin : Prepared(inventory, p) = "ready"},
                                  !.active = {}, !.known = {}]
    BY <1>3 DEF ApplyObserves
  <2>2. apc = "observe" /\ apc' = "prepare" /\ runs' = runs
    BY <1>3 DEF ApplyObserves, Still
  <2>3. PICK I : I = {p \in apply.pin : Prepared(inventory, p) = "ready"}
    OBVIOUS
  <2>4. IsApply(apply') /\ apply'.run = apply.run /\ apply'.pin = apply.pin /\ apply'.items = I
    BY <1>0, <2>1, <2>3 DEF ApplyFit, IsApply
  <2>5. apply.pin # None /\ apply.pin = ReadPin
    BY <1>0, <2>2 DEF ApplyFit, ApplyHolding, ApplyPlaces
  <2>6. ValidPin(apply.pin)
    BY <2>5 DEF ReadPin
  <2>7. \A p \in I : p.session # None
    BY <2>3, <2>6 DEF ValidPin
  <2>8. IsApply(apply)'
    BY <2>4 DEF IsApply
  <2> QED  BY <1>0, <2>2, <2>4, <2>5, <2>7, <2>8 DEF ApplyFit
<1>4. CASE ApplyPrepares
  <2>1. PICK listed \in BOOLEAN :
           apply' = [apply EXCEPT
              !.items = {[session |-> p.session, order |-> p.order,
                          target |-> IF listed THEN ResolveWorkspaceReference(p) ELSE None] : p \in @}]
    BY <1>4 DEF ApplyPrepares
  <2>2. apc = "prepare" /\ apc' = "item" /\ runs' = runs
    BY <1>4 DEF ApplyPrepares, Still
  <2>3. PICK I : I = {[session |-> p.session, order |-> p.order,
                       target |-> IF listed THEN ResolveWorkspaceReference(p) ELSE None] : p \in apply.items}
    OBVIOUS
  <2>4. IsApply(apply') /\ apply'.run = apply.run /\ apply'.pin = apply.pin /\ apply'.items = I
    BY <1>0, <2>1, <2>3 DEF ApplyFit, IsApply
  <2>5. \A p \in I : p.session # None
    BY <1>0, <2>3 DEF ApplyFit
  <2>6. IsApply(apply)'
    BY <2>4 DEF IsApply
  <2> QED  BY <1>0, <2>2, <2>4, <2>5, <2>6 DEF ApplyFit, ApplyHolding, ApplyPlaces
<1>5. CASE ApplyFails \/ ApplyDone
  <2>1. /\ apc \in {"read", "observe", "item"} /\ apc' = "unlock" /\ apply' = apply /\ runs' = runs
    BY <1>5 DEF ApplyFails, ApplyDone, Still
  <2> QED  BY <1>0, <2>1 DEF ApplyFit, ApplyHolding, ApplyPlaces
<1>6. CASE ApplySkips
  <2>1. PICK p : apply' = [apply EXCEPT !.items = @ \ {p}]
    BY <1>6 DEF ApplySkips
  <2>2. apc = "item" /\ apc' = "item" /\ runs' = runs
    BY <1>6 DEF ApplySkips, Still
  <2>3. /\ IsApply(apply') /\ apply'.run = apply.run /\ apply'.pin = apply.pin
        /\ apply'.items \subseteq apply.items
    BY <1>0, <2>1 DEF ApplyFit, IsApply
  <2> QED  BY <1>0, <2>2, <2>3, ApplyAt DEF ApplyHolding, ApplyPlaces
<1>7. CASE ApplyRechecks
  <2>1. PICK p \in apply.items, inventory \in InspectProjections :
           /\ ~AmbiguousCandidate(inventory, p.session, None)
           /\ inventory.unverified = {}
           /\ ExactProjections(inventory, p.session) = {}
           /\ apply' = [apply EXCEPT !.items = @ \ {p}, !.item = p, !.before = WindowIDs(windows)]
    BY <1>7 DEF ApplyRechecks
  <2>2. apc = "item" /\ apc' = "launch" /\ runs' = runs
    BY <1>7 DEF ApplyRechecks, Still
  <2>3. /\ IsApply(apply') /\ apply'.run = apply.run /\ apply'.pin = apply.pin
        /\ apply'.items \subseteq apply.items /\ apply'.item = p
    BY <1>0, <2>1 DEF ApplyFit, IsApply
  <2>4. \A t \in DOMAIN log : log[t].fate # "open"
    BY <1>0, <2>2, NoneOpen DEF ApplyHolding, ApplyPlaces
  <2>5. p.session # None
    BY <1>0 DEF ApplyFit
  <2>6. Clear(p.session)
    BY <1>0, <2>1, <2>4, <2>5, RecheckedClear
  <2>7. IsApply(apply)'
    BY <2>3 DEF IsApply
  <2>8. Clear(apply.item.session)'
    BY <1>0, <2>3, <2>6
  <2> QED  BY <1>0, <2>2, <2>3, <2>5, <2>7, <2>8 DEF ApplyFit, ApplyHolding, ApplyPlaces
<1>8. CASE ApplyUnlocks
  <2>1. apc = "unlock" /\ apc' = "off" /\ apply' = NoApply /\ runs' = runs
    BY <1>8 DEF ApplyUnlocks, Still
  <2> QED  BY <2>1, NoApplyFit
<1> QED  BY <1>1, <1>2, <1>3, <1>4, <1>5, <1>6, <1>7, <1>8 DEF ApplyQuiet

ApplyDoneWell ==
    /\ ApplyFit' /\ TallyFit' /\ RunsFit' /\ Waited' /\ OneProjectionEach'
    /\ BesideFollow /\ Right

LEMMA ApplyHolds ==
    ASSUME Held, apc \in ApplyHolding
    PROVE  lock = "apply" /\ fpc \notin Holding /\ spc \notin SaveHolding /\ apc # "off"
BY DEF Held, ApplyHolding

\* The account of follow's launches is none of apply's business.
LEMMA TallyBeside ==
    ASSUME IInv, Onward, UNCHANGED <<fpc, follow>>, runs'["follow"] = runs["follow"],
           \A t \in DOMAIN log' : log'[t].by = "follow" => t \in DOMAIN log
    PROVE  TallyFit'
BY TallyStays DEF IInv, FollowFit

LEMMA WaitedByApply ==
    ASSUME Waited, Onward, DOMAIN log' = DOMAIN log, UNCHANGED <<fpc, follow>>,
           apc = "wait" /\ apply.token \in DOMAIN log => log'[apply.token].fate # "open"
    PROVE  Waited'
BY DEF Waited, Onward

LEMMA ApplyQuietDone ==
    ASSUME IInv, ApplyQuiet
    PROVE  ApplyDoneWell
<1>1. UNCHANGED <<desktop, pin, temp, fpc, follow>>
  BY ApplyQuietStill DEF following
<1>2. Kept /\ DOMAIN log' = DOMAIN log /\ log' = log
  BY <1>1, StillKeeps DEF IInv, desktop
<1>3. /\ ApplyFit' /\ apc # "wait" /\ RunsFit' /\ runs'["follow"] = runs["follow"]
  <2>1. CASE ApplyStart
    <3>1. PICK n, active, known :
             /\ n = runs["apply"]
             /\ apply' = [NoApply EXCEPT !.run = n, !.active = active, !.known = known]
      BY <2>1 DEF ApplyStart
    <3>2. apc = "off" /\ apc' = "lock"
      BY <2>1 DEF ApplyStart
    <3>3. RunsFit' /\ n \in Nat /\ runs'["follow"] = runs["follow"]
      BY <2>1, <3>1, RunOnce DEF IInv, ApplyStart
    <3>4. IsApply(apply') /\ apply'.run = n /\ apply'.items = {} /\ apply'.pin = None
      BY <3>1 DEF NoApply, IsApply
    <3>5. IsApply(apply)'
      BY <3>4 DEF IsApply
    <3>6. ApplyFit'
      BY <3>2, <3>3, <3>4, <3>5 DEF ApplyFit, ApplyHolding
    <3> QED  BY <3>2, <3>3, <3>6
  <2>2. CASE ~ApplyStart
    BY <2>2, ApplyQuietOwn DEF ApplyOwn, IInv, RunsFit
  <2> QED  BY <2>1, <2>2
<1>4. Waited'
  BY <1>1, <1>2, <1>3, WaitedByApply DEF IInv, Kept
<1>5. TallyFit'
  BY <1>1, <1>2, <1>3, TallyBeside DEF Kept
<1>6. OneProjectionEach'
  BY <1>2, ProjectionStays DEF IInv, Kept
<1>7. BesideFollow
  BY <1>1, <1>2 DEF BesideFollow, Kept
<1>8. Right
  BY <1>2, RightStays DEF IInv
<1> QED  BY <1>3, <1>4, <1>5, <1>6, <1>7, <1>8 DEF ApplyDoneWell

\* What is the same for every launch that apply tries.
LEMMA ApplyTries ==
    ASSUME IInv, apc = "launch", NEW fate,
           Starts("apply", apply.run, apply.item.session, fate), UNCHANGED <<fpc, follow, runs>>
    PROVE  /\ Kept /\ Started("apply", apply.run, apply.item.session, fate)
           /\ OneProjectionEach' /\ BesideFollow /\ Right /\ TallyFit'
<1>1. /\ Desk /\ Held /\ ApplyFit /\ OneProjectionEach
  BY DEF IInv
<1>2. lock = "apply" /\ fpc \notin Holding
  BY <1>1, ApplyHolds DEF ApplyHolding, ApplyPlaces
<1>3. PICK run, x : run = apply.run /\ x = apply.item.session
  OBVIOUS
<1>4. run \in Nat /\ x # None /\ Clear(x)
  BY <1>1, <1>3 DEF ApplyFit
<1>5. Kept /\ Started("apply", run, x, fate)
  <2>1. "apply" \in Owners /\ Starts("apply", run, x, fate)
    BY <1>3 DEF Owners
  <2> QED  BY <1>1, <1>4, <2>1, StartsKeeps
<1>6. OneProjectionEach'
  BY <1>1, <1>4, <1>5, ProjectionStarts DEF Kept
<1>7. BesideFollow
  <2>1. \A t \in DOMAIN log : log'[t] = log[t]
    BY <1>5 DEF Started
  <2> QED  BY <1>2, <1>5, <2>1 DEF BesideFollow, Kept
<1>8. Right
  BY <1>2, <1>5 DEF Right, Kept, Unmoved, Started
<1>9. TallyFit'
  <2>1. \A t \in DOMAIN log' : log'[t].by = "follow" => t \in DOMAIN log
    BY <1>5 DEF Started
  <2> QED  BY <1>5, <2>1, TallyBeside DEF Kept
<1> QED  BY <1>3, <1>5, <1>6, <1>7, <1>8, <1>9

LEMMA ApplyLaunchesDone ==
    ASSUME IInv, ApplyLaunches
    PROVE  ApplyDoneWell
<1>1. /\ Desk /\ ApplyFit /\ Waited /\ IsLog(log)
  BY DEF IInv, Desk
<1>2. PICK n : n = Len(log) + 1
  OBVIOUS
<1>3. /\ apc = "launch" /\ apc' = "wait" /\ UNCHANGED <<fpc, follow, runs, pin>>
      /\ apply' = [apply EXCEPT !.token = n]
  BY <1>2 DEF ApplyLaunches, following, store
<1>4. Starts("apply", apply.run, apply.item.session, "open")
  BY DEF ApplyLaunches, Starts, Launch
<1>5. /\ Kept /\ Started("apply", apply.run, apply.item.session, "open")
      /\ OneProjectionEach' /\ BesideFollow /\ Right /\ TallyFit'
  BY <1>3, <1>4, ApplyTries
<1>6. /\ IsApply(apply') /\ apply'.run = apply.run /\ apply'.pin = apply.pin
      /\ apply'.items = apply.items /\ apply'.item = apply.item /\ apply'.token = n
  BY <1>1, <1>3 DEF ApplyFit, IsApply
<1>7. ApplyFit'
  <2>1. IsApply(apply)' /\ ReadPin' = ReadPin
    BY <1>3, <1>6 DEF IsApply, ReadPin, ValidPin
  <2>2. Launched(apply.token, "apply", apply.run, apply.item.session, "open")'
    BY <1>2, <1>5, <1>6 DEF Launched, Started
  <2> QED  BY <1>1, <1>3, <1>6, <2>1, <2>2 DEF ApplyFit, ApplyHolding, ApplyPlaces
<1>8. Waited'
  <2>1. \A t \in DOMAIN log' : t = n \/ (t \in DOMAIN log /\ log'[t] = log[t])
    BY <1>2, <1>5 DEF Started
  <2> QED  BY <1>1, <1>3, <1>6, <2>1 DEF Waited
<1> QED  BY <1>3, <1>5, <1>7, <1>8 DEF ApplyDoneWell, IInv, RunsFit

LEMMA ApplyLaunchFailsDone ==
    ASSUME IInv, ApplyLaunchFails
    PROVE  ApplyDoneWell
<1>1. /\ Desk /\ ApplyFit /\ Waited
  BY DEF IInv
<1>2. /\ apc = "launch" /\ apc' = "item" /\ UNCHANGED <<fpc, follow, runs, pin>> /\ apply' = NextItem
  BY DEF ApplyLaunchFails, following, store
<1>3. Starts("apply", apply.run, apply.item.session, "abandoned")
  BY DEF ApplyLaunchFails, Starts, LaunchFails
<1>4. /\ Kept /\ Started("apply", apply.run, apply.item.session, "abandoned")
      /\ OneProjectionEach' /\ BesideFollow /\ Right /\ TallyFit'
  BY <1>2, <1>3, ApplyTries
<1>5. ApplyFit'
  BY <1>1, <1>2, NextItemFields, ApplyAt DEF ApplyFit, ApplyHolding, ApplyPlaces
<1>6. Waited'
  <2>1. \A t \in DOMAIN log' : (t \in DOMAIN log /\ log'[t] = log[t]) \/ log'[t].fate = "abandoned"
    BY <1>4 DEF Started
  <2> QED  BY <1>1, <1>2, <2>1 DEF Waited
<1> QED  BY <1>2, <1>4, <1>5, <1>6 DEF ApplyDoneWell, IInv, RunsFit

\* What is the same whenever apply's wait for a window is over.
LEMMA ApplySettles ==
    ASSUME IInv, apc = "wait", NEW fate, Settles(apply.token, fate), UNCHANGED <<fpc, follow, runs>>
    PROVE  /\ Kept /\ DOMAIN log' = DOMAIN log /\ OneProjectionEach' /\ BesideFollow /\ Right
           /\ Waited' /\ TallyFit'
           /\ fate # "open" /\ log'[apply.token].fate = fate
<1>1. /\ Desk /\ Held /\ ApplyFit /\ Waited /\ OneProjectionEach
  BY DEF IInv
<1>2. fpc \notin Holding
  BY <1>1, ApplyHolds DEF ApplyHolding, ApplyPlaces
<1>3. PICK t : t = apply.token
  OBVIOUS
<1>4. Kept /\ Assessed(t, fate, log[t].copied)
  BY <1>1, <1>3, SettlesKeeps
<1>5. DOMAIN log' = DOMAIN log /\ Len(log') = Len(log) /\ log'[t].fate = fate /\ fate # "open"
  BY <1>3, <1>4 DEF Assessed, Settles
<1>6. Launched(t, "apply", apply.run, apply.item.session, "open")
  BY <1>1, <1>3 DEF ApplyFit
<1>7. OneProjectionEach'
  BY <1>1, <1>4, <1>5, ProjectionStays DEF Kept
<1>8. BesideFollow
  <2>1. \A u \in DOMAIN log : log[u].by = "follow" => log'[u] = log[u]
    BY <1>4, <1>6 DEF Assessed, Launched
  <2> QED  BY <1>2, <1>4, <1>5, <2>1 DEF BesideFollow, Kept
<1>9. Right
  BY <1>1, <1>4, <1>5, RightStays
<1>10. Waited'
  BY <1>1, <1>3, <1>4, <1>5, WaitedByApply DEF Kept
<1>11. TallyFit'
  BY <1>4, <1>5, TallyBeside DEF Kept
<1> QED  BY <1>3, <1>4, <1>5, <1>7, <1>8, <1>9, <1>10, <1>11

LEMMA ApplyConfirmsDone ==
    ASSUME IInv, ApplyConfirms
    PROVE  ApplyDoneWell
<1>1. /\ Desk /\ ApplyFit /\ Waited
  BY DEF IInv
<1>2. PICK t, x : t = apply.token /\ x = apply.item.session
  OBVIOUS
<1>3. PICK inventory \in InspectProjections :
         LET matches == NewMatches(inventory, x, t, apply.before)
         IN /\ Cardinality(matches) = 1
            /\ apply' = [apply EXCEPT !.match = CHOOSE i \in WindowIDs(matches) : TRUE]
  BY <1>2 DEF ApplyConfirms
<1>4. PICK id : id = CHOOSE i \in WindowIDs(NewMatches(inventory, x, t, apply.before)) : TRUE
  OBVIOUS
<1>5. apply' = [apply EXCEPT !.match = id]
  BY <1>3, <1>4
<1>6. /\ apc = "wait" /\ apc' = "place" /\ UNCHANGED <<fpc, follow, runs, pin>>
      /\ Resolve(t, "confirmed") /\ UNCHANGED <<windows, launches, shape, left>>
  BY <1>2 DEF ApplyConfirms, store, following
<1>7. Launched(t, "apply", apply.run, x, "open")
  BY <1>1, <1>2, <1>6 DEF ApplyFit
<1>8. /\ Shows(id, t) /\ t \notin launches
      /\ log[t].copied \/ \A w \in windows : w.token = t => w.up
  BY <1>1, <1>3, <1>4, <1>7, MatchShows DEF Launched
<1>9. Settles(apply.token, "confirmed")
  BY <1>2, <1>6, <1>7, <1>8 DEF Settles, Launched
<1>10. /\ Kept /\ DOMAIN log' = DOMAIN log /\ OneProjectionEach' /\ BesideFollow /\ Right
       /\ Waited' /\ TallyFit' /\ log'[apply.token].fate = "confirmed"
  BY <1>6, <1>9, ApplySettles
<1>11. /\ IsApply(apply') /\ apply'.run = apply.run /\ apply'.pin = apply.pin
       /\ apply'.items = apply.items /\ apply'.item = apply.item /\ apply'.token = t
       /\ apply'.match = id
  BY <1>1, <1>2, <1>5 DEF ApplyFit, IsApply
<1>12. ApplyFit'
  <2>1. IsApply(apply)' /\ ReadPin' = ReadPin
    BY <1>6, <1>11 DEF IsApply, ReadPin, ValidPin
  <2>2. Launched(t, "apply", apply.run, x, "confirmed")'
    BY <1>2, <1>7, <1>10, <1>11 DEF Launched, Kept, Onward
  <2>3. Shows(id, t)'
    BY <1>8, <1>10, ShowsStays DEF Kept
  <2>4. Launched(apply.token, "apply", apply.run, apply.item.session, "confirmed")'
    BY <1>2, <1>11, <2>2
  <2>5. Shows(apply.match, apply.token)'
    BY <1>11, <2>3
  <2> QED  BY <1>1, <1>6, <1>11, <2>1, <2>4, <2>5 DEF ApplyFit, ApplyHolding, ApplyPlaces
<1> QED  BY <1>6, <1>10, <1>12 DEF ApplyDoneWell, IInv, RunsFit

LEMMA ApplyAbandonsDone ==
    ASSUME IInv, ApplyAbandons
    PROVE  ApplyDoneWell
<1>1. /\ Desk /\ ApplyFit /\ Waited
  BY DEF IInv
<1>2. /\ apc = "wait" /\ apc' = "item" /\ UNCHANGED <<fpc, follow, runs, pin>> /\ apply' = NextItem
      /\ Resolve(apply.token, "abandoned") /\ UNCHANGED <<windows, launches, shape, left>>
  BY DEF ApplyAbandons, store, following
<1>3. Launched(apply.token, "apply", apply.run, apply.item.session, "open")
  BY <1>1, <1>2 DEF ApplyFit
<1>4. Settles(apply.token, "abandoned")
  BY <1>2, <1>3 DEF Settles, Launched
<1>5. /\ Kept /\ DOMAIN log' = DOMAIN log /\ OneProjectionEach' /\ BesideFollow /\ Right
      /\ Waited' /\ TallyFit'
  BY <1>2, <1>4, ApplySettles
<1>6. ApplyFit'
  BY <1>1, <1>2, NextItemFields, ApplyAt DEF ApplyFit, ApplyHolding, ApplyPlaces
<1> QED  BY <1>2, <1>5, <1>6 DEF ApplyDoneWell, IInv, RunsFit

LEMMA ApplyDiesDone ==
    ASSUME IInv, ApplyDies
    PROVE  ApplyDoneWell
<1>1. /\ Desk /\ Held /\ ApplyFit /\ Waited
  BY DEF IInv
<1>2. /\ apc \in ApplyHolding /\ apc' = "off" /\ apply' = NoApply
      /\ UNCHANGED <<fpc, follow, runs, pin>> /\ UNCHANGED <<windows, launches, shape, left>>
  BY DEF ApplyDies, Release, following
<1>3. /\ Kept /\ DOMAIN log' = DOMAIN log /\ OneProjectionEach' /\ BesideFollow /\ Right
      /\ Waited' /\ TallyFit'
  <2>1. CASE apc = "wait"
    <3>1. Launched(apply.token, "apply", apply.run, apply.item.session, "open")
      BY <1>1, <2>1 DEF ApplyFit
    <3>2. Settles(apply.token, "abandoned")
      BY <1>2, <2>1, <3>1 DEF Settles, Launched, ApplyDies
    <3> QED  BY <1>2, <2>1, <3>2, ApplySettles
  <2>2. CASE apc # "wait"
    <3>1. log' = log /\ UNCHANGED desktop
      BY <1>2, <2>2 DEF ApplyDies, desktop
    <3>2. Kept
      BY <1>1, <3>1, StillKeeps
    <3>3. OneProjectionEach'
      BY <3>1, <3>2, ProjectionStays DEF IInv, Kept
    <3>4. BesideFollow
      BY <1>1, <1>2, <3>1, <3>2 DEF BesideFollow, Kept
    <3>5. Right
      BY <1>1, <3>1, <3>2, RightStays
    <3>6. Waited'
      BY <1>1, <1>2, <2>2, <3>1, <3>2, WaitedByApply DEF Kept
    <3>7. TallyFit'
      BY <1>2, <3>1, <3>2, TallyBeside DEF Kept
    <3> QED  BY <3>1, <3>2, <3>3, <3>4, <3>5, <3>6, <3>7
  <2> QED  BY <2>1, <2>2
<1>4. ApplyFit'
  BY <1>2, NoApplyFit
<1> QED  BY <1>2, <1>3, <1>4 DEF ApplyDoneWell, IInv, RunsFit

LEMMA ApplyPlacesDone ==
    ASSUME IInv, ApplyPlaces_
    PROVE  ApplyDoneWell
<1>1. /\ Desk /\ Held /\ ApplyFit /\ Waited
  BY DEF IInv
<1>2. /\ apc = "place" /\ apc' = "item" /\ UNCHANGED <<fpc, follow, runs, pin>> /\ apply' = NextItem
      /\ UNCHANGED <<launches, shape, log, left>>
  BY DEF ApplyPlaces_, store, following
<1>3. PICK id, t, target : id = apply.match /\ t = apply.token /\ target = apply.item.target
  OBVIOUS
<1>4. /\ Desk' /\ Onward
      /\ \A w \in windows, x \in windows' : w.id = x.id /\ w.place # x.place => w.id = id
  <2>1. CASE UNCHANGED windows
    <3>1. Kept
      BY <1>1, <1>2, <2>1, StillKeeps DEF desktop
    <3> QED  BY <3>1 DEF Kept, Unmoved
  <2>2. CASE MoveToWorkspace(id, target)
    <3>1. Moves(id, target)
      BY <1>2, <2>2 DEF Moves
    <3> QED  BY <1>1, <3>1, MovesKeeps
  <2> QED  BY <1>3, <2>1, <2>2 DEF ApplyPlaces_
<1>5. /\ Launched(t, "apply", apply.run, apply.item.session, "confirmed") /\ Shows(id, t)
  BY <1>1, <1>2, <1>3 DEF ApplyFit
<1>6. lock = "apply" /\ fpc \notin Holding
  BY <1>1, <1>2, ApplyHolds DEF ApplyHolding, ApplyPlaces
<1>7. OneProjectionEach'
  BY <1>2, <1>4, ProjectionStays DEF IInv
<1>8. BesideFollow
  BY <1>2, <1>4 DEF BesideFollow
<1>9. Right
  <2>1. ASSUME NEW w \in windows, NEW x \in windows', w.id = x.id, w.place # x.place
        PROVE  w.token # None /\ log[w.token].by = "apply" /\ log[w.token].fate = "confirmed"
    <3>1. w.token = t
      BY <1>4, <1>5, <2>1 DEF Shows
    <3>2. t # None
      BY <1>1, <1>5, LogIsList, DesktopAssumption DEF Launched, Desk
    <3> QED  BY <1>5, <3>1, <3>2 DEF Launched
  <2>2. ~(Len(log') > Len(log))
    BY <1>1, <1>2, LogIsList DEF Desk
  <2> QED  BY <1>6, <2>1, <2>2 DEF Right, Owners
<1>10. Waited'
  BY <1>1, <1>2, <1>4, WaitedByApply
<1>11. ApplyFit'
  BY <1>1, <1>2, NextItemFields, ApplyAt DEF ApplyFit, ApplyHolding, ApplyPlaces
<1>12. TallyFit'
  BY <1>2, <1>4, TallyBeside
<1> QED  BY <1>2, <1>7, <1>8, <1>9, <1>10, <1>11, <1>12 DEF ApplyDoneWell, IInv, RunsFit

LEMMA ApplyStepDone ==
    ASSUME IInv, ApplyStep
    PROVE  IInv' /\ Right
<1>1. ApplyDoneWell
  BY ApplyQuietDone, ApplyLaunchesDone, ApplyLaunchFailsDone, ApplyConfirmsDone,
     ApplyAbandonsDone, ApplyPlacesDone, ApplyDiesDone DEF ApplyStep, ApplyQuiet
<1>2. Held'
  BY HeldStays DEF IInv, Next
<1>3. UNCHANGED <<pin, temp, spc>>
  BY ApplyQuietStill DEF ApplyStep, ApplyQuiet, ApplyLaunches, ApplyLaunchFails,
     ApplyConfirms, ApplyAbandons, ApplyPlaces_, ApplyDies, Release, store
<1>4. SaveFit'
  BY <1>3 DEF SaveFit, IInv
<1>5. FollowFit'
  BY <1>1, FollowFitStays DEF IInv, ApplyDoneWell
<1>6. RoomFit'
  BY <1>1 DEF IInv, ApplyDoneWell, BesideFollow, RoomFit
<1> QED  BY <1>1, <1>2, <1>4, <1>5, <1>6 DEF IInv, ApplyDoneWell, BesideFollow

-----------------------------------------------------------------------------
(* Steps of the desktop and of save.                                       *)

\* Neither command moves, and no launch is tried or settled.
Bystanders ==
    /\ Kept /\ UNCHANGED <<fpc, follow, apc, apply>> /\ DOMAIN log' = DOMAIN log /\ Len(log') = Len(log)
    /\ \A t \in DOMAIN log : log'[t].fate = log[t].fate
    /\ runs'["follow"] = runs["follow"]
    /\ apc \in ApplyHolding => pin' = pin

LEMMA BystandersKeep ==
    ASSUME IInv, Bystanders
    PROVE  /\ Desk' /\ FollowFit' /\ ApplyFit' /\ Waited' /\ RoomFit' /\ TallyFit'
           /\ OneProjectionEach' /\ Right
<1>1. Desk' /\ Onward
  BY DEF Bystanders, Kept
<1>2. FollowFit'
  BY <1>1, FollowFitStays DEF IInv, Bystanders, BesideFollow
<1>3. ApplyFit'
  BY <1>1, ApplyFitStays DEF IInv, Bystanders, BesideApply
<1>4. Waited'
  BY DEF IInv, Bystanders, Waited
<1>5. RoomFit'
  BY DEF IInv, Bystanders, RoomFit
<1>6. TallyFit'
  BY <1>1, TallyBeside DEF Bystanders
<1>7. OneProjectionEach'
  BY <1>1, ProjectionStays DEF IInv, Bystanders
<1>8. Right
  BY RightStays DEF IInv, Bystanders
<1> QED  BY <1>1, <1>2, <1>3, <1>4, <1>5, <1>6, <1>7, <1>8

LEMMA DesktopStepDone ==
    ASSUME IInv, DesktopStep, UNCHANGED <<runs, store, following, pinning>>
    PROVE  IInv' /\ Right
<1>1. Bystanders
  BY DesktopStepKeeps DEF IInv, Bystanders, store, following, pinning
<1>2. Held'
  BY HeldStays DEF IInv, Next
<1>3. SaveFit' /\ RunsFit'
  BY DEF IInv, SaveFit, RunsFit, store, pinning
<1> QED  BY <1>1, <1>2, <1>3, BystandersKeep DEF IInv

\* What save makes of the pin file: never half of it is there under its name.
LEMMA SaveStepFits ==
    ASSUME IInv, SaveStep
    PROVE  /\ SaveFit' /\ RunsFit' /\ runs'["follow"] = runs["follow"]
           /\ UNCHANGED <<desktop, fpc, follow, apc, apply>>
           /\ apc \in ApplyHolding => pin' = pin
<1>0. SaveFit /\ RunsFit /\ Held
  BY DEF IInv
<1>1. CASE SaveStart
  <2>1. RunsFit' /\ runs'["follow"] = runs["follow"]
    BY <1>0, <1>1, RunOnce DEF SaveStart
  <2> QED  BY <1>0, <1>1, <2>1 DEF SaveStart, SaveFit, Calm, store, following
<1>2. CASE SaveListsWindows \/ SaveListsWorkspaces \/ SaveBuilds \/ SaveFails
  BY <1>0, <1>2 DEF SaveListsWindows, SaveListsWorkspaces, SaveBuilds, SaveFails, SaveFit, RunsFit,
                    Calm, store, following
<1>3. CASE SaveLocks
  BY <1>0, <1>3 DEF SaveLocks, Acquire, SaveFit, RunsFit, Calm, store, following
<1>4. CASE SaveWrites
  <2>1. File(save.pin) # Torn
    BY DEF File, Torn
  <2> QED  BY <1>0, <1>4, <2>1 DEF SaveWrites, WriteTemp, SaveFit, RunsFit, Calm, following
<1>5. CASE SaveRenames
  <2>1. spc = "rename" /\ pin' = temp /\ spc' = "unlock"
    BY <1>5 DEF SaveRenames, RenameTemp
  <2>2. lock = "save" /\ apc \notin ApplyHolding
    BY <1>0, <2>1 DEF Held, SaveHolding
  <2> QED  BY <1>0, <1>5, <2>1, <2>2 DEF SaveRenames, SaveFit, RunsFit, Calm, following
<1>6. CASE SaveGivesUp
  BY <1>0, <1>6 DEF SaveGivesUp, DropTemp, SaveFit, RunsFit, Calm, following
<1>7. CASE SaveUnlocks \/ SaveDies
  BY <1>0, <1>7 DEF SaveUnlocks, SaveDies, Release, SaveFit, RunsFit, Calm, following
<1> QED  BY <1>1, <1>2, <1>3, <1>4, <1>5, <1>6, <1>7 DEF SaveStep

LEMMA SaveStepDone ==
    ASSUME IInv, SaveStep
    PROVE  IInv' /\ Right
<1>1. SaveFit' /\ RunsFit' /\ UNCHANGED <<desktop, fpc, follow, apc, apply>>
  BY SaveStepFits
<1>2. Kept /\ DOMAIN log' = DOMAIN log /\ log' = log
  BY <1>1, StillKeeps DEF IInv, desktop
<1>3. Bystanders
  BY <1>1, <1>2, SaveStepFits DEF Bystanders
<1>4. Held'
  BY HeldStays DEF IInv, Next
<1> QED  BY <1>1, <1>3, <1>4, BystandersKeep DEF IInv

LEMMA StutterDone ==
    ASSUME IInv, UNCHANGED vars
    PROVE  IInv' /\ Right
<1>1. UNCHANGED <<desktop, runs, pin, temp, fpc, follow, apc, apply, spc>>
  BY DEF vars, store, following, pinning
<1>2. Kept /\ DOMAIN log' = DOMAIN log /\ log' = log
  BY <1>1, StillKeeps DEF IInv, desktop
<1>3. Bystanders
  BY <1>1, <1>2 DEF Bystanders
<1>4. Held'
  BY HeldStays DEF IInv
<1>5. SaveFit' /\ RunsFit'
  BY <1>1 DEF IInv, SaveFit, RunsFit
<1> QED  BY <1>3, <1>4, <1>5, BystandersKeep DEF IInv

-----------------------------------------------------------------------------
(* The first state.                                                        *)

LEMMA InitFits == Init => IInv
<1> SUFFICES ASSUME Init
             PROVE  IInv
  OBVIOUS
<1>1. /\ windows = {} /\ launches = {} /\ log = <<>> /\ left = UserSteps /\ runs \in Evenings
      /\ shape \in Shapes /\ fpc = "off" /\ follow = NoFollow /\ apc = "off" /\ apply = NoApply
      /\ spc = "off" /\ lock = None
  BY DEF Init, InitDesktop, InitStore, InitFollow, InitPinning
<1>2. IsLog(log) /\ DOMAIN log = {}
  BY <1>1 DEF IsLog
<1>3. Desk
  BY <1>1, <1>2, DesktopAssumption DEF Desk, WindowsFit
<1>4. Held
  BY <1>1, PinAssumption DEF Held, FollowPlaces, Holding, ApplyPlaces, ApplyHolding, SavePlaces, SaveHolding
<1>5. RunsFit
  BY <1>1, DesktopAssumption DEF RunsFit
<1>6. SaveFit
  BY <1>1 DEF SaveFit, Init, InitStore, File, Torn
<1>7. /\ IsFollow(follow) /\ follow.plans = {} /\ follow.elig = {} /\ follow.attempts = 0 /\ follow.batch = 0
  BY <1>1 DEF NoFollow, IsFollow
<1>8. FollowFit
  BY <1>1, <1>7, NoneToOpen DEF FollowFit
<1>9. ApplyFit
  BY <1>1 DEF ApplyFit, NoApply, IsApply, ApplyHolding
<1>10. RoomFit
  BY <1>1, <1>7, NoneToOpen, FollowAssumption DEF RoomFit
<1>11. Waited /\ TallyFit /\ OneProjectionEach
  BY <1>1, <1>2 DEF Waited, TallyFit, OneProjectionEach
<1> QED  BY <1>3, <1>4, <1>5, <1>6, <1>8, <1>9, <1>10, <1>11 DEF IInv

LEMMA NextDone ==
    ASSUME IInv, [Next]_vars
    PROVE  IInv' /\ Right
BY DesktopStepDone, FollowStepDone, ApplyStepDone, SaveStepDone, StutterDone DEF Next

-----------------------------------------------------------------------------
(* The theorems.                                                           *)

\* The inductive invariant: the lock is with who is between his locking and
\* his unlocking, the desktop's record is sound, each command's local state
\* fits it, and the properties below.
THEOREM DesktopInvariant == Spec => []IInv
<1>1. IInv /\ [Next]_vars => IInv'
  BY NextDone
<1> QED  BY <1>1, InitFits, PTL DEF Spec

\* Whatever follow, apply and save do beside each other and beside a user who
\* opens, copies and closes windows: a session has two living launches only
\* if one of its launches ended in uncertainty (FollowOnce and ApplyPinned give it
\* up after a timeout) or the user copied its window.
THEOREM OneProjectionEachHolds == Spec => []OneProjectionEach
<1>1. IInv => OneProjectionEach
  BY DEF IInv
<1> QED  BY <1>1, DesktopInvariant, PTL

\* A launch is tried, and a window moved, only by the process that holds the
\* pin's lock.
THEOREM EffectsUnderLockHolds == Spec => EffectsUnderLock
<1>1. IInv /\ [Next]_vars =>
         [/\ Len(log') > Len(log) => lock = log'[Len(log')].by
          /\ (\E w \in windows, x \in windows' : w.id = x.id /\ w.place # x.place) => lock \in Owners]_vars
  BY NextDone DEF Right
<1> QED  BY <1>1, DesktopInvariant, PTL DEF Spec, EffectsUnderLock

\* follow and apply move nothing but the window of their own confirmed launch,
\* and what follow moves lands in the frozen destination, or the user had
\* rearranged the workspaces since CurrentTarget gave the selector.
THEOREM OnlyOwnWindowsMovedHolds == Spec => OnlyOwnWindowsMoved
<1>1. IInv /\ [Next]_vars =>
         [\A w \in windows, x \in windows' : w.id = x.id /\ w.place # x.place =>
             /\ w.token # None
             /\ log[w.token].by = lock /\ log[w.token].fate = "confirmed"
             /\ lock = "follow" => x.place = follow.dest \/ shape # follow.seen]_vars
  BY NextDone DEF Right
<1> QED  BY <1>1, DesktopInvariant, PTL DEF Spec, OnlyOwnWindowsMoved

\* --max-total and --max-per-poll bound the launches that a run of follow
\* tries, failed and abandoned ones included.
THEOREM LaunchesBoundedHolds == Spec => []LaunchesBounded
<1>1. ASSUME IInv
      PROVE  LaunchesBounded
  <2>1. /\ follow.batch \in Nat /\ Cardinality(follow.plans) \in Nat /\ MaxPerPoll \in Nat
        /\ follow.batch + Cardinality(follow.plans) <= MaxPerPoll
    BY <1>1, FS_CardinalityType, FollowAssumption DEF IInv, RoomFit, FollowFit, IsFollow, Planned
  <2>2. follow.batch <= MaxPerPoll
    BY <2>1
  <2> QED  BY <1>1, <2>2 DEF LaunchesBounded, IInv, TallyFit, Of
<1> QED  BY <1>1, DesktopInvariant, PTL

\* The rename in Write and the shared lock: no reader meets half a pin, and
\* the pin that apply works from stays the one in the file.
THEOREM PinWholeAndHeldHolds == Spec => []PinWholeAndHeld
<1>1. IInv => PinWholeAndHeld
  BY DEF IInv, PinWholeAndHeld, SaveFit, ApplyFit
<1> QED  BY <1>1, DesktopInvariant, PTL

=============================================================================
