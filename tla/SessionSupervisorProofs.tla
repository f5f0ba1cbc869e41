------------------------ MODULE SessionSupervisorProofs ------------------------
(***************************************************************************)
(* Proofs about the event loop of a projection helper, for every number    *)
(* of attempts, every queue and every number of openings of its input      *)
(* gate: what its child may receive, when its kernel slot is held, and     *)
(* that it implements the protocol of ProjectionHelper.  The closures and  *)
(* cases of the loop are operators from a record to a record, so the       *)
(* argument is one lemma per operator, about the record and, where other   *)
(* processes see it, about its view.                                       *)
(*                                                                         *)
(* The last part is about a mirrored terminal without a coordinator.  With *)
(* its control it is one of the loops that SessionSupervisor specifies, so *)
(* all that is shown of those holds of it; and whatever is late, repeated  *)
(* or dropped, its child is the attachment that the control has granted.   *)
(***************************************************************************)
EXTENDS ManualControl, TLAPS

-----------------------------------------------------------------------------
(* Types, and the invariant.                                               *)

Reports == [attempt : Nonces, event : {"ready", "lost"}]

Calls == [attempt : Nonces, event : {None, "ready", "lost"},
          state : {"ready", "connecting", "offline"}, retry : BOOLEAN]

Helpers ==
    [alive : BOOLEAN, attempt : Nonces, grant : Nonces \cup {None},
     child : Children \cup {None}, proved : BOOLEAN, stopping : BOOLEAN, slot : BOOLEAN,
     gate : Nat, next : Nat, reports : Seq(Reports), call : Calls \cup {None},
     retry : BOOLEAN, polling : BOOLEAN]

\* A packet that proves the attachment was decoded by a decoder that knows.
Proves(packet) == packet # <<>> /\ packet[1] = "ready"

Fits(child) == \A i \in DOMAIN child.queue : Proves(child.queue[i]) => child.ready

\* A lost attempt is the last one reported, and is reported once it has no child.
LostLast(reports) == Len(reports) > 0 /\ reports[Len(reports)].event = "lost"

NoneLost(reports) == \A i \in 1..Len(reports) : reports[i].event # "lost"

Ordered(reports) == \A i \in 1..Len(reports) : reports[i].event = "lost" => i = Len(reports)

\* What holds of the loop by itself.
Own(x) ==
    /\ x \in Helpers
    /\ x.child # None => /\ x.child.attempt = x.attempt /\ x.grant = x.attempt
                         /\ Fits(x.child) /\ NoneLost(x.reports)
    /\ x.proved => x.child # None /\ ~x.stopping /\ x.child.ready
    /\ x.gate # 0 => x.proved
    /\ Ordered(x.reports)

WasOpened(x, A) == \E o \in A : o.attempt = x.attempt

\* What holds of it and the openings it has announced.
Public(x, A) ==
    /\ \A o \in A : o.attempt \in Nonces /\ o.attempt <= x.attempt
    /\ x.gate # 0 => Origin(x) \in A
    /\ x.child # None /\ ~WasOpened(x, A) => x.slot
    /\ x.child # None /\ ~x.stopping /\ WasOpened(x, A) => x.gate # 0
    /\ x.child = None /\ WasOpened(x, A) => LostLast(x.reports)

Good(x, A) == Own(x) /\ Public(x, A)

\* What the other processes see of x when A has been announced.
Seen(x, A) ==
    [alive |-> x.alive, attempt |-> x.attempt, grant |-> x.grant,
     child |-> x.child # None, gate |-> x.gate # 0, opened |-> WasOpened(x, A),
     reports |-> x.reports, call |-> x.call]

-----------------------------------------------------------------------------
(* Closures that leave the attachment alone.                               *)

\* y differs from x in calls and polling only.
Same(y, x) ==
    /\ y.alive = x.alive /\ y.attempt = x.attempt /\ y.grant = x.grant
    /\ y.child = x.child /\ y.proved = x.proved /\ y.stopping = x.stopping
    /\ y.slot = x.slot /\ y.gate = x.gate /\ y.next = x.next /\ y.reports = x.reports

LEMMA SameIsGood ==
    ASSUME NEW x, NEW y \in Helpers, NEW A, Good(x, A), Same(y, x)
    PROVE  Good(y, A) /\ WasOpened(y, A) = WasOpened(x, A)
<1>1. WasOpened(y, A) <=> WasOpened(x, A)
  BY DEF WasOpened, Same
<1>2. Origin(y) = Origin(x)
  BY DEF Origin, Same
<1>3. Own(y)
  BY DEF Good, Own, Same
<1>4. Public(y, A)
  BY <1>1, <1>2 DEF Good, Public, Same
<1> QED  BY <1>1, <1>3, <1>4 DEF Good, WasOpened, Same

LEMMA SameIsSeen ==
    ASSUME NEW x, NEW y, NEW A, Same(y, x)
    PROVE  Seen(y, A) = [Seen(x, A) EXCEPT !.call = y.call]
<1>1. WasOpened(y, A) = WasOpened(x, A)
  BY DEF WasOpened, Same
<1> HIDE DEF WasOpened
<1> QED  BY <1>1 DEF Seen, Same

LEMMA PhaseIs == ASSUME NEW x PROVE Phase(x) \in {"ready", "connecting", "offline"}
BY DEF Phase

\* The control call of a helper, if it makes one now.
CallOf(x) ==
    LET report == IF x.reports = <<>> THEN [attempt |-> x.attempt, event |-> None]
                  ELSE Head(x.reports)
    IN [attempt |-> report.attempt, event |-> report.event,
        state |-> Phase(x), retry |-> x.retry]

LEMMA CallOfIsCall == ASSUME NEW x \in Helpers PROVE CallOf(x) \in Calls
<1>1. CASE x.reports = <<>>
  BY <1>1, PhaseIs DEF CallOf, Calls, Helpers
<1>2. CASE x.reports # <<>>
  <2>1. x.reports \in Seq(Reports)
    BY DEF Helpers
  <2>2. Head(x.reports) \in Reports
    BY <1>2, <2>1
  <2>3. CallOf(x) = [attempt |-> Head(x.reports).attempt, event |-> Head(x.reports).event,
                     state |-> Phase(x), retry |-> x.retry]
    BY <1>2 DEF CallOf
  <2> QED  BY <2>2, <2>3, PhaseIs DEF Calls, Helpers, Reports
<1> QED  BY <1>1, <1>2

LEMMA SendSame ==
    ASSUME NEW x \in Helpers
    PROVE  /\ Send(x) \in Helpers /\ Same(Send(x), x)
           /\ Send(x).call = IF x.call # None THEN x.call ELSE CallOf(x)
<1>1. CASE x.call # None
  BY <1>1 DEF Send, Same
<1>2. CASE x.call = None
  <2>1. Send(x) = [x EXCEPT !.call = CallOf(x), !.retry = FALSE]
    BY <1>2 DEF Send, CallOf
  <2>2. CallOf(x) \in Calls
    BY CallOfIsCall
  <2> QED  BY <1>2, <2>1, <2>2 DEF Helpers, Same
<1> QED  BY <1>1, <1>2

LEMMA SendSeen ==
    ASSUME NEW x \in Helpers, NEW A
    PROVE  Seen(Send(x), A) \in Protocol!Sends(Seen(x, A))
<1> DEFINE v == Seen(x, A)
<1>1. Seen(Send(x), A) = [v EXCEPT !.call = Send(x).call]
  BY SendSame, SameIsSeen
<1>2. CASE x.call # None
  <2>1. Seen(Send(x), A) = v
    BY <1>2 DEF Send
  <2> QED  BY <2>1 DEF Protocol!Sends
<1>3. CASE x.call = None
  <2>1. Protocol!Phase(v) = Phase(x)
    BY DEF Protocol!Phase, Phase, Seen
  <2>2. Protocol!Send(v, x.retry) = [v EXCEPT !.call = CallOf(x)]
    BY <1>3, <2>1 DEF Protocol!Send, CallOf, Seen
  <2>3. x.retry \in BOOLEAN
    BY DEF Helpers
  <2>4. Protocol!Send(v, x.retry) \in Protocol!Sends(v)
    BY <2>3 DEF Protocol!Sends
  <2> QED  BY <1>1, <1>3, <2>2, <2>4, SendSame
<1> QED  BY <1>2, <1>3

-----------------------------------------------------------------------------
(* Losing and opening.                                                     *)

LEMMA StopChildIs ==
    ASSUME NEW child \in Children \cup {None}
    PROVE  /\ StopChild(child) \in Children \cup {None}
           /\ StopChild(child) = None <=> child = None
           /\ child # None => /\ StopChild(child).attempt = child.attempt
                              /\ StopChild(child).ready = child.ready
                              /\ StopChild(child).queue = child.queue
<1>1. CASE child = None
  BY <1>1 DEF StopChild
<1>2. CASE child # None
  <2>1. StopChild(child) = [child EXCEPT !.killed = TRUE] /\ child \in Children
    BY <1>2 DEF StopChild
  <2>2. StopChild(child) \in Children
    BY <2>1 DEF Children
  <2> QED  BY <1>2, <2>1, <2>2, SupervisorConstants DEF Children
<1> QED  BY <1>1, <1>2

\* What Lose(x) is, whatever the gate's generation counter says.
IsLost(y, x) ==
    /\ y.alive = x.alive /\ y.attempt = x.attempt /\ y.grant = x.grant
    /\ y.child = StopChild(x.child) /\ ~y.proved /\ y.stopping
    /\ y.slot = x.slot /\ y.gate = 0 /\ y.reports = x.reports /\ y.call = x.call

LEMMA LoseIs ==
    ASSUME NEW x \in Helpers
    PROVE  Lose(x) \in Helpers /\ IsLost(Lose(x), x)
<1>1. StopChild(x.child) \in Children \cup {None}
  BY StopChildIs DEF Helpers
<1> QED  BY <1>1 DEF Lose, Helpers, IsLost

LEMMA LostIsGood ==
    ASSUME NEW x, NEW y \in Helpers, NEW A, Good(x, A), IsLost(y, x)
    PROVE  /\ Good(y, A)
           /\ Seen(y, A) = Protocol!Closed(Seen(x, A))
           /\ x.gate = 0 => Seen(y, A) = Seen(x, A)
<1>1. /\ y.child = None <=> x.child = None
      /\ x.child # None => /\ y.child.attempt = x.child.attempt
                           /\ y.child.ready = x.child.ready
                           /\ y.child.queue = x.child.queue
  BY StopChildIs DEF Good, Own, Helpers, IsLost
<1>2. WasOpened(y, A) = WasOpened(x, A)
  BY DEF WasOpened, IsLost
<1>3. Own(y)
  BY <1>1 DEF Good, Own, IsLost, Fits, Proves
<1> HIDE DEF WasOpened
<1>4. Public(y, A)
  BY <1>1, <1>2 DEF Good, Public, IsLost
<1>5. Seen(y, A) = Protocol!Closed(Seen(x, A))
  <2>1. (y.child # None) = (x.child # None) /\ (y.gate # 0) = FALSE
    BY <1>1 DEF IsLost
  <2>2. Seen(y, A) = [alive |-> x.alive, attempt |-> x.attempt, grant |-> x.grant,
                      child |-> x.child # None, gate |-> FALSE, opened |-> WasOpened(x, A),
                      reports |-> x.reports, call |-> x.call]
    BY <1>2, <2>1, Zenon DEF Seen, IsLost
  <2> DEFINE c == x.child # None
             g == x.gate # 0
             v == [alive |-> x.alive, attempt |-> x.attempt, grant |-> x.grant,
                   child |-> c, gate |-> g, opened |-> WasOpened(x, A),
                   reports |-> x.reports, call |-> x.call]
  <2>3. Seen(x, A) = v
    BY DEF Seen
  <2> HIDE DEF c, g
  <2>4. Protocol!Closed(v) = [v EXCEPT !.gate = FALSE]
    BY DEF Protocol!Closed
  <2> QED  BY <2>2, <2>3, <2>4 DEF c
<1>6. x.gate = 0 => Seen(y, A) = Seen(x, A)
  BY <1>1, <1>2 DEF Seen, IsLost
<1> QED  BY <1>3, <1>4, <1>5, <1>6 DEF Good

LEMMA LoseGood ==
    ASSUME NEW x, NEW A, Good(x, A)
    PROVE  /\ Good(Lose(x), A)
           /\ Seen(Lose(x), A) = Protocol!Closed(Seen(x, A))
           /\ x.gate = 0 => Seen(Lose(x), A) = Seen(x, A)
           /\ Lose(x).gate = 0 /\ Lose(x).stopping
BY LoseIs, LostIsGood DEF Good, Own, IsLost

\* A report that a child without a lost one is ready.
LEMMA ReportReady ==
    ASSUME NEW reports \in Seq(Reports), NoneLost(reports), NEW attempt \in Nonces
    PROVE  LET r == Append(reports, [attempt |-> attempt, event |-> "ready"])
           IN r \in Seq(Reports) /\ NoneLost(r) /\ Ordered(r)
<1> DEFINE e == [attempt |-> attempt, event |-> "ready"]
           r == Append(reports, e)
<1>1. e \in Reports /\ e.event # "lost"
  BY DEF Reports
<1> HIDE DEF e
<1>2. /\ r \in Seq(Reports) /\ Len(r) = Len(reports) + 1
      /\ \A i \in 1..Len(reports) : r[i] = reports[i]
      /\ r[Len(reports) + 1] = e
  BY <1>1
<1>3. NoneLost(r)
  BY <1>1, <1>2 DEF NoneLost
<1>4. Ordered(r)
  BY <1>3 DEF NoneLost, Ordered
<1> QED  BY <1>2, <1>3, <1>4 DEF e

\* A report of a loss, where none was reported before.
LEMMA ReportLost ==
    ASSUME NEW reports \in Seq(Reports), NoneLost(reports), NEW attempt \in Nonces
    PROVE  LET r == Append(reports, [attempt |-> attempt, event |-> "lost"])
           IN r \in Seq(Reports) /\ LostLast(r) /\ Ordered(r)
<1> DEFINE e == [attempt |-> attempt, event |-> "lost"]
           r == Append(reports, e)
<1>1. e \in Reports /\ e.event = "lost"
  BY DEF Reports
<1> HIDE DEF e
<1>2. /\ r \in Seq(Reports) /\ Len(r) = Len(reports) + 1 /\ Len(reports) \in Nat
      /\ \A i \in 1..Len(reports) : r[i] = reports[i]
      /\ r[Len(reports) + 1] = e
  BY <1>1
<1>3. LostLast(r)
  BY <1>1, <1>2 DEF LostLast
<1>4. Ordered(r)
  BY <1>2 DEF NoneLost, Ordered
<1> QED  BY <1>2, <1>3, <1>4 DEF e

\* The gate opens for a proved child that is still wanted: y, which the
\* opening announces.
LEMMA OpenedGood ==
    ASSUME NEW x, NEW A, Good(x, A), x.child # None, ~x.stopping, x.proved, x.gate = 0
    PROVE  LET o == [x EXCEPT !.next = x.next + 1, !.gate = x.next + 1]
               y == Report([o EXCEPT !.slot = FALSE], x.grant, "ready")
               B == A \cup {Origin(y)}
           IN /\ Good(y, B) /\ y.gate # 0
              /\ ~WasOpened(x, A)
              /\ Seen(y, B) = Protocol!Opened(Seen(x, A))
<1> DEFINE e == [attempt |-> x.attempt, event |-> "ready"]
           n == x.next + 1
           r == Append(x.reports, e)
           y == [x EXCEPT !.next = n, !.gate = n, !.slot = FALSE, !.reports = r]
           o == [x EXCEPT !.next = x.next + 1, !.gate = x.next + 1]
           z == Report([o EXCEPT !.slot = FALSE], x.grant, "ready")
           B == A \cup {Origin(y)}
<1>1. /\ x \in Helpers /\ x.grant = x.attempt /\ x.attempt \in Nonces
      /\ n \in Nat /\ n # 0
  BY DEF Good, Own, Helpers
<1>2. z = y
  BY <1>1 DEF Report, Helpers
<1>3. r \in Seq(Reports) /\ NoneLost(r) /\ Ordered(r)
  BY <1>1, ReportReady DEF Good, Own, Helpers
<1> HIDE DEF e, n, r
<1>4. /\ y \in Helpers
      /\ y.alive = x.alive /\ y.attempt = x.attempt /\ y.grant = x.attempt
      /\ y.child = x.child /\ y.proved = x.proved /\ y.stopping = x.stopping
      /\ y.slot = FALSE /\ y.gate = n /\ y.gate # 0
      /\ y.reports = r /\ y.call = x.call
  BY <1>1, <1>3 DEF Helpers
<1> HIDE DEF y
<1>5. ~WasOpened(x, A)
  BY DEF Good, Public
<1>6. Origin(y).attempt = y.attempt /\ Origin(y) \in B /\ WasOpened(y, B)
  <2>1. Origin(y).attempt = y.attempt
    BY <1>4 DEF Origin
  <2> QED  BY <2>1 DEF WasOpened
<1>7. Own(y)
  BY <1>3, <1>4 DEF Good, Own
<1>8. Public(y, B)
  <2>1. \A p \in B : p.attempt \in Nonces /\ p.attempt <= y.attempt
    BY <1>1, <1>4, <1>6 DEF Good, Public, Nonces
  <2> HIDE DEF B
  <2> QED  BY <1>4, <1>6, <2>1 DEF Public
<1>9. Seen(y, B) = Protocol!Opened(Seen(x, A))
  <2>1. /\ (y.child # None) = (x.child # None) /\ (y.gate # 0) = TRUE
        /\ WasOpened(y, B) = TRUE
    BY <1>4, <1>6
  <2>2. Seen(y, B) = [alive |-> x.alive, attempt |-> x.attempt, grant |-> x.grant,
                      child |-> x.child # None, gate |-> TRUE, opened |-> TRUE,
                      reports |-> r, call |-> x.call]
    BY <1>1, <1>4, <2>1, Zenon DEF Seen
  <2> DEFINE c == x.child # None
             g == x.gate # 0
             v == [alive |-> x.alive, attempt |-> x.attempt, grant |-> x.grant,
                   child |-> c, gate |-> g, opened |-> WasOpened(x, A),
                   reports |-> x.reports, call |-> x.call]
  <2>3. Seen(x, A) = v
    BY DEF Seen
  <2> HIDE DEF c, g, e, r
  <2>4. Protocol!Opened(v) = [v EXCEPT !.gate = TRUE, !.opened = TRUE, !.reports = r]
    BY DEF Protocol!Opened, Protocol!Report, r, e
  <2> QED  BY <2>2, <2>3, <2>4 DEF c
<1>10. Good(y, B) /\ y.gate # 0 /\ ~WasOpened(x, A) /\ Seen(y, B) = Protocol!Opened(Seen(x, A))
  BY <1>4, <1>5, <1>7, <1>8, <1>9 DEF Good
<1> QED  BY <1>2, <1>10, Zenon

\* y is x after a case that announces nothing.
Silent(y, x, A) == Good(y, A) /\ y.gate = x.gate /\ Seen(y, A) = Seen(x, A)

\* y is x after the gate was opened.
Opens(y, x, A) ==
    /\ x.gate = 0 /\ ~x.stopping /\ x.child # None /\ ~WasOpened(x, A)
    /\ y.gate # 0 /\ Good(y, A \cup {Origin(y)})
    /\ Seen(y, A \cup {Origin(y)}) \in Protocol!Sends(Protocol!Opened(Seen(x, A)))

LEMMA OpenGood ==
    ASSUME NEW x, NEW A, Good(x, A), NEW overdue, NEW boundary, NEW drawn
    PROVE  LET y == Open(x, overdue, boundary, drawn) IN Silent(y, x, A) \/ Opens(y, x, A)
<1> DEFINE y == Open(x, overdue, boundary, drawn)
           o == [x EXCEPT !.next = x.next + 1, !.gate = x.next + 1]
           z == Report([o EXCEPT !.slot = FALSE], x.grant, "ready")
           shut == x.child = None \/ x.stopping \/ ~x.proved \/ x.gate # 0
<1>1. x \in Helpers
  BY DEF Good, Own
<1>2. CASE shut \/ (~shut /\ ~overdue /\ boundary # "error" /\ boundary = "unfinished")
  BY <1>2 DEF Open, Silent
<1>3. CASE ~shut /\ (overdue \/ boundary = "error")
  <2>1. y = Lose(x) /\ x.gate = 0
    BY <1>3 DEF Open
  <2> QED  BY <2>1, LoseGood DEF Silent
<1>4. CASE ~shut /\ ~overdue /\ boundary # "error" /\ boundary # "unfinished" /\ ~drawn
  <2>1. y = Lose(o) /\ x.gate = 0
    BY <1>1, <1>4 DEF Open, Helpers
  <2>2. o \in Helpers /\ IsLost(Lose(o), o)
    <3> DEFINE n == x.next + 1
    <3>0. n \in Nat
      BY <1>1 DEF Helpers
    <3> HIDE DEF n
    <3>1. [x EXCEPT !.next = n, !.gate = n] \in Helpers
      BY <1>1, <3>0 DEF Helpers
    <3>2. o \in Helpers
      BY <3>1 DEF n
    <3> HIDE DEF o
    <3> QED  BY <3>2, LoseIs
  <2>3. IsLost(Lose(o), x)
    BY <1>1, <2>2 DEF IsLost, Helpers
  <2>4. Lose(o) \in Helpers
    BY <2>2, LoseIs
  <2> HIDE DEF o, y
  <2>5. Silent(y, x, A)
    BY <2>1, <2>3, <2>4, LostIsGood DEF Silent, IsLost
  <2> QED  BY <2>5 DEF y
<1>5. CASE ~shut /\ ~overdue /\ boundary # "error" /\ boundary # "unfinished" /\ drawn
  <2>1. y = Send(z)
    BY <1>1, <1>5 DEF Open, Helpers
  <2> DEFINE B == A \cup {Origin(z)}
  <2>2. Good(z, B) /\ z.gate # 0 /\ ~WasOpened(x, A)
        /\ Seen(z, B) = Protocol!Opened(Seen(x, A))
    BY <1>5, OpenedGood
  <2> HIDE DEF z, y
  <2>3. Send(z) \in Helpers /\ Same(Send(z), z)
    BY <2>2, SendSame DEF Good, Own
  <2>4. Good(y, B) /\ y.gate # 0 /\ Origin(y) = Origin(z)
    <3>1. Good(Send(z), B)
      BY <2>2, <2>3, SameIsGood
    <3> QED  BY <2>1, <2>2, <2>3, <3>1 DEF Same, Origin
  <2>5. Seen(y, B) \in Protocol!Sends(Protocol!Opened(Seen(x, A)))
    <3>1. Seen(Send(z), B) \in Protocol!Sends(Seen(z, B))
      BY <2>2, SendSeen DEF Good, Own
    <3> QED  BY <2>1, <2>2, <3>1
  <2>6. Opens(y, x, A)
    BY <1>5, <2>2, <2>4, <2>5 DEF Opens
  <2> QED  BY <2>6 DEF y
<1> QED  BY <1>2, <1>3, <1>4, <1>5

-----------------------------------------------------------------------------
(* The cases of the select that may be followed by an opening.  What they  *)
(* leave open, they have not stopped.                                      *)

\* y is x after a case, before the opening.
Before(y, x, A) ==
    /\ Good(y, A)
    /\ y.gate = x.gate \/ (y.gate = 0 /\ y.stopping)
    /\ \/ Seen(y, A) \in Protocol!Sends(Seen(x, A))
       \/ Seen(y, A) = Protocol!Closed(Seen(x, A)) /\ y.stopping

LEMMA StaysBefore == ASSUME NEW x, NEW A, Good(x, A) PROVE Before(x, x, A)
BY DEF Before, Protocol!Sends

LEMMA LoseBefore == ASSUME NEW x, NEW A, Good(x, A) PROVE Before(Lose(x), x, A)
BY LoseGood DEF Before

LEMMA TypedBefore ==
    ASSUME NEW x, NEW A, Good(x, A), NEW written
    PROVE  Before(Typed(x, written), x, A)
BY StaysBefore, LoseBefore DEF Typed

\* Asking the coordinator, with what the call will carry set before.
LEMMA SendsFrom ==
    ASSUME NEW x, NEW A, Good(x, A), NEW y \in Helpers, Same(y, x), y.call = x.call
    PROVE  /\ Send(y).gate = x.gate /\ Good(Send(y), A)
           /\ Seen(Send(y), A) \in Protocol!Sends(Seen(x, A))
<1>1. Send(y) \in Helpers /\ Same(Send(y), x)
  BY SendSame DEF Same
<1>2. Seen(y, A) = Seen(x, A)
  <2>1. Seen(y, A) = [Seen(x, A) EXCEPT !.call = x.call]
    BY SameIsSeen
  <2> QED  BY <2>1 DEF Seen
<1>3. Seen(Send(y), A) \in Protocol!Sends(Seen(x, A))
  BY <1>2, SendSeen
<1>4. Good(Send(y), A)
  BY <1>1, SameIsGood
<1> QED  BY <1>1, <1>3, <1>4 DEF Same

LEMMA EnterBefore ==
    ASSUME NEW x, NEW A, Good(x, A)
    PROVE  Before(Enter(x), x, A)
<1> DEFINE y == [x EXCEPT !.retry = TRUE]
<1>1. CASE x.gate # 0
  BY <1>1, StaysBefore DEF Enter
<1>2. CASE x.gate = 0
  <2>1. Enter(x) = Send(y)
    BY <1>2 DEF Enter
  <2>2. y \in Helpers /\ Same(y, x) /\ y.call = x.call
    BY DEF Good, Own, Helpers, Same
  <2> HIDE DEF y
  <2> QED  BY <2>1, <2>2, SendsFrom DEF Before
<1> QED  BY <1>1, <1>2

LEMMA ClosedTwice ==
    ASSUME NEW x, NEW A
    PROVE  LET v == Seen(x, A)
           IN Protocol!Closed(Protocol!Closed(v)) = Protocol!Closed(v)
<1> DEFINE v == Seen(x, A)
<1>1. Protocol!Closed(v) = [v EXCEPT !.gate = FALSE]
  BY DEF Protocol!Closed
<1>2. Protocol!Closed(Protocol!Closed(v)) = [[v EXCEPT !.gate = FALSE] EXCEPT !.gate = FALSE]
  BY <1>1 DEF Protocol!Closed
<1> HIDE DEF v
<1>3. Protocol!Closed(Protocol!Closed(v)) = Protocol!Closed(v)
  BY <1>1, <1>2
<1> QED  BY <1>3 DEF v

\* One packet less is a child like before.
LEMMA TakenIs ==
    ASSUME NEW x, NEW A, Good(x, A), x.child # None, x.child.queue # <<>>
    PROVE  LET y == [x EXCEPT !.child.queue = Tail(@)] IN
           /\ Good(y, A) /\ Seen(y, A) = Seen(x, A)
           /\ y.gate = x.gate /\ y.stopping = x.stopping /\ y.child # None
           /\ Proves(Head(x.child.queue)) => y.child.ready
<1> DEFINE q == x.child.queue
           c == [x.child EXCEPT !.queue = Tail(q)]
           y == [x EXCEPT !.child = c]
<1>1. x \in Helpers /\ x.child \in Children /\ Fits(x.child)
  BY DEF Good, Own, Helpers
<1>2. q \in Seq(Seq({"ready", "detached", "failed"})) /\ q # <<>>
  BY <1>1 DEF Children
<1>3. /\ Tail(q) \in Seq(Seq({"ready", "detached", "failed"}))
      /\ \A i \in DOMAIN Tail(q) : i + 1 \in DOMAIN q /\ Tail(q)[i] = q[i + 1]
      /\ 1 \in DOMAIN q /\ Head(q) = q[1]
  BY <1>2
<1>4. /\ c \in Children /\ c.attempt = x.child.attempt /\ c.ready = x.child.ready
      /\ c.queue = Tail(q)
  BY <1>1, <1>3 DEF Children
<1>5. Fits(c)
  BY <1>1, <1>3, <1>4 DEF Fits
<1>6. Proves(Head(q)) => c.ready
  BY <1>1, <1>3, <1>4 DEF Fits
<1>7. c # None
  BY <1>4, SupervisorConstants
<1>8. [x EXCEPT !.child.queue = Tail(@)] = y
  BY <1>1 DEF Helpers
<1> HIDE DEF c
<1>9. /\ y \in Helpers /\ y.child = c
      /\ y.alive = x.alive /\ y.attempt = x.attempt /\ y.grant = x.grant
      /\ y.proved = x.proved /\ y.stopping = x.stopping /\ y.slot = x.slot
      /\ y.gate = x.gate /\ y.reports = x.reports /\ y.call = x.call
  BY <1>1, <1>4 DEF Helpers
<1> HIDE DEF y
<1>10. Own(y)
  BY <1>4, <1>5, <1>7, <1>9 DEF Good, Own
<1>11. (WasOpened(y, A) = WasOpened(x, A)) /\ Origin(y) = Origin(x)
  BY <1>9 DEF WasOpened, Origin
<1> HIDE DEF WasOpened
<1>12. Public(y, A)
  BY <1>7, <1>9, <1>11 DEF Good, Public
<1>13. Seen(y, A) = Seen(x, A)
  <2>1. (y.child # None) = (x.child # None)
    BY <1>7, <1>9
  <2> QED  BY <1>9, <1>11, <2>1, Zenon DEF Seen
<1>14. /\ Good(y, A) /\ Seen(y, A) = Seen(x, A)
       /\ y.gate = x.gate /\ y.stopping = x.stopping /\ y.child # None
       /\ Proves(Head(q)) => y.child.ready
  BY <1>6, <1>7, <1>9, <1>10, <1>12, <1>13 DEF Good
<1> QED  BY <1>8, <1>14, Zenon

LEMMA ProvedIs ==
    ASSUME NEW x, NEW A, Good(x, A), x.child # None, x.child.ready, ~x.stopping
    PROVE  LET y == [x EXCEPT !.proved = TRUE] IN
           Good(y, A) /\ Seen(y, A) = Seen(x, A) /\ y.gate = x.gate /\ y.stopping = x.stopping
<1> DEFINE y == [x EXCEPT !.proved = TRUE]
<1>1. /\ y \in Helpers /\ y.child = x.child /\ y.proved = TRUE
      /\ y.alive = x.alive /\ y.attempt = x.attempt /\ y.grant = x.grant
      /\ y.stopping = x.stopping /\ y.slot = x.slot
      /\ y.gate = x.gate /\ y.reports = x.reports /\ y.call = x.call
  BY DEF Good, Own, Helpers
<1> HIDE DEF y
<1>2. (WasOpened(y, A) = WasOpened(x, A)) /\ Origin(y) = Origin(x)
  BY <1>1 DEF WasOpened, Origin
<1> HIDE DEF WasOpened
<1>3. Own(y) /\ Public(y, A)
  BY <1>1, <1>2 DEF Good, Own, Public
<1>4. Seen(y, A) = Seen(x, A)
  BY <1>1, <1>2 DEF Seen
<1>5. Good(y, A) /\ Seen(y, A) = Seen(x, A) /\ y.gate = x.gate /\ y.stopping = x.stopping
  BY <1>1, <1>3, <1>4 DEF Good
<1> QED  BY <1>5 DEF y

LEMMA OnPacketBefore ==
    ASSUME NEW x, NEW A, Good(x, A), x.child # None, x.child.queue # <<>>, NEW kept
    PROVE  Before(OnPacket(x, kept), x, A)
<1> DEFINE packet == Head(x.child.queue)
           x1 == [x EXCEPT !.child.queue = Tail(@)]
           dropped == (x1.gate # 0 \/ ~x1.stopping) /\ ~kept
           x2 == IF dropped THEN Lose(x1) ELSE x1
           proof == packet # <<>> /\ packet[1] = "ready" /\ ~x2.stopping
           x3 == IF proof THEN [x2 EXCEPT !.proved = TRUE] ELSE x2
           quiet == packet = <<>> \/ (proof /\ Len(packet) = 1)
<1>1. OnPacket(x, kept) = IF quiet THEN x3 ELSE Lose(x3)
  BY DEF OnPacket
<1>2. /\ Good(x1, A) /\ Seen(x1, A) = Seen(x, A)
      /\ x1.gate = x.gate /\ x1.stopping = x.stopping /\ x1.child # None
      /\ Proves(packet) => x1.child.ready
  BY TakenIs
<1> HIDE DEF x1, packet
<1>3. /\ Good(x2, A)
      /\ \/ x2 = x1
         \/ x2.gate = 0 /\ x2.stopping /\ Seen(x2, A) = Protocol!Closed(Seen(x, A))
  BY <1>2, LoseGood
<1>4. CASE proof
  <2>1. x2 = x1 /\ Proves(packet)
    BY <1>3, <1>4 DEF Proves
  <2>2. x3 = [x1 EXCEPT !.proved = TRUE]
    BY <1>4, <2>1
  <2>3. ~x1.stopping
    BY <1>4, <2>1
  <2> HIDE DEF proof, x2
  <2>4. Good(x3, A) /\ Seen(x3, A) = Seen(x, A) /\ x3.gate = x.gate
    BY <1>2, <2>1, <2>2, <2>3, ProvedIs
  <2> HIDE DEF x3
  <2>5. Before(x3, x, A)
    BY <2>4 DEF Before, Protocol!Sends
  <2>6. Before(Lose(x3), x, A)
    BY <2>4, LoseGood DEF Before
  <2> QED  BY <1>1, <2>5, <2>6
<1>5. CASE ~proof
  <2>1. x3 = x2
    BY <1>5
  <2> HIDE DEF proof, x3, x2
  <2>2. CASE x2 = x1
    <3>1. Before(x2, x, A)
      BY <1>2, <2>2 DEF Before, Protocol!Sends
    <3>2. Before(Lose(x2), x, A)
      BY <1>2, <2>2, LoseGood DEF Before
    <3> QED  BY <1>1, <2>1, <3>1, <3>2
  <2>3. CASE x2.gate = 0 /\ x2.stopping /\ Seen(x2, A) = Protocol!Closed(Seen(x, A))
    <3>1. Before(x2, x, A)
      BY <1>3, <2>3 DEF Before
    <3>2. Before(Lose(x2), x, A)
      BY <1>3, <2>3, LoseGood, ClosedTwice DEF Before
    <3> QED  BY <1>1, <2>1, <3>1, <3>2
  <2> QED  BY <1>3, <2>2, <2>3
<1> QED  BY <1>4, <1>5

-----------------------------------------------------------------------------
(* A case with its opening, as the protocol sees it.                       *)

\* y, when B has been announced, is a step of the protocol away from x.
Steps(y, B, x, A) == Good(y, B) /\ Seen(y, B) \in Protocol!Changes(Seen(x, A))

\* What Becomes announces when the loop moves from x to y.
After(y, x, A) == IF y.gate # 0 /\ x.gate = 0 THEN A \cup {Origin(y)} ELSE A

Fields == {"alive", "attempt", "grant", "child", "gate", "opened", "reports", "call"}

LEMMA SeenFields ==
    ASSUME NEW x, NEW A
    PROVE  LET v == Seen(x, A) IN
           /\ DOMAIN v = Fields
           /\ v.child = (x.child # None) /\ v.gate = (x.gate # 0) /\ v.opened = WasOpened(x, A)
BY DEF Seen, Fields

LEMMA ClosedYet ==
    ASSUME NEW x, NEW A, x.child # None, x.gate = 0, ~WasOpened(x, A)
    PROVE  Seen(x, A).child = TRUE /\ Seen(x, A).gate = FALSE /\ Seen(x, A).opened = FALSE
<1> DEFINE c == x.child # None
           g == x.gate # 0
           w == WasOpened(x, A)
<1>1. Seen(x, A).child = c /\ Seen(x, A).gate = g /\ Seen(x, A).opened = w
  BY SeenFields
<1>2. c = TRUE /\ g = FALSE /\ w = FALSE
  OBVIOUS
<1> HIDE DEF c, g, w
<1> QED  BY <1>1, <1>2

LEMMA OpenedFields ==
    ASSUME NEW x, NEW A
    PROVE  DOMAIN Protocol!Opened(Seen(x, A)) = Fields
BY DEF Seen, Fields, Protocol!Opened, Protocol!Report

\* The call of a view, as Protocol!Send makes it.
Asks(v, retry) ==
    LET report == IF v.reports = <<>> THEN [attempt |-> v.attempt, event |-> None]
                  ELSE Head(v.reports)
    IN [attempt |-> report.attempt, event |-> report.event,
        state |-> Protocol!Phase(v), retry |-> retry]

\* There is one call at a time, so sending twice is sending once.
LEMMA SendsTwice ==
    ASSUME NEW u, DOMAIN u = Fields, NEW v \in Protocol!Sends(u), NEW w \in Protocol!Sends(v)
    PROVE  w \in Protocol!Sends(u)
<1>1. ASSUME NEW t, NEW r
      PROVE  Protocol!Send(t, r) = IF t.call # None THEN t ELSE [t EXCEPT !.call = Asks(t, r)]
  BY DEF Protocol!Send, Asks
<1>2. CASE v = u
  BY <1>2
<1>3. ASSUME NEW r \in BOOLEAN, v = Protocol!Send(u, r), v # u PROVE w \in Protocol!Sends(u)
  <2>1. CASE w = v
    BY <1>3, <2>1
  <2>2. ASSUME NEW k \in BOOLEAN, w = Protocol!Send(v, k), w # v PROVE w \in Protocol!Sends(u)
    <3>1. u.call = None /\ v = [u EXCEPT !.call = Asks(u, r)]
      BY <1>1, <1>3
    <3>2. w = [v EXCEPT !.call = Asks(v, k)]
      BY <1>1, <2>2
    <3>3. /\ v.reports = u.reports /\ v.attempt = u.attempt
          /\ v.gate = u.gate /\ v.child = u.child
      BY <3>1 DEF Fields
    <3>4. Asks(v, k) = Asks(u, k)
      <4>1. Protocol!Phase(v) = Protocol!Phase(u)
        BY <3>3 DEF Protocol!Phase
      <4> QED  BY <3>3, <4>1 DEF Asks
    <3>5. w = [u EXCEPT !.call = Asks(u, k)]
      BY <3>1, <3>2, <3>4
    <3>6. w = Protocol!Send(u, k)
      BY <1>1, <3>1, <3>5
    <3> QED  BY <3>6 DEF Protocol!Sends
  <2> QED  BY <2>1, <2>2 DEF Protocol!Sends
<1> QED  BY <1>2, <1>3 DEF Protocol!Sends

LEMMA SendsKeep ==
    ASSUME NEW x, NEW A, NEW v \in Protocol!Sends(Seen(x, A))
    PROVE  v.child = (x.child # None) /\ v.gate = (x.gate # 0) /\ v.opened = WasOpened(x, A)
<1> DEFINE u == Seen(x, A)
<1>1. u.child = (x.child # None) /\ u.gate = (x.gate # 0) /\ u.opened = WasOpened(x, A)
  BY DEF Seen
<1>2. ASSUME NEW r \in BOOLEAN, v = Protocol!Send(u, r)
      PROVE  v.child = u.child /\ v.gate = u.gate /\ v.opened = u.opened
  BY <1>2 DEF Protocol!Send, Seen
<1>3. v.child = u.child /\ v.gate = u.gate /\ v.opened = u.opened
  BY <1>2 DEF Protocol!Sends
<1> QED  BY <1>1, <1>3, Zenon

LEMMA SettledSteps ==
    ASSUME NEW x, NEW A, Good(x, A), NEW y, Before(y, x, A),
           NEW overdue, NEW boundary, NEW drawn
    PROVE  LET z == Open(y, overdue, boundary, drawn) IN Steps(z, After(z, x, A), x, A)
<1> DEFINE z == Open(y, overdue, boundary, drawn)
           v == Seen(x, A)
<1>1. Good(y, A)
  BY DEF Before
<1>2. Silent(z, y, A) \/ Opens(z, y, A)
  BY <1>1, OpenGood
<1> HIDE DEF z
<1>3. CASE Silent(z, y, A)
  <2>1. After(z, x, A) = A
    BY <1>3 DEF Silent, Before, After
  <2>2. Seen(z, A) \in Protocol!Sends(v) \/ Seen(z, A) = Protocol!Closed(v)
    BY <1>3 DEF Silent, Before
  <2>3. Seen(z, A) \in Protocol!Changes(v)
    BY <2>2 DEF Protocol!Changes
  <2> QED  BY <1>3, <2>1, <2>3 DEF Silent, Steps, z
<1>4. CASE Opens(z, y, A)
  <2> DEFINE B == A \cup {Origin(z)}
  <2>1. y.gate = 0 /\ ~y.stopping /\ y.child # None /\ ~WasOpened(y, A) /\ z.gate # 0
    BY <1>4 DEF Opens
  <2>2. x.gate = 0 /\ Seen(y, A) \in Protocol!Sends(v)
    BY <2>1 DEF Before
  <2>3. After(z, x, A) = B
    BY <2>1, <2>2 DEF After
  <2>4. v.child = TRUE /\ v.gate = FALSE /\ v.opened = FALSE
    <3>1. Seen(y, A).child = TRUE /\ Seen(y, A).gate = FALSE /\ Seen(y, A).opened = FALSE
      BY <2>1, ClosedYet
    <3>2. /\ Seen(y, A).child = (x.child # None) /\ Seen(y, A).gate = (x.gate # 0)
          /\ Seen(y, A).opened = WasOpened(x, A)
      BY <2>2, SendsKeep
    <3>3. v.child = (x.child # None) /\ v.gate = (x.gate # 0) /\ v.opened = WasOpened(x, A)
      BY SeenFields
    <3> QED  BY <3>1, <3>2, <3>3, Zenon
  <2>5. Seen(z, B) \in Protocol!Sends(Protocol!Opened(Seen(y, A)))
    BY <1>4 DEF Opens
  <2> HIDE DEF v, B
  <2>6. Seen(z, B) \in Protocol!Changes(v)
    BY <2>2, <2>4, <2>5 DEF Protocol!Changes
  <2>7. Good(z, B)
    BY <1>4 DEF Opens, B
  <2>8. Steps(z, After(z, x, A), x, A)
    BY <2>3, <2>6, <2>7 DEF Steps, v
  <2> QED  BY <2>8 DEF z
<1> QED  BY <1>2, <1>3, <1>4

\* The ticker sends after it has looked at the child's deadline.
LEMMA TickerSteps_ ==
    ASSUME NEW x, NEW A, Good(x, A), NEW overdue, NEW boundary, NEW drawn
    PROVE  LET z == OnTicker(x, overdue, boundary, drawn) IN Steps(z, After(z, x, A), x, A)
<1> DEFINE v == Seen(x, A)
           y == IF x.child # None /\ x.gate = 0 /\ overdue THEN Lose(x) ELSE x
           o == Open(y, overdue, boundary, drawn)
           z == Send(o)
<1>1. Good(y, A) /\ Seen(y, A) = v /\ y.gate = x.gate /\ (~y.stopping => y = x)
  BY LoseGood
<1>2. OnTicker(x, overdue, boundary, drawn) = z
  BY DEF OnTicker
<1> HIDE DEF y
<1>3. Silent(o, y, A) \/ Opens(o, y, A)
  BY <1>1, OpenGood
<1> HIDE DEF o
<1>4. CASE Silent(o, y, A)
  <2>1. o \in Helpers /\ Good(o, A) /\ o.gate = x.gate /\ Seen(o, A) = v
    BY <1>1, <1>4 DEF Silent, Good, Own
  <2>2. z \in Helpers /\ Same(z, o) /\ Seen(z, A) \in Protocol!Sends(v)
    BY <2>1, SendSame, SendSeen
  <2>3. Good(z, A) /\ After(z, x, A) = A
    BY <2>1, <2>2, SameIsGood DEF Same, After
  <2>4. Seen(z, A) \in Protocol!Changes(v)
    BY <2>2 DEF Protocol!Changes
  <2> QED  BY <1>2, <2>3, <2>4 DEF Steps
<1>5. CASE Opens(o, y, A)
  <2> DEFINE B == A \cup {Origin(o)}
  <2>1. y = x /\ x.gate = 0 /\ x.child # None /\ ~WasOpened(x, A) /\ o.gate # 0 /\ Good(o, B)
    BY <1>1, <1>5 DEF Opens
  <2>2. Seen(o, B) \in Protocol!Sends(Protocol!Opened(v))
    BY <1>5, <2>1 DEF Opens
  <2>3. z \in Helpers /\ Same(z, o) /\ Seen(z, B) \in Protocol!Sends(Seen(o, B))
    BY <2>1, SendSame, SendSeen DEF Good, Own
  <2>4. Good(z, B) /\ After(z, x, A) = B
    <3>1. Origin(z) = Origin(o) /\ z.gate # 0
      BY <2>1, <2>3 DEF Same, Origin
    <3> QED  BY <2>1, <2>3, <3>1, SameIsGood DEF After
  <2>5. Seen(z, B) \in Protocol!Sends(Protocol!Opened(v))
    BY <2>2, <2>3, OpenedFields, SendsTwice
  <2>6. Seen(z, B) \in Protocol!Changes(v)
    <3>1. v.child = TRUE /\ v.gate = FALSE /\ v.opened = FALSE
      BY <2>1, ClosedYet
    <3>2. v \in Protocol!Sends(v)
      BY DEF Protocol!Sends
    <3> QED  BY <2>5, <3>1, <3>2 DEF Protocol!Changes
  <2> QED  BY <1>2, <2>4, <2>6 DEF Steps
<1> QED  BY <1>3, <1>4, <1>5

-----------------------------------------------------------------------------
(* The cases that no opening follows.                                      *)

\* A helper that has returned has neither child nor attachment.
Sound(y, B) == Good(y, B) \/ (~y.alive /\ y.gate = 0 /\ y.child = None)

LEMMA ReturnSound ==
    ASSUME NEW x \in Helpers, NEW A, NEW t \in Helpers,
           t.attempt = x.attempt, t.grant = x.grant, t.reports = x.reports
    PROVE  /\ Sound(Return(t), A) /\ Return(t).gate = 0
           /\ Seen(Return(t), A) = Protocol!Returned(Seen(x, A))
<1> DEFINE y == Return(t)
           c == x.child # None
           g == x.gate # 0
           w == WasOpened(x, A)
<1>1. /\ y.alive = FALSE /\ y.gate = 0 /\ y.child = None /\ y.call = None
      /\ y.attempt = x.attempt /\ y.grant = x.grant /\ y.reports = x.reports
  BY DEF Return, Helpers
<1> HIDE DEF y
<1>2. WasOpened(y, A) = w
  BY <1>1 DEF WasOpened
<1> HIDE DEF w
<1>3. Seen(y, A) = [alive |-> y.alive, attempt |-> y.attempt, grant |-> y.grant,
                    child |-> FALSE, gate |-> FALSE, opened |-> w,
                    reports |-> y.reports, call |-> y.call]
  <2>1. (y.child # None) = FALSE /\ (y.gate # 0) = FALSE
    BY <1>1
  <2> QED  BY <1>2, <2>1, Zenon DEF Seen
<1>4. Seen(x, A) = [alive |-> x.alive, attempt |-> x.attempt, grant |-> x.grant,
                    child |-> c, gate |-> g, opened |-> w,
                    reports |-> x.reports, call |-> x.call]
  BY DEF Seen, w
<1> HIDE DEF c, g
<1>5. Seen(y, A) = Protocol!Returned(Seen(x, A))
  <2> DEFINE v == Seen(x, A)
  <2>1. Protocol!Returned(v) = [v EXCEPT !.alive = FALSE, !.gate = FALSE, !.child = FALSE, !.call = None]
    BY DEF Protocol!Returned
  <2>2. v = [alive |-> x.alive, attempt |-> x.attempt, grant |-> x.grant,
             child |-> c, gate |-> g, opened |-> w,
             reports |-> x.reports, call |-> x.call]
    BY <1>4
  <2> HIDE DEF v
  <2>3. Seen(y, A) = Protocol!Returned(v)
    BY <1>1, <1>3, <2>1, <2>2
  <2> QED  BY <2>3 DEF v
<1>6. Sound(y, A)
  BY <1>1 DEF Sound
<1> QED  BY <1>1, <1>5, <1>6 DEF y

LEMMA OnDoneSteps ==
    ASSUME NEW x, NEW A, Good(x, A), x.child # None
    PROVE  LET z == OnDone(x) IN
           /\ Sound(z, A) /\ z.gate = 0
           /\ Seen(z, A) \in Protocol!Changes(Seen(x, A))
<1> DEFINE v == Seen(x, A)
           x1 == [x EXCEPT !.gate = 0, !.slot = FALSE, !.child = None, !.proved = FALSE]
           r == Append(x.reports, [attempt |-> x.attempt, event |-> "lost"])
           y == [x1 EXCEPT !.reports = r]
           c == x.child # None
           g == x.gate # 0
           w == WasOpened(x, A)
<1>1. /\ x \in Helpers /\ x.grant = x.attempt /\ x.attempt \in Nonces
      /\ x.reports \in Seq(Reports) /\ NoneLost(x.reports)
  BY DEF Good, Own, Helpers
<1>2. r \in Seq(Reports) /\ LostLast(r) /\ Ordered(r)
  BY <1>1, ReportLost
<1>3. x1 \in Helpers
  BY <1>1 DEF Helpers
<1>4. Report(x1, x.grant, "lost") = y
  BY <1>1 DEF Report, Helpers
<1>5. v = [alive |-> x.alive, attempt |-> x.attempt, grant |-> x.grant,
           child |-> c, gate |-> g, opened |-> w, reports |-> x.reports, call |-> x.call]
  BY DEF Seen
<1>6. c = TRUE
  OBVIOUS
<1>7. CASE x.child.outcome = "detached"
  <2>1. OnDone(x) = Return(x1)
    BY <1>7 DEF OnDone
  <2>2. Protocol!Returned(v) \in Protocol!Changes(v)
    BY DEF Protocol!Changes
  <2>3. x1.attempt = x.attempt /\ x1.grant = x.grant /\ x1.reports = x.reports
    BY <1>1 DEF Helpers
  <2> HIDE DEF x1
  <2>4. Sound(Return(x1), A) /\ Return(x1).gate = 0 /\ Seen(Return(x1), A) = Protocol!Returned(v)
    BY <1>1, <1>3, <2>3, ReturnSound
  <2> QED  BY <2>1, <2>2, <2>4
<1>8. CASE x.child.outcome # "detached"
  <2>1. OnDone(x) = Send(y)
    BY <1>4, <1>8 DEF OnDone
  <2> HIDE DEF r
  <2>2. /\ y \in Helpers /\ y.alive = x.alive /\ y.attempt = x.attempt /\ y.grant = x.grant
        /\ y.child = None /\ y.proved = FALSE /\ y.gate = 0
        /\ y.reports = r /\ y.call = x.call
    BY <1>1, <1>2 DEF Helpers
  <2> HIDE DEF y, x1, v
  <2>3. WasOpened(y, A) = w
    BY <2>2 DEF WasOpened
  <2>4. Good(y, A)
    <3>1. Own(y)
      BY <1>2, <2>2 DEF Own
    <3> HIDE DEF w
    <3>2. Public(y, A)
      BY <1>2, <2>2 DEF Good, Public
    <3> QED  BY <3>1, <3>2 DEF Good
  <2> HIDE DEF w, c, g
  <2>5. Seen(y, A) = Protocol!Reaped(v)
    <3>1. (y.child # None) = FALSE /\ (y.gate # 0) = FALSE
      BY <2>2
    <3>2. Seen(y, A) = [alive |-> y.alive, attempt |-> y.attempt, grant |-> y.grant,
                        child |-> FALSE, gate |-> FALSE, opened |-> w,
                        reports |-> y.reports, call |-> y.call]
      BY <2>3, <3>1, Zenon DEF Seen
    <3>3. Protocol!Reaped(v) = [v EXCEPT !.gate = FALSE, !.child = FALSE, !.reports = r]
      BY <1>1, <1>5 DEF Protocol!Reaped, Protocol!Report, r
    <3> QED  BY <1>5, <2>2, <3>2, <3>3
  <2>6. Seen(Send(y), A) \in Protocol!Sends(Protocol!Reaped(v))
    BY <2>2, <2>5, SendSeen
  <2>7. v.child = TRUE
    BY <1>5, <1>6
  <2>8. Seen(Send(y), A) \in Protocol!Changes(v)
    BY <2>6, <2>7 DEF Protocol!Changes
  <2>9. Good(Send(y), A) /\ Send(y).gate = 0 /\ Send(y).child = None
    BY <2>2, <2>4, SendSame, SameIsGood DEF Same
  <2>10. Sound(Send(y), A)
    BY <2>9 DEF Sound
  <2> QED  BY <2>1, <2>8, <2>9, <2>10 DEF v
<1> QED  BY <1>7, <1>8

\* What the child writes, and its end, are the loop's business only.
LEMMA ChildSilent ==
    ASSUME NEW x, NEW A, Good(x, A), NEW y \in ChildSteps(x)
    PROVE  Good(y, A) /\ y.gate = x.gate /\ Seen(y, A) = Seen(x, A)
<1> DEFINE Kept(c) == /\ c \in Children /\ c.attempt = x.child.attempt /\ Fits(c)
                      /\ x.child.ready => c.ready
<1>1. x \in Helpers /\ x.child \in Children /\ x.child # None /\ Fits(x.child)
  BY SupervisorConstants DEF Good, Own, Helpers, ChildSteps
<1>2. ASSUME NEW c, Kept(c), y = [x EXCEPT !.child = c]
      PROVE  Good(y, A) /\ y.gate = x.gate /\ Seen(y, A) = Seen(x, A)
  <2>1. c # None
    BY <1>2, SupervisorConstants
  <2>2. /\ y \in Helpers /\ y.child = c
        /\ y.alive = x.alive /\ y.attempt = x.attempt /\ y.grant = x.grant
        /\ y.proved = x.proved /\ y.stopping = x.stopping /\ y.slot = x.slot
        /\ y.gate = x.gate /\ y.reports = x.reports /\ y.call = x.call
    BY <1>1, <1>2 DEF Helpers
  <2>3. Own(y)
    BY <1>1, <1>2, <2>1, <2>2 DEF Good, Own
  <2>4. (WasOpened(y, A) = WasOpened(x, A)) /\ Origin(y) = Origin(x)
    BY <2>2 DEF WasOpened, Origin
  <2> HIDE DEF WasOpened
  <2>5. Public(y, A)
    BY <1>1, <2>1, <2>2, <2>4 DEF Good, Public
  <2>6. (y.child # None) = (x.child # None)
    BY <1>1, <2>1, <2>2
  <2>7. Seen(y, A) = Seen(x, A)
    BY <2>2, <2>4, <2>6, Zenon DEF Seen
  <2> QED  BY <2>2, <2>3, <2>5, <2>7 DEF Good
<1>3. CASE y = [x EXCEPT !.child.running = FALSE]
  <2> DEFINE c == [x.child EXCEPT !.running = FALSE]
  <2>1. Kept(c)
    BY <1>1 DEF Children, Fits
  <2>2. y = [x EXCEPT !.child = c]
    BY <1>1, <1>3 DEF Helpers
  <2> HIDE DEF c, Kept
  <2> QED  BY <1>2, <2>1, <2>2
<1>4. ASSUME NEW packet \in Packets(x.child), y = [x EXCEPT !.child = Decoded(@, packet)]
      PROVE  Good(y, A) /\ y.gate = x.gate /\ Seen(y, A) = Seen(x, A)
  <2> DEFINE c == Decoded(x.child, packet)
             E == {"ready", "detached", "failed"}
             q == Append(x.child.queue, packet)
             rd == x.child.ready \/ \E i \in DOMAIN packet : packet[i] = "ready"
             out == IF packet # <<>> /\ packet[Len(packet)] # "ready"
                    THEN packet[Len(packet)] ELSE x.child.outcome
  <2>1. c = [x.child EXCEPT !.queue = q, !.ready = rd, !.outcome = out]
    BY <1>1 DEF Decoded, Children
  <2>2. packet \in Seq(E) /\ out \in {None, "detached", "failed"}
    <3>1. \/ packet = <<>>
          \/ \E e \in E : packet = <<e>>
          \/ \E e \in E \ {"ready"} : packet = <<"ready", e>>
      BY DEF Packets
    <3>2. CASE packet = <<>>
      BY <1>1, <3>2 DEF Children
    <3>3. ASSUME NEW e \in E, packet = <<e>>
          PROVE  packet \in Seq(E) /\ out \in {None, "detached", "failed"}
      <4>1. packet \in Seq(E) /\ packet[Len(packet)] = e
        BY <3>3
      <4> QED  BY <1>1, <4>1 DEF Children
    <3>4. ASSUME NEW e \in E \ {"ready"}, packet = <<"ready", e>>
          PROVE  packet \in Seq(E) /\ out \in {None, "detached", "failed"}
      <4>1. packet \in Seq(E) /\ packet[Len(packet)] = e
        BY <3>4
      <4> QED  BY <1>1, <4>1 DEF Children
    <3> QED  BY <3>1, <3>2, <3>3, <3>4
  <2>3. /\ q \in Seq(Seq(E)) /\ DOMAIN q = 1..(Len(x.child.queue) + 1)
        /\ \A i \in DOMAIN x.child.queue : q[i] = x.child.queue[i]
        /\ q[Len(x.child.queue) + 1] = packet
        /\ DOMAIN x.child.queue = 1..Len(x.child.queue) /\ Len(x.child.queue) \in Nat
    BY <1>1, <2>2 DEF Children
  <2>4. Proves(packet) => rd
    BY <2>2 DEF Proves
  <2>5. rd \in BOOLEAN /\ (x.child.ready => rd)
    BY <1>1 DEF Children
  <2> HIDE DEF q, rd, out
  <2>6. /\ c \in Children /\ c.attempt = x.child.attempt /\ c.queue = q /\ c.ready = rd
    BY <1>1, <2>1, <2>2, <2>3, <2>5 DEF Children
  <2> HIDE DEF c
  <2>7. Fits(c)
    <3> SUFFICES ASSUME NEW i \in DOMAIN q, Proves(q[i]) PROVE rd
      BY <2>6 DEF Fits
    <3>1. CASE i \in DOMAIN x.child.queue
      BY <1>1, <2>3, <2>5, <3>1 DEF Fits
    <3>2. CASE i = Len(x.child.queue) + 1
      BY <2>3, <2>4, <3>2
    <3>3. i \in 1..Len(x.child.queue) \/ i = Len(x.child.queue) + 1
      BY <2>3
    <3>4. i \in DOMAIN x.child.queue \/ i = Len(x.child.queue) + 1
      BY <2>3, <3>3
    <3> QED  BY <3>1, <3>2, <3>4
  <2>8. Kept(c)
    BY <2>5, <2>6, <2>7
  <2>9. y = [x EXCEPT !.child = c]
    BY <1>1, <1>4 DEF c, Helpers
  <2> HIDE DEF Kept
  <2> QED  BY <1>2, <2>8, <2>9
<1>5. \/ y = [x EXCEPT !.child.running = FALSE]
      \/ \E packet \in Packets(x.child) : y = [x EXCEPT !.child = Decoded(@, packet)]
  BY DEF ChildSteps
<1> QED  BY <1>3, <1>4, <1>5

\* A call that failed is dropped, and nothing else.
LEMMA CallErrorDrops ==
    ASSUME NEW x, NEW A, Good(x, A), x.call # None
    PROVE  LET y == OnCallError(x) IN
           /\ Good(y, A) /\ y.gate = x.gate
           /\ Seen(y, A) = Protocol!CallDropped(Seen(x, A))
<1> DEFINE y == OnCallError(x)
<1>1. x \in Helpers /\ x.call.retry \in BOOLEAN
  BY DEF Good, Own, Helpers, Calls
<1>2. y \in Helpers /\ Same(y, x) /\ y.call = None
  BY <1>1 DEF OnCallError, Helpers, Same
<1> HIDE DEF y
<1>3. Seen(y, A) = Protocol!CallDropped(Seen(x, A))
  BY <1>2, SameIsSeen DEF Protocol!CallDropped
<1>4. Good(y, A) /\ y.gate = x.gate
  BY <1>2, SameIsGood DEF Same
<1> QED  BY <1>3, <1>4 DEF y

-----------------------------------------------------------------------------
(* A reply of the coordinator.                                             *)

\* The oldest report leaves the queue; a lost one is the last.
LEMMA TailKeeps ==
    ASSUME NEW reports \in Seq(Reports), reports # <<>>, Ordered(reports)
    PROVE  /\ Tail(reports) \in Seq(Reports) /\ Ordered(Tail(reports))
           /\ NoneLost(reports) => NoneLost(Tail(reports)) /\ Head(reports).event # "lost"
           /\ Head(reports).event = "lost" => Tail(reports) = <<>>
           /\ Head(reports).event # "lost" /\ LostLast(reports) => LostLast(Tail(reports))
<1> DEFINE t == Tail(reports)
           n == Len(reports)
<1>1. /\ t \in Seq(Reports) /\ Len(t) = n - 1 /\ n \in Nat /\ n > 0
      /\ \A i \in 1..(n - 1) : t[i] = reports[i + 1]
      /\ Head(reports) = reports[1]
  OBVIOUS
<1>6. n = 1 => t = <<>>
  <2> HIDE DEF t, n
  <2> QED  BY <1>1
<1>7. \A i \in 1..n : reports[i].event = "lost" => i = n
  BY DEF Ordered
<1> HIDE DEF t, n
<1>2. Ordered(t)
  <2> SUFFICES ASSUME NEW i \in 1..Len(t), t[i].event = "lost" PROVE i = Len(t)
    BY DEF Ordered
  <2>1. i + 1 \in 1..n /\ t[i] = reports[i + 1]
    BY <1>1
  <2> QED  BY <1>1, <1>7, <2>1
<1>3. NoneLost(reports) => NoneLost(t) /\ Head(reports).event # "lost"
  BY <1>1 DEF NoneLost, n
<1>4. Head(reports).event = "lost" => t = <<>>
  <2>1. 1 \in 1..n
    BY <1>1
  <2> QED  BY <1>1, <1>6, <1>7, <2>1
<1>5. Head(reports).event # "lost" /\ LostLast(reports) => LostLast(t)
  BY <1>1 DEF LostLast, n
<1> QED  BY <1>1, <1>2, <1>3, <1>4, <1>5 DEF t

LEMMA AcknowledgeGood ==
    ASSUME NEW x, NEW A, Good(x, A), x.call # None,
           x.call.event = "lost" => x.attempt < MaxAttempts
    PROVE  LET y == [Acknowledge(x) EXCEPT !.call = None] IN
           /\ Good(y, A) /\ y.alive = x.alive /\ y.gate = x.gate
           /\ Seen(y, A) = [Protocol!Acknowledge(Seen(x, A)) EXCEPT !.call = None]
<1> DEFINE v == Seen(x, A)
           y == [Acknowledge(x) EXCEPT !.call = None]
           t == Tail(x.reports)
           c == x.child # None
           g == x.gate # 0
           w == WasOpened(x, A)
           confirmed == /\ x.call.event # None /\ x.reports # <<>>
                        /\ Head(x.reports) = [attempt |-> x.call.attempt, event |-> x.call.event]
<1>1. x \in Helpers /\ x.reports \in Seq(Reports) /\ Ordered(x.reports) /\ x.attempt \in Nonces
  BY DEF Good, Own, Helpers
<1>2. v = [alive |-> x.alive, attempt |-> x.attempt, grant |-> x.grant,
           child |-> c, gate |-> g, opened |-> w, reports |-> x.reports, call |-> x.call]
  BY DEF Seen
<1>3. Protocol!Acknowledge(v) =
        IF confirmed
        THEN IF x.call.event = "lost"
             THEN [v EXCEPT !.reports = t, !.grant = None, !.attempt = x.attempt + 1,
                            !.opened = FALSE]
             ELSE [v EXCEPT !.reports = t]
        ELSE v
  <2>1. v.call = x.call /\ v.reports = x.reports /\ v.attempt = x.attempt
    BY DEF Seen
  <2> HIDE DEF v
  <2> QED  BY <2>1 DEF Protocol!Acknowledge
<1>4. CASE ~confirmed
  <2>1. y = [x EXCEPT !.call = None]
    BY <1>4 DEF Acknowledge
  <2>2. y \in Helpers /\ Same(y, x) /\ y.call = None
    BY <1>1, <2>1 DEF Helpers, Same
  <2> HIDE DEF y, v, confirmed
  <2>3. Seen(y, A) = [v EXCEPT !.call = None]
    BY <2>2, SameIsSeen DEF v
  <2>4. Good(y, A) /\ y.alive = x.alive /\ y.gate = x.gate
    BY <2>2, SameIsGood DEF Same
  <2> QED  BY <1>3, <1>4, <2>3, <2>4 DEF y, v
<1>5. CASE confirmed /\ x.call.event # "lost"
  <2>1. y = [x EXCEPT !.reports = t, !.call = None]
    BY <1>5 DEF Acknowledge
  <2>2. x.reports # <<>> /\ Head(x.reports).event # "lost"
    BY <1>5
  <2>3. /\ t \in Seq(Reports) /\ Ordered(t) /\ (NoneLost(x.reports) => NoneLost(t))
        /\ LostLast(x.reports) => LostLast(t)
    BY <1>1, <2>2, TailKeeps
  <2> HIDE DEF t
  <2>4. /\ y \in Helpers /\ y.reports = t /\ y.call = None
        /\ y.alive = x.alive /\ y.attempt = x.attempt /\ y.grant = x.grant
        /\ y.child = x.child /\ y.proved = x.proved /\ y.stopping = x.stopping
        /\ y.slot = x.slot /\ y.gate = x.gate
    BY <1>1, <2>1, <2>3 DEF Helpers
  <2> HIDE DEF y, confirmed, v
  <2>5. (WasOpened(y, A) = w) /\ Origin(y) = Origin(x)
    BY <2>4 DEF WasOpened, Origin
  <2>6. Own(y)
    BY <2>3, <2>4 DEF Good, Own
  <2>7. Public(y, A)
    <3> HIDE DEF WasOpened
    <3> QED  BY <2>3, <2>4, <2>5 DEF Good, Public
  <2>8. Seen(y, A) = [alive |-> x.alive, attempt |-> x.attempt, grant |-> x.grant,
                      child |-> c, gate |-> g, opened |-> w, reports |-> t, call |-> None]
    BY <2>4, <2>5, Zenon DEF Seen
  <2> HIDE DEF c, g, w
  <2>9. Seen(y, A) = [[v EXCEPT !.reports = t] EXCEPT !.call = None]
    <3> DEFINE u == [v EXCEPT !.reports = t]
    <3>1. u = [alive |-> x.alive, attempt |-> x.attempt, grant |-> x.grant,
               child |-> c, gate |-> g, opened |-> w, reports |-> t, call |-> x.call]
      BY <1>2
    <3> HIDE DEF u
    <3>2. Seen(y, A) = [u EXCEPT !.call = None]
      BY <2>8, <3>1
    <3> QED  BY <3>2 DEF u
  <2>10. Good(y, A) /\ y.alive = x.alive /\ y.gate = x.gate
    BY <2>4, <2>6, <2>7 DEF Good
  <2> QED  BY <1>3, <1>5, <2>9, <2>10 DEF y, v
<1>6. CASE confirmed /\ x.call.event = "lost"
  <2> DEFINE n == x.attempt + 1
  <2>1. y = [x EXCEPT !.reports = t, !.grant = None, !.attempt = n, !.call = None]
    BY <1>6 DEF Acknowledge
  <2>2. x.reports # <<>> /\ Head(x.reports).event = "lost"
    BY <1>6
  <2>3. t = <<>> /\ t \in Seq(Reports) /\ x.child = None
    BY <1>1, <2>2, TailKeeps DEF Good, Own
  <2>4. n \in Nonces
    BY <1>1, <1>6, SupervisorConstants DEF Nonces
  <2> HIDE DEF t, n
  <2>5. /\ y \in Helpers /\ y.reports = <<>> /\ y.call = None
        /\ y.alive = x.alive /\ y.attempt = n /\ y.grant = None
        /\ y.child = None /\ y.proved = x.proved /\ y.gate = x.gate
    BY <1>1, <2>1, <2>3, <2>4 DEF Helpers
  <2> HIDE DEF y, confirmed, v
  <2>6. ~WasOpened(y, A)
    BY <1>1, <2>5 DEF Good, Public, WasOpened, Nonces, n
  <2>7. Own(y)
    BY <2>3, <2>5 DEF Good, Own, Ordered
  <2>8. Public(y, A)
    <3>1. \A o \in A : o.attempt \in Nonces /\ o.attempt <= y.attempt
      BY <1>1, <2>5 DEF Good, Public, Nonces, n
    <3> HIDE DEF WasOpened
    <3> QED  BY <2>3, <2>5, <2>6, <2>7, <3>1 DEF Public, Own
  <2>9. Seen(y, A) = [alive |-> x.alive, attempt |-> n, grant |-> None,
                      child |-> c, gate |-> g, opened |-> FALSE, reports |-> t, call |-> None]
    <3>1. (WasOpened(y, A) = FALSE) /\ (y.child # None) = c /\ (y.gate # 0) = g /\ y.reports = t
      BY <2>3, <2>5, <2>6
    <3> HIDE DEF WasOpened, c, g
    <3> QED  BY <2>5, <3>1, Zenon DEF Seen
  <2> HIDE DEF c, g, w
  <2>10. Seen(y, A) = [[v EXCEPT !.reports = t, !.grant = None, !.attempt = n,
                                 !.opened = FALSE] EXCEPT !.call = None]
    <3> DEFINE u1 == [v EXCEPT !.reports = t]
               u2 == [u1 EXCEPT !.grant = None]
               u3 == [u2 EXCEPT !.attempt = n]
               no == FALSE
               u4 == [u3 EXCEPT !.opened = no]
    <3>6. Seen(y, A) = [alive |-> x.alive, attempt |-> n, grant |-> None,
                child |-> c, gate |-> g, opened |-> no, reports |-> t, call |-> None]
      BY <2>9
    <3> HIDE DEF no
    <3>1. u1 = [alive |-> x.alive, attempt |-> x.attempt, grant |-> x.grant,
                child |-> c, gate |-> g, opened |-> w, reports |-> t, call |-> x.call]
      BY <1>2
    <3> HIDE DEF u1
    <3>2. u2 = [alive |-> x.alive, attempt |-> x.attempt, grant |-> None,
                child |-> c, gate |-> g, opened |-> w, reports |-> t, call |-> x.call]
      BY <3>1
    <3> HIDE DEF u2
    <3>3. u3 = [alive |-> x.alive, attempt |-> n, grant |-> None,
                child |-> c, gate |-> g, opened |-> w, reports |-> t, call |-> x.call]
      BY <3>2
    <3> HIDE DEF u3
    <3>4. u4 = [alive |-> x.alive, attempt |-> n, grant |-> None,
                child |-> c, gate |-> g, opened |-> no, reports |-> t, call |-> x.call]
      BY <3>3
    <3> HIDE DEF u4
    <3>5. Seen(y, A) = [u4 EXCEPT !.call = None]
      BY <3>4, <3>6
    <3> QED  BY <3>5 DEF u1, u2, u3, u4, no
  <2>11. Good(y, A) /\ y.alive = x.alive /\ y.gate = x.gate
    BY <2>5, <2>7, <2>8 DEF Good
  <2> QED  BY <1>3, <1>6, <2>10, <2>11 DEF y, v, n
<1> QED  BY <1>4, <1>5, <1>6

\* A change of grant, and a report, as they are seen.
LEMMA GrantSeen ==
    ASSUME NEW x, NEW y, NEW A,
           y.alive = x.alive, y.attempt = x.attempt, y.child = x.child, y.gate = x.gate,
           y.reports = x.reports, y.call = x.call
    PROVE  Seen(y, A) = [Seen(x, A) EXCEPT !.grant = y.grant]
<1> DEFINE c == x.child # None
           g == x.gate # 0
           w == WasOpened(x, A)
<1>1. Seen(x, A) = [alive |-> x.alive, attempt |-> x.attempt, grant |-> x.grant,
                    child |-> c, gate |-> g, opened |-> w,
                    reports |-> x.reports, call |-> x.call]
  BY DEF Seen
<1>2. Seen(y, A) = [alive |-> x.alive, attempt |-> x.attempt, grant |-> y.grant,
                    child |-> c, gate |-> g, opened |-> w,
                    reports |-> x.reports, call |-> x.call]
  <2>1. WasOpened(y, A) = w
    BY DEF WasOpened
  <2> HIDE DEF w
  <2> QED  BY <2>1 DEF Seen
<1> HIDE DEF c, g, w
<1> QED  BY <1>1, <1>2

LEMMA ReportSeen ==
    ASSUME NEW x \in Helpers, NEW A, NEW attempt, NEW event
    PROVE  LET y == Report(x, attempt, event)
           IN Seen(y, A) = Protocol!Report(Seen(x, A), attempt, event)
<1> DEFINE v == Seen(x, A)
           r == Append(x.reports, [attempt |-> attempt, event |-> event])
           y == Report(x, attempt, event)
           c == x.child # None
           g == x.gate # 0
           w == WasOpened(x, A)
<1>1. v = [alive |-> x.alive, attempt |-> x.attempt, grant |-> x.grant,
           child |-> c, gate |-> g, opened |-> w,
           reports |-> x.reports, call |-> x.call]
  BY DEF Seen
<1>2. /\ y.alive = x.alive /\ y.attempt = x.attempt /\ y.grant = x.grant
      /\ y.child = x.child /\ y.gate = x.gate /\ y.call = x.call /\ y.reports = r
  BY DEF Report, Helpers
<1> HIDE DEF y
<1>3. Seen(y, A) = [alive |-> x.alive, attempt |-> x.attempt, grant |-> x.grant,
                    child |-> c, gate |-> g, opened |-> w,
                    reports |-> r, call |-> x.call]
  <2>1. WasOpened(y, A) = w
    BY <1>2 DEF WasOpened
  <2> HIDE DEF w, r
  <2> QED  BY <1>2, <2>1 DEF Seen
<1>4. Protocol!Report(v, attempt, event) = [v EXCEPT !.reports = r]
  BY DEF Protocol!Report, Seen
<1> HIDE DEF c, g, w, r, v
<1>5. Seen(y, A) = Protocol!Report(v, attempt, event)
  BY <1>1, <1>3, <1>4
<1> QED  BY <1>5 DEF y, v

\* A helper without a child, between two attempts.
LEMMA IdleGood ==
    ASSUME NEW x, NEW A, Good(x, A), x.child = None, x.reports = <<>>
    PROVE  /\ x.gate = 0 /\ ~x.proved /\ ~WasOpened(x, A)
           /\ \A y \in Helpers :
                /\ y.attempt = x.attempt /\ y.child = None /\ y.gate = 0 /\ ~y.proved
                /\ Ordered(y.reports)
                => Good(y, A)
<1>1. x.gate = 0 /\ ~x.proved
  BY DEF Good, Own
<1>2. ~WasOpened(x, A)
  BY DEF Good, Public, LostLast
<1>3. ASSUME NEW y \in Helpers, y.attempt = x.attempt, y.child = None, y.gate = 0, ~y.proved,
             Ordered(y.reports)
      PROVE  Good(y, A)
  <2>1. ~WasOpened(y, A)
    BY <1>2, <1>3 DEF WasOpened
  <2>2. Own(y)
    BY <1>3 DEF Own
  <2> HIDE DEF WasOpened
  <2>3. Public(y, A)
    BY <1>3, <2>1 DEF Good, Public
  <2> QED  BY <2>2, <2>3 DEF Good
<1> QED  BY <1>1, <1>2, <1>3

LEMMA ReportIdle ==
    ASSUME NEW x, NEW A, Good(x, A), x.child = None, x.reports = <<>>
    PROVE  LET y == Report(x, x.attempt, "lost") IN
           /\ Good(y, A) /\ y.alive = x.alive /\ y.gate = 0
           /\ Seen(y, A) = Protocol!Report(Seen(x, A), x.attempt, "lost")
<1> DEFINE r == Append(x.reports, [attempt |-> x.attempt, event |-> "lost"])
           y == Report(x, x.attempt, "lost")
<1>1. /\ x \in Helpers /\ x.attempt \in Nonces /\ x.reports \in Seq(Reports)
      /\ NoneLost(x.reports)
  BY DEF Good, Own, Helpers, NoneLost
<1>2. r \in Seq(Reports) /\ Ordered(r)
  BY <1>1, ReportLost
<1>3. y = [x EXCEPT !.reports = r]
  BY <1>1 DEF Report, Helpers
<1> HIDE DEF r
<1>4. /\ y \in Helpers /\ y.alive = x.alive /\ y.attempt = x.attempt /\ y.child = None
      /\ y.gate = x.gate /\ y.proved = x.proved /\ y.reports = r
  BY <1>1, <1>2, <1>3 DEF Helpers
<1>5. Seen(y, A) = Protocol!Report(Seen(x, A), x.attempt, "lost")
  BY <1>1, ReportSeen
<1> HIDE DEF y
<1>6. Good(y, A) /\ y.alive = x.alive /\ y.gate = 0
  BY <1>2, <1>4, IdleGood
<1> QED  BY <1>5, <1>6 DEF y

\* A revocation closes the attachment, or ends an attempt before its child.
LEMMA RevokeGood ==
    ASSUME NEW x, NEW A, Good(x, A), NEW reply \in Replies
    PROVE  LET y == Revoke(x, reply) IN
           /\ Good(y, A) /\ y.alive = x.alive /\ (y.gate = x.gate \/ y.gate = 0)
           /\ Seen(y, A) = Protocol!Revoke(Seen(x, A), reply)
<1> DEFINE v == Seen(x, A)
           y == Revoke(x, reply)
<1>1. x \in Helpers
  BY DEF Good, Own
<1>2. /\ v.child = (x.child # None) /\ v.reports = x.reports /\ v.grant = x.grant
      /\ v.attempt = x.attempt
  BY DEF Seen
<1>3. ASSUME NEW z, Good(z, A)
      PROVE  /\ Good(Lose(z), A) /\ Lose(z).alive = z.alive /\ Lose(z).gate = 0
             /\ Seen(Lose(z), A) = Protocol!Closed(Seen(z, A))
             /\ z.gate = 0 => Seen(Lose(z), A) = Seen(z, A)
             /\ Lose(z).child # None <=> z.child # None
  <2>1. z \in Helpers
    BY <1>3 DEF Good, Own
  <2>2. Lose(z).alive = z.alive /\ (Lose(z).child # None <=> z.child # None)
    BY <2>1, LoseIs, StopChildIs DEF IsLost, Helpers
  <2> QED  BY <1>3, <2>2, LoseGood
<1>4. CASE x.child # None /\ reply.cancel = x.grant
  <2>1. y = Lose(x) \/ y = Lose(Lose(x))
    <3> HIDE DEF v
    <3> QED  BY <1>3, <1>4 DEF Revoke
  <2>2. v.child = TRUE
    <3> DEFINE c == x.child # None
    <3>1. v.child = c /\ c = TRUE
      BY <1>2, <1>4
    <3> HIDE DEF c, v
    <3> QED  BY <3>1
  <2>3. Protocol!Revoke(v, reply) = Protocol!Closed(v)
    <3> HIDE DEF v
    <3> QED  BY <1>2, <1>4, <2>2 DEF Protocol!Revoke
  <2>4. Seen(Lose(x), A) = Protocol!Closed(v) /\ Seen(Lose(Lose(x)), A) = Seen(Lose(x), A)
    BY <1>3
  <2> QED  BY <1>3, <2>1, <2>3, <2>4
<1>5. CASE x.child # None /\ reply.cancel # x.grant
  <2>1. y = x \/ (y = Lose(x) /\ x.gate = 0)
    <3> HIDE DEF v
    <3> QED  BY <1>5 DEF Revoke
  <2>2. v.child = TRUE
    <3> DEFINE c == x.child # None
    <3>1. v.child = c /\ c = TRUE
      BY <1>2, <1>5
    <3> HIDE DEF c, v
    <3> QED  BY <3>1
  <2>3. Protocol!Revoke(v, reply) = v
    <3> HIDE DEF v
    <3> QED  BY <1>2, <1>5, <2>2 DEF Protocol!Revoke
  <2> QED  BY <1>3, <2>1, <2>3
<1>6. CASE x.child = None
  <2>1. x.gate = 0 /\ ~x.proved
    BY <1>6 DEF Good, Own
  <2>2. v.child = FALSE
    <3> DEFINE c == x.child # None
    <3>1. v.child = c /\ c = FALSE
      BY <1>2, <1>6
    <3> HIDE DEF c, v
    <3> QED  BY <3>1
  <2>3. CASE ~reply.reset \/ x.reports # <<>>
    <3> HIDE DEF v
    <3>1. y = x
      BY <1>6, <2>1, <2>3 DEF Revoke
    <3>2. Protocol!Revoke(v, reply) = v
      BY <1>2, <2>2, <2>3 DEF Protocol!Revoke
    <3> QED  BY <3>1, <3>2 DEF v
  <2>4. CASE reply.reset /\ x.reports = <<>>
    <3> DEFINE z == [x EXCEPT !.grant = None]
    <3>1. /\ z \in Helpers /\ z.grant = None /\ z.alive = x.alive /\ z.attempt = x.attempt
          /\ z.child = x.child /\ z.gate = x.gate /\ z.proved = x.proved
          /\ z.reports = x.reports /\ z.call = x.call
      BY <1>1 DEF Helpers
    <3>2. y = IF reply.cancel = x.attempt THEN Report(z, x.attempt, "lost") ELSE z
      BY <1>6, <2>1, <2>4 DEF Revoke
    <3> HIDE DEF z
    <3>3. Good(z, A)
      BY <1>6, <2>1, <2>4, <3>1, IdleGood DEF Ordered
    <3>4. Seen(z, A) = [v EXCEPT !.grant = None]
      BY <3>1, GrantSeen
    <3>5. Protocol!Revoke(v, reply) =
            IF reply.cancel = x.attempt
            THEN Protocol!Report([v EXCEPT !.grant = None], x.attempt, "lost")
            ELSE [v EXCEPT !.grant = None]
      <4> HIDE DEF v
      <4> QED  BY <1>2, <2>2, <2>4 DEF Protocol!Revoke
    <3>6. CASE reply.cancel = x.attempt
      BY <1>6, <2>1, <2>4, <3>1, <3>2, <3>3, <3>4, <3>5, <3>6, ReportIdle
    <3>7. CASE reply.cancel # x.attempt
      BY <2>1, <3>1, <3>2, <3>3, <3>4, <3>5, <3>7
    <3> QED  BY <3>6, <3>7
  <2> QED  BY <2>3, <2>4
<1> QED  BY <1>4, <1>5, <1>6

LEMMA AcceptsSeen ==
    ASSUME NEW x, NEW A, NEW call, NEW reply
    PROVE  Accepts(x, call, reply) <=> Protocol!Accepts(Seen(x, A), call, reply)
<1> DEFINE v == Seen(x, A)
           c == x.child # None
<1>1. /\ v.child = c /\ v.reports = x.reports /\ v.grant = x.grant /\ v.attempt = x.attempt
  BY DEF Seen
<1>2. Accepts(x, call, reply) <=>
        /\ reply.grant # None /\ ~reply.reset
        /\ call.event = None /\ ~c /\ x.reports = <<>>
        /\ x.grant = None /\ reply.grant = x.attempt
  BY DEF Accepts
<1> HIDE DEF v, c
<1>3. Accepts(x, call, reply) <=> Protocol!Accepts(v, call, reply)
  BY <1>1, <1>2 DEF Protocol!Accepts
<1> QED  BY <1>3 DEF v

\* A grant gets a child, or ends before one.
LEMMA BeginGood ==
    ASSUME NEW x, NEW A, Good(x, A), x.child = None, x.reports = <<>>, NEW begun \in Outcomes
    PROVE  LET y == Begin(x, begun) IN
           /\ Good(y, A) /\ y.alive = x.alive /\ y.gate = 0
           /\ Seen(y, A) \in Protocol!Sends(Protocol!Begin(Seen(x, A), begun))
<1> DEFINE v == Seen(x, A)
<1>1. x \in Helpers /\ x.attempt \in Nonces /\ v.attempt = x.attempt
  BY DEF Good, Own, Helpers, Seen
<1>2. x.gate = 0 /\ ~x.proved /\ ~WasOpened(x, A)
  BY IdleGood
<1>3. CASE begun = "late"
  <2> DEFINE z == Report(x, x.attempt, "lost")
  <2>1. Good(z, A) /\ z.alive = x.alive /\ z.gate = 0 /\ Seen(z, A) = Protocol!Report(v, x.attempt, "lost")
    BY ReportIdle
  <2>2. z \in Helpers
    BY <2>1 DEF Good, Own
  <2>3. Begin(x, begun) = Send(z) /\ Protocol!Begin(v, begun) = Protocol!Report(v, x.attempt, "lost")
    <3> HIDE DEF v
    <3> QED  BY <1>1, <1>3 DEF Begin, Protocol!Begin
  <2> HIDE DEF z, v
  <2>4. Seen(Send(z), A) \in Protocol!Sends(Protocol!Begin(v, begun))
    BY <2>1, <2>2, <2>3, SendSeen
  <2>5. Good(Send(z), A) /\ Send(z).alive = x.alive /\ Send(z).gate = 0
    BY <2>1, <2>2, SendSame, SameIsGood DEF Same
  <2> QED  BY <2>3, <2>4, <2>5 DEF v
<1>4. CASE begun = "failed"
  <2> DEFINE t == [x EXCEPT !.grant = x.attempt, !.stopping = FALSE, !.proved = FALSE]
             z == Report(t, x.attempt, "lost")
  <2>1. /\ t \in Helpers /\ t.grant = x.attempt /\ t.alive = x.alive /\ t.attempt = x.attempt
        /\ t.child = x.child /\ t.gate = x.gate /\ t.proved = FALSE
        /\ t.reports = x.reports /\ t.call = x.call
    BY <1>1 DEF Helpers
  <2>2. Begin(x, begun) = z
    BY <1>4 DEF Begin
  <2>3. Protocol!Begin(v, begun) = Protocol!Report([v EXCEPT !.grant = x.attempt], x.attempt, "lost")
    <3> HIDE DEF v
    <3> QED  BY <1>1, <1>4 DEF Protocol!Begin
  <2> HIDE DEF t, v
  <2>4. Good(t, A)
    BY <1>2, <2>1, IdleGood DEF Ordered
  <2>5. Seen(t, A) = [v EXCEPT !.grant = x.attempt]
    BY <2>1, GrantSeen DEF v
  <2>6. Good(z, A) /\ z.alive = x.alive /\ z.gate = 0 /\ Seen(z, A) = Protocol!Begin(v, begun)
    BY <2>1, <2>3, <2>4, <2>5, ReportIdle
  <2> QED  BY <2>2, <2>6 DEF Protocol!Sends, v
<1>5. CASE begun = "started"
  <2> DEFINE k == NewChild(x.attempt)
             z == [x EXCEPT !.grant = x.attempt, !.stopping = FALSE, !.proved = FALSE,
                            !.slot = TRUE, !.child = k]
             g == x.gate # 0
             w == WasOpened(x, A)
             no == FALSE
             yes == TRUE
  <2>1. Begin(x, begun) = z
    BY <1>5 DEF Begin
  <2>2. k \in Children /\ k.attempt = x.attempt /\ Fits(k)
    BY <1>1 DEF NewChild, Children, Fits
  <2>3. k # None
    BY <2>2, SupervisorConstants
  <2> HIDE DEF k
  <2>4. /\ z \in Helpers /\ z.grant = x.attempt /\ z.alive = x.alive /\ z.attempt = x.attempt
        /\ z.child = k /\ z.gate = x.gate /\ z.proved = FALSE /\ z.slot = TRUE
        /\ z.stopping = FALSE /\ z.reports = x.reports /\ z.call = x.call
    BY <1>1, <2>2 DEF Helpers
  <2> HIDE DEF z, v
  <2>5. WasOpened(z, A) = w
    BY <2>4 DEF WasOpened
  <2>6. Own(z)
    BY <1>2, <2>2, <2>4 DEF Own, NoneLost, Ordered
  <2>7. Public(z, A)
    <3> HIDE DEF WasOpened
    <3> QED  BY <1>2, <2>3, <2>4, <2>5 DEF Good, Public
  <2>8. Seen(z, A) = [alive |-> x.alive, attempt |-> x.attempt, grant |-> x.attempt,
                      child |-> yes, gate |-> g, opened |-> w,
                      reports |-> x.reports, call |-> x.call]
    <3>1. (z.child # None) = TRUE /\ (z.gate # 0) = g
      BY <2>3, <2>4
    <3> HIDE DEF WasOpened, g, w
    <3> QED  BY <2>4, <2>5, <3>1, Zenon DEF Seen
  <2>9. v = [alive |-> x.alive, attempt |-> x.attempt, grant |-> x.grant,
             child |-> no, gate |-> g, opened |-> w,
             reports |-> x.reports, call |-> x.call]
    <3>1. (x.child # None) = FALSE
      OBVIOUS
    <3> QED  BY <3>1, Zenon DEF v, Seen
  <2>10. Protocol!Begin(v, begun) = [v EXCEPT !.grant = x.attempt, !.child = yes]
    BY <1>1, <1>5 DEF Protocol!Begin
  <2> HIDE DEF g, w, no, yes
  <2>11. Seen(z, A) = Protocol!Begin(v, begun)
    BY <2>8, <2>9, <2>10
  <2> QED  BY <1>2, <2>1, <2>4, <2>6, <2>7, <2>11 DEF Good, Protocol!Sends, v
<1> QED  BY <1>3, <1>4, <1>5 DEF Outcomes

\* A reply, from the acknowledgement to the call that may follow it.
LEMMA OnReplyAnswers ==
    ASSUME NEW x, NEW A, Good(x, A), x.call # None,
           x.call.event = "lost" => x.attempt < MaxAttempts,
           NEW reply \in Replies, NEW begun \in Outcomes, NEW due \in BOOLEAN
    PROVE  LET y == OnReply(x, reply, begun, due) IN
           /\ Sound(y, A) /\ (y.gate # 0 => x.gate # 0)
           /\ Seen(y, A) \in Protocol!Answered(Seen(x, A), reply, begun)
<1> DEFINE v == Seen(x, A)
           x1 == [Acknowledge(x) EXCEPT !.call = None]
           x2 == Revoke(x1, reply)
           accepted == Accepts(x2, x.call, reply)
           x3 == IF accepted THEN Begin(x2, begun) ELSE x2
           x4 == IF x3.reports # <<>> \/ x3.retry THEN Send(x3) ELSE x3
           x5 == AwaitAdmission(x4, reply, due)
           v1 == [Protocol!Acknowledge(v) EXCEPT !.call = None]
           v2 == Protocol!Revoke(v1, reply)
           v3 == IF accepted THEN Protocol!Begin(v2, begun) ELSE v2
<1>1. OnReply(x, reply, begun, due) =
        IF reply.ended THEN Return(x1) ELSE IF accepted /\ begun = "late" THEN x3 ELSE x5
  BY DEF OnReply
<1>2. Good(x1, A) /\ x1.gate = x.gate /\ Seen(x1, A) = v1
  BY AcknowledgeGood
<1>3. /\ Good(x2, A) /\ (x2.gate # 0 => x.gate # 0) /\ Seen(x2, A) = v2
  <2> HIDE DEF x1, v1
  <2> QED  BY <1>2, RevokeGood
<1>4. accepted <=> Protocol!Accepts(v2, x.call, reply)
  <2> HIDE DEF x2, v2
  <2> QED  BY <1>3, AcceptsSeen
<1>5. Protocol!Answered(v, reply, begun) =
        IF reply.ended THEN {Protocol!Returned(v1)} ELSE Protocol!Sends(v3)
  <2>1. v.call = x.call
    BY DEF Seen
  <2> HIDE DEF accepted, v
  <2> QED  BY <1>4, <2>1 DEF Protocol!Answered
<1> HIDE DEF x1, x2, v1, v2
<1>6. CASE reply.ended
  <2>1. x1 \in Helpers
    BY <1>2 DEF Good, Own
  <2>2. Sound(Return(x1), A) /\ Return(x1).gate = 0
        /\ Seen(Return(x1), A) = Protocol!Returned(v1)
    BY <1>2, <2>1, ReturnSound
  <2> HIDE DEF v
  <2> QED  BY <1>1, <1>5, <1>6, <2>2 DEF v
<1>7. CASE ~reply.ended
  <2>1. DOMAIN v2 = Fields
    BY <1>3, SeenFields
  <2>2. DOMAIN v3 = Fields
    <3>1. DOMAIN Protocol!Begin(v2, begun) = Fields
      BY <2>1 DEF Protocol!Begin, Protocol!Report, Outcomes
    <3> QED  BY <2>1, <3>1
  <2>3. Good(x3, A) /\ (x3.gate # 0 => x.gate # 0) /\ Seen(x3, A) \in Protocol!Sends(v3)
    <3>1. CASE accepted
      <4>1. x2.child = None /\ x2.reports = <<>>
        BY <3>1 DEF Accepts
      <4> HIDE DEF accepted
      <4> QED  BY <1>3, <3>1, <4>1, BeginGood
    <3>2. CASE ~accepted
      <4> HIDE DEF accepted
      <4> QED  BY <1>3, <3>2 DEF Protocol!Sends
    <3> QED  BY <3>1, <3>2
  <2> HIDE DEF x3, v3
  <2>4. x3 \in Helpers
    BY <2>3 DEF Good, Own
  <2>5. x4 \in Helpers /\ Same(x4, x3) /\ Seen(x4, A) \in Protocol!Sends(v3)
    <3>1. Seen(Send(x3), A) \in Protocol!Sends(Seen(x3, A))
      BY <2>4, SendSeen
    <3>2. Seen(Send(x3), A) \in Protocol!Sends(v3)
      BY <2>2, <2>3, <3>1, SendsTwice
    <3> QED  BY <2>3, <2>4, <3>2, SendSame DEF Same
  <2>6. Good(x4, A) /\ (x4.gate # 0 => x.gate # 0)
    BY <2>3, <2>5, SameIsGood DEF Same
  <2> HIDE DEF x4
  <2>7. x5 \in Helpers /\ Same(x5, x4) /\ x5.call = x4.call
    BY <2>5 DEF AwaitAdmission, Helpers, Same
  <2> HIDE DEF x5
  <2>8. Good(x5, A) /\ (x5.gate # 0 => x.gate # 0)
    BY <2>6, <2>7, SameIsGood DEF Same
  <2>9. Seen(x5, A) = Seen(x4, A)
    <3>1. Seen(x5, A) = [Seen(x4, A) EXCEPT !.call = x4.call]
      BY <2>7, SameIsSeen
    <3> QED  BY <3>1 DEF Seen
  <2> HIDE DEF accepted, v
  <2> QED  BY <1>1, <1>5, <1>7, <2>3, <2>5, <2>8, <2>9 DEF Sound, v
<1> QED  BY <1>6, <1>7

-----------------------------------------------------------------------------
(* The steps of the specification.                                         *)

SupervisorInv == Sound(h, announced) /\ PasteReachesOrigin

\* A step of the loop from x to y that is not about its control call.
Works(y, x, A) ==
    LET B == After(y, x, A) IN Sound(y, B) /\ Seen(y, B) \in Protocol!Changes(Seen(x, A))

\* What a step of the loop from x to y is to the other processes.
Moves(y, x, A) ==
    LET B == After(y, x, A) v == Seen(x, A) IN
    /\ Sound(y, B)
    /\ \/ Seen(y, B) \in Protocol!Changes(v)
       \/ v.call # None /\ Seen(y, B) = Protocol!CallDropped(v)
       \/ /\ v.call # None
          /\ \E reply \in Protocol!Replies, begun \in Protocol!Outcomes :
                Seen(y, B) \in Protocol!Answered(v, reply, begun)

LEMMA BecomesMoves ==
    ASSUME NEW x, Becomes(x), Moves(x, h, announced)
    PROVE  Sound(h', announced') /\ Protocol!Step
<1>1. h' = x /\ announced' = After(x, h, announced) /\ h.alive
  BY DEF Becomes, After
<1>2. View(h) = Seen(h, announced) /\ View(h)' = Seen(h', announced')
  BY DEF View, Seen, WasOpened
<1>3. Seen(h, announced).alive
  BY <1>1 DEF Seen
<1> QED  BY <1>1, <1>2, <1>3 DEF Moves, Protocol!Step

\* A step that announces nothing, seen as a call or as nothing.
LEMMA SendsWork ==
    ASSUME NEW x, NEW A, NEW y, Good(y, A), y.gate = x.gate,
           Seen(y, A) \in Protocol!Sends(Seen(x, A))
    PROVE  Works(y, x, A)
<1>1. After(y, x, A) = A
  BY DEF After
<1>2. Seen(y, A) \in Protocol!Changes(Seen(x, A))
  BY DEF Protocol!Changes
<1> QED  BY <1>1, <1>2 DEF Works, Sound

LEMMA StepsWork ==
    ASSUME NEW x, NEW A, NEW y, Steps(y, After(y, x, A), x, A)
    PROVE  Works(y, x, A)
BY DEF Steps, Works, Sound

LEMMA SelectWorks ==
    ASSUME NEW x, NEW A, Good(x, A)
    PROVE  /\ \A y \in InputSteps(x) \cup OutputSteps(x) \cup TickerSteps(x) : Works(y, x, A)
           /\ \A y \in DoneSteps(x) \cup AdmissionSteps(x) \cup ChildSteps(x) : Works(y, x, A)
<1>1. ASSUME NEW z, Before(z, x, A), NEW overdue, NEW boundary, NEW drawn
      PROVE  Works(Open(z, overdue, boundary, drawn), x, A)
  BY <1>1, SettledSteps, StepsWork
<1>2. ASSUME NEW y \in InputSteps(x) PROVE Works(y, x, A)
  <2>1. \A written : Before(Typed(x, written), x, A)
    BY TypedBefore
  <2>2. Before(Enter(x), x, A)
    BY EnterBefore
  <2> QED  BY <1>1, <2>1, <2>2 DEF InputSteps, Settled
<1>3. ASSUME NEW y \in OutputSteps(x) PROVE Works(y, x, A)
  <2>1. x.child # None /\ x.child.queue # <<>>
    BY <1>3 DEF OutputSteps
  <2>2. \A kept : Before(OnPacket(x, kept), x, A)
    BY <2>1, OnPacketBefore
  <2> QED  BY <1>1, <1>3, <2>1, <2>2 DEF OutputSteps, Settled
<1>4. ASSUME NEW y \in TickerSteps(x) PROVE Works(y, x, A)
  <2>1. ASSUME NEW overdue, NEW boundary, NEW drawn
        PROVE  Works(OnTicker(x, overdue, boundary, drawn), x, A)
    BY TickerSteps_, StepsWork
  <2> QED  BY <1>4, <2>1 DEF TickerSteps
<1>5. ASSUME NEW y \in DoneSteps(x) PROVE Works(y, x, A)
  <2>1. x.child # None /\ y = OnDone(x)
    BY <1>5 DEF DoneSteps
  <2>2. Sound(y, A) /\ y.gate = 0 /\ Seen(y, A) \in Protocol!Changes(Seen(x, A))
    BY <2>1, OnDoneSteps
  <2> QED  BY <2>2 DEF Works, After
<1>6. ASSUME NEW y \in AdmissionSteps(x) PROVE Works(y, x, A)
  <2> DEFINE z == [x EXCEPT !.polling = FALSE]
  <2>1. y = Send(z)
    BY <1>6 DEF AdmissionSteps, OnAdmission
  <2>2. z \in Helpers /\ Same(z, x) /\ z.call = x.call
    BY DEF Good, Own, Helpers, Same
  <2> HIDE DEF z
  <2> QED  BY <2>1, <2>2, SendsFrom, SendsWork
<1>7. ASSUME NEW y \in ChildSteps(x) PROVE Works(y, x, A)
  BY <1>7, ChildSilent, SendsWork DEF Protocol!Sends
<1> QED  BY <1>2, <1>3, <1>4, <1>5, <1>6, <1>7

LEMMA WorksMoves == ASSUME NEW x, NEW A, NEW y, Works(y, x, A) PROVE Moves(y, x, A)
BY DEF Works, Moves

\* The loop keeps the invariant, and implements a step of the protocol.
LEMMA NextMoves ==
    ASSUME SupervisorInv, Next
    PROVE  SupervisorInv' /\ Protocol!Step
<1> DEFINE A == announced
           v == Seen(h, A)
           mine(origin) == h.child # None /\ h.gate # 0 /\ origin = Origin(h)
<1>1. h.alive
  BY DEF Next, Input, TerminalCloses, Output, Done, Admission, Ticker, Child, LocalPaste,
         CallFails, CallReturns, Becomes
<1>2. Good(h, A) /\ h \in Helpers
  BY <1>1 DEF SupervisorInv, Sound, Good, Own
<1>3. ASSUME NEW x, Becomes(x), Moves(x, h, A), UNCHANGED pasted
      PROVE  SupervisorInv' /\ Protocol!Step
  <2>1. Sound(h', announced') /\ Protocol!Step
    BY <1>3, BecomesMoves
  <2>2. PasteReachesOrigin'
    BY <1>3 DEF SupervisorInv, PasteReachesOrigin
  <2> QED  BY <2>1, <2>2 DEF SupervisorInv
<1>4. CASE Input \/ Output \/ Ticker
  <2>1. PICK x \in InputSteps(h) \cup OutputSteps(h) \cup TickerSteps(h) :
           Becomes(x) /\ UNCHANGED pasted
    BY <1>4 DEF Input, Output, Ticker
  <2> QED  BY <1>2, <1>3, <2>1, SelectWorks, WorksMoves
<1>5. CASE Done \/ Admission \/ Child
  <2>1. PICK x \in DoneSteps(h) \cup AdmissionSteps(h) \cup ChildSteps(h) :
           Becomes(x) /\ UNCHANGED pasted
    BY <1>5 DEF Done, Admission, Child
  <2> QED  BY <1>2, <1>3, <2>1, SelectWorks, WorksMoves
<1>6. CASE TerminalCloses
  <2>1. Sound(Return(h), A) /\ Return(h).gate = 0 /\ Seen(Return(h), A) = Protocol!Returned(v)
    BY <1>2, ReturnSound
  <2>2. Moves(Return(h), h, A)
    BY <2>1 DEF Moves, After, Protocol!Changes
  <2> QED  BY <1>3, <1>6, <2>2 DEF TerminalCloses
<1>7. ASSUME NEW origin \in announced, NEW written \in BOOLEAN, LocalPaste(origin, written)
      PROVE  SupervisorInv' /\ Protocol!Step
  <2> DEFINE x == IF mine(origin) /\ ~written THEN Lose(h) ELSE h
  <2>1. /\ Becomes(x)
        /\ pasted' = IF mine(origin) THEN [origin |-> origin, attempt |-> h.child.attempt] ELSE pasted
    BY <1>7 DEF LocalPaste
  <2>2. Moves(h, h, A)
    BY <1>2, SendsWork, WorksMoves DEF Protocol!Sends
  <2>3. Moves(Lose(h), h, A)
    BY <1>2, LoseGood DEF Moves, After, Sound, Protocol!Changes
  <2>4. Moves(x, h, A)
    BY <2>2, <2>3
  <2> HIDE DEF x
  <2>5. Sound(h', announced') /\ Protocol!Step
    BY <2>1, <2>4, BecomesMoves
  <2>6. PasteReachesOrigin'
    <3>1. CASE mine(origin)
      <4>1. origin.attempt = h.grant /\ h.child.attempt = h.attempt /\ h.grant = h.attempt
        BY <1>2, <3>1 DEF Origin, Good, Own
      <4> QED  BY <2>1, <3>1, <4>1 DEF PasteReachesOrigin
    <3>2. CASE ~mine(origin)
      BY <2>1, <3>2 DEF SupervisorInv, PasteReachesOrigin
    <3> QED  BY <3>1, <3>2
  <2> QED  BY <2>5, <2>6 DEF SupervisorInv
<1>8. CASE CallFails
  <2> DEFINE y == OnCallError(h)
  <2>1. h.call # None /\ Becomes(y) /\ UNCHANGED pasted
    BY <1>8 DEF CallFails
  <2>2. Good(y, A) /\ y.gate = h.gate /\ Seen(y, A) = Protocol!CallDropped(v)
    BY <1>2, <2>1, CallErrorDrops
  <2>3. v.call # None
    BY <2>1 DEF Seen
  <2> HIDE DEF y
  <2>4. Moves(y, h, A)
    BY <2>2, <2>3 DEF Moves, After, Sound
  <2> QED  BY <1>3, <2>1, <2>4
<1>9. ASSUME NEW reply \in Replies, CallReturns(reply)
      PROVE  SupervisorInv' /\ Protocol!Step
  <2>1. PICK begun \in Outcomes, due \in BOOLEAN : Becomes(OnReply(h, reply, begun, due))
    BY <1>9 DEF CallReturns, ReplySteps
  <2> DEFINE y == OnReply(h, reply, begun, due)
  <2>2. h.call # None /\ (h.call.event = "lost" => h.attempt < MaxAttempts) /\ UNCHANGED pasted
    BY <1>9 DEF CallReturns
  <2>3. /\ Sound(y, A) /\ (y.gate # 0 => h.gate # 0)
        /\ Seen(y, A) \in Protocol!Answered(v, reply, begun)
    BY <1>2, <2>2, OnReplyAnswers
  <2>4. v.call # None /\ reply \in Protocol!Replies /\ begun \in Protocol!Outcomes
    BY <2>2 DEF Seen, Replies, Nonces, Outcomes,
                Protocol!Replies, Protocol!Attempts, Protocol!Outcomes
  <2> HIDE DEF y
  <2>5. Moves(y, h, A)
    BY <2>3, <2>4 DEF Moves, After
  <2> QED  BY <1>3, <2>1, <2>2, <2>5 DEF y
<1> QED  BY <1>4, <1>5, <1>6, <1>7, <1>8, <1>9 DEF Next

LEMMA InitGood ==
    ASSUME Init
    PROVE  SupervisorInv /\ Protocol!Init
<1>1. NewHelper \in Helpers
  BY SupervisorConstants DEF NewHelper, Helpers, Nonces
<1>2. Good(NewHelper, {}) /\ ~WasOpened(NewHelper, {})
  BY <1>1 DEF Good, Own, Public, NewHelper, Ordered, WasOpened
<1>3. Send(NewHelper) \in Helpers /\ Same(Send(NewHelper), NewHelper)
  BY <1>1, SendSame
<1>4. Good(h, announced)
  BY <1>2, <1>3, SameIsGood DEF Init
<1>5. Seen(NewHelper, {}) = Protocol!NewHelper
  <2>1. (WasOpened(NewHelper, {}) = FALSE) /\ (NewHelper.child # None) = FALSE
        /\ (NewHelper.gate # 0) = FALSE
    BY <1>2 DEF NewHelper
  <2> HIDE DEF WasOpened
  <2> QED  BY <2>1 DEF Seen, NewHelper, Protocol!NewHelper
<1>6. Seen(Send(NewHelper), {}) \in Protocol!Sends(Protocol!NewHelper)
  BY <1>1, <1>5, SendSeen
<1>7. View(h) = Seen(h, announced)
  BY DEF View, Seen, WasOpened
<1> QED  BY <1>4, <1>6, <1>7 DEF Init, Protocol!Init, SupervisorInv, Sound, PasteReachesOrigin

LEMMA StutterKeeps ==
    ASSUME SupervisorInv, UNCHANGED vars
    PROVE  SupervisorInv' /\ UNCHANGED View(h)
<1>1. View(h) = Seen(h, announced) /\ View(h)' = Seen(h', announced')
  BY DEF View, Seen, WasOpened
<1>2. h' = h /\ announced' = announced /\ pasted' = pasted
  BY DEF vars
<1> QED  BY <1>1, <1>2 DEF SupervisorInv, PasteReachesOrigin

LEMMA SupervisorInvariant == Spec => []SupervisorInv
<1>1. Init => SupervisorInv
  BY InitGood
<1>2. SupervisorInv /\ [Next]_vars => SupervisorInv'
  BY NextMoves, StutterKeeps
<1> QED  BY <1>1, <1>2, PTL DEF Spec

-----------------------------------------------------------------------------
(* Theorems.                                                               *)

\* Terminal input goes to a child only after that child, still wanted, has
\* proved its attachment (open, session_supervisor.go, lines 262-290).
THEOREM InputOnlyToProvedHolds == Spec => []InputOnlyToProved
<1>1. SupervisorInv => InputOnlyToProved
  BY DEF SupervisorInv, Sound, Good, Own, Public, InputOnlyToProved
<1> QED  BY <1>1, SupervisorInvariant, PTL

\* Until its readiness is announced a child keeps its kernel slot, however
\* often its input is lost or its attempt revoked (session_admission.go).
THEOREM SlotCoversChildHolds == Spec => []SlotCoversChild
<1>1. SupervisorInv => SlotCoversChild
  BY DEF SupervisorInv, Sound, Good, Own, Public, WasOpened, SlotCoversChild
<1> QED  BY <1>1, SupervisorInvariant, PTL

\* A paste is written to the attachment it was captured for, or nowhere
\* (session_supervisor.go, lines 309-324).
THEOREM PasteReachesOriginHolds == Spec => []PasteReachesOrigin
<1>1. SupervisorInv => PasteReachesOrigin
  BY DEF SupervisorInv
<1> QED  BY <1>1, SupervisorInvariant, PTL

\* The event loop, with its child, its gate and its history, implements the
\* protocol that the coordinator and the connections rely on.
THEOREM ImplementsProtocolHolds == Spec => ImplementsProtocol
<1>1. Init => Protocol!Init
  BY InitGood
<1>2. SupervisorInv /\ [Next]_vars => [Protocol!Step]_(View(h))
  BY NextMoves, StutterKeeps
<1> QED  BY <1>1, <1>2, SupervisorInvariant, PTL DEF Spec, ImplementsProtocol, Protocol!Spec

-----------------------------------------------------------------------------
(* A mirrored terminal without a coordinator: the control, and what others *)
(* see of the loop.                                                        *)

\* No call reports the loss of an attempt that still has its child.
Unlost(v) == v.child /\ v.call # None => v.call.event # "lost"

\* What is known of a reply that the loop has not taken yet.
Due(c, reply) ==
    /\ reply \in Replies /\ ~reply.ended /\ ~reply.reset
    /\ reply.grant # None => reply.grant = c.attempt

Controls == [attempt : Nonces \cup {None}, started : BOOLEAN, retryPending : BOOLEAN]

ManualInv ==
    /\ SupervisorInv
    /\ control \in Controls
    /\ h.child # None => control.attempt = h.attempt
    /\ Unlost(Seen(h, announced))
    /\ h.alive /\ answer # None => h.call # None /\ Due(control, answer)

-----------------------------------------------------------------------------
(* The control.                                                            *)

\* What a call leaves of the attempt; a reply grants no other one.
LEMMA ExchangeKeeps ==
    ASSUME NEW c \in Controls, NEW request \in Calls
    PROVE  LET d == Exchange(c, request) IN
           /\ d \in Controls /\ Due(d, Answer(d, request))
           /\ request.event # "lost" /\ c.attempt # None => d.attempt = c.attempt
<1> DEFINE r == Reported(c, request)
           a == Asking(r, request)
           d == Granting(a, request)
<1>1. request.attempt \in Nonces /\ request.retry \in BOOLEAN
  BY DEF Calls
<1>2. r \in Controls /\ (request.event # "lost" => r.attempt = c.attempt)
  BY DEF Reported, Controls
<1>3. a \in Controls /\ a.attempt = r.attempt
  <2> HIDE DEF r
  <2> QED  BY <1>1, <1>2 DEF Asking, Controls
<1>4. d \in Controls /\ (a.attempt # None => d.attempt = a.attempt)
  <2> HIDE DEF a
  <2> QED  BY <1>1, <1>3 DEF Granting, Controls
<1>5. Exchange(c, request) = d
  BY DEF Exchange
<1> HIDE DEF d
<1>6. Due(d, Answer(d, request))
  BY <1>4 DEF Answer, Due, Replies, Controls
<1> QED  BY <1>2, <1>3, <1>4, <1>5, <1>6

-----------------------------------------------------------------------------
(* The views.                                                              *)

\* A call made on the way from v carries the first report, if there is one.
Carries(v, w) ==
    IF v.reports = <<>> THEN w.call.event = None
    ELSE w.call.event = Head(v.reports).event

LEMMA SendsCarry ==
    ASSUME NEW v, DOMAIN v = Fields, NEW w \in Protocol!Sends(v)
    PROVE  /\ DOMAIN w = Fields /\ w.alive = v.alive /\ w.attempt = v.attempt
           /\ w.child = v.child /\ w.reports = v.reports
           /\ w.call = v.call \/ (v.call = None /\ Carries(v, w))
BY DEF Protocol!Sends, Protocol!Send, Carries, Fields

LEMMA HeadNotLost ==
    ASSUME NEW reports \in Seq(Reports), NoneLost(reports), reports # <<>>
    PROVE  Head(reports).event # "lost"
BY DEF NoneLost

\* Sending from a view whose child is not reported lost.
LEMMA SendsUnlost ==
    ASSUME NEW v, DOMAIN v = Fields, Unlost(v), NEW w \in Protocol!Sends(v),
           v.child => v.reports \in Seq(Reports) /\ NoneLost(v.reports)
    PROVE  Unlost(w)
<1>1. CASE w.call = v.call
  BY <1>1, SendsCarry DEF Unlost
<1>2. CASE w.call # v.call
  <2>1. w.child = v.child /\ Carries(v, w)
    BY <1>2, SendsCarry
  <2>2. ASSUME v.child PROVE w.call.event # "lost"
    <3>1. CASE v.reports = <<>>
      BY <2>1, <3>1, ManualConstants DEF Carries
    <3>2. CASE v.reports # <<>>
      BY <2>1, <2>2, <3>2, HeadNotLost DEF Carries
    <3> QED  BY <3>1, <3>2
  <2> QED  BY <2>1, <2>2 DEF Unlost
<1> QED  BY <1>1, <1>2

\* The loop's own steps bring no child and no attempt about, drop no call,
\* and report no loss before the reap.
LEMMA ChangesKeep ==
    ASSUME NEW v, DOMAIN v = Fields, Unlost(v), NEW w \in Protocol!Changes(v),
           v.child \in BOOLEAN,
           v.child => v.reports \in Seq(Reports) /\ NoneLost(v.reports),
           w.child => w.reports \in Seq(Reports) /\ NoneLost(w.reports)
    PROVE  /\ Unlost(w)
           /\ w.child => v.child /\ w.attempt = v.attempt
           /\ w.alive /\ v.call # None => w.call # None
<1>1. CASE w \in Protocol!Sends(v)
  BY <1>1, SendsUnlost, SendsCarry
<1>2. CASE w = Protocol!Closed(v)
  BY <1>2 DEF Protocol!Closed, Fields, Unlost
<1>3. CASE w = Protocol!Returned(v)
  BY <1>3 DEF Protocol!Returned, Fields, Unlost
<1>4. ASSUME v.child, NEW y \in Protocol!Sends(v), w \in Protocol!Sends(Protocol!Opened(y))
      PROVE  /\ Unlost(w) /\ w.attempt = v.attempt
             /\ v.call # None => w.call # None
  <2> DEFINE z == Protocol!Opened(y)
  <2>1. /\ DOMAIN y = Fields /\ y.attempt = v.attempt /\ y.child = v.child
        /\ Unlost(y) /\ (v.call # None => y.call = v.call)
    BY SendsCarry, SendsUnlost
  <2>2. DOMAIN z = Fields /\ z.attempt = y.attempt /\ z.child = y.child /\ z.call = y.call
    BY <2>1 DEF Protocol!Opened, Protocol!Report, Fields
  <2> HIDE DEF z
  <2>3. w \in Protocol!Sends(z)
    BY <1>4 DEF z
  <2>4. /\ w.attempt = z.attempt /\ w.child = z.child /\ w.reports = z.reports
        /\ (z.call # None => w.call = z.call)
    BY <2>2, <2>3, SendsCarry
  <2>5. Unlost(w)
    BY <1>4, <2>1, <2>2, <2>3, <2>4, SendsUnlost DEF Unlost
  <2> QED  BY <2>1, <2>2, <2>4, <2>5
<1>5. ASSUME w \in Protocol!Sends(Protocol!Reaped(v))
      PROVE  ~w.child /\ (v.call # None => w.call # None)
  <2> DEFINE z == Protocol!Reaped(v)
  <2>1. DOMAIN z = Fields /\ z.child = FALSE /\ z.call = v.call
    BY DEF Protocol!Reaped, Protocol!Report, Fields
  <2> HIDE DEF z
  <2> QED  BY <1>5, <2>1, SendsCarry DEF z
<1>6. \/ w \in Protocol!Sends(v) \/ w = Protocol!Closed(v) \/ w = Protocol!Returned(v)
      \/ v.child /\ \E y \in Protocol!Sends(v) : w \in Protocol!Sends(Protocol!Opened(y))
      \/ w \in Protocol!Sends(Protocol!Reaped(v))
  BY DEF Protocol!Changes
<1>7. CASE v.child /\ \E y \in Protocol!Sends(v) : w \in Protocol!Sends(Protocol!Opened(y))
  BY <1>4, <1>7
<1>8. CASE w \in Protocol!Sends(Protocol!Reaped(v))
  BY <1>5, <1>8 DEF Unlost
<1> QED  BY <1>1, <1>2, <1>3, <1>6, <1>7, <1>8

\* A reply of the control leaves the child its attempt, or begins the granted one.
LEMMA AnsweredKeep ==
    ASSUME NEW v, DOMAIN v = Fields, Unlost(v), v.call # None, v.child \in BOOLEAN,
           NEW c, NEW reply, Due(c, reply), NEW begun \in Protocol!Outcomes,
           NEW w \in Protocol!Answered(v, reply, begun),
           w.child => w.reports \in Seq(Reports) /\ NoneLost(w.reports)
    PROVE  /\ Unlost(w)
           /\ w.child => (v.child /\ w.attempt = v.attempt) \/ w.attempt = c.attempt
<1> DEFINE y == [Protocol!Acknowledge(v) EXCEPT !.call = None]
           z == Protocol!Revoke(y, reply)
           accepted == Protocol!Accepts(z, v.call, reply)
           b == IF accepted THEN Protocol!Begin(z, begun) ELSE z
<1>1. ~reply.ended /\ ~reply.reset /\ (reply.grant # None => reply.grant = c.attempt)
  BY DEF Due
<1>2. w \in Protocol!Sends(b)
  BY <1>1 DEF Protocol!Answered
<1>3. /\ DOMAIN y = Fields /\ y.child = v.child /\ y.call = None
      /\ v.child => y.attempt = v.attempt
  BY DEF Protocol!Acknowledge, Unlost, Fields
<1> HIDE DEF y
<1>4. DOMAIN z = Fields /\ z.child = y.child /\ z.call = None /\ z.attempt = y.attempt
  BY <1>1, <1>3 DEF Protocol!Revoke, Protocol!Closed, Fields
<1> HIDE DEF z
<1>5. /\ DOMAIN b = Fields /\ b.call = None
      /\ b.attempt = z.attempt /\ (b.child => z.child \/ accepted)
  BY <1>4 DEF Protocol!Begin, Protocol!Report, Protocol!Outcomes, Fields
<1>6. accepted => z.attempt = c.attempt
  BY <1>1 DEF Protocol!Accepts
<1> HIDE DEF b, accepted
<1>7. w.attempt = b.attempt /\ w.child = b.child /\ w.reports = b.reports
  BY <1>2, <1>5, SendsCarry
<1>8. Unlost(w)
  BY <1>2, <1>5, <1>7, SendsUnlost DEF Unlost
<1> QED  BY <1>3, <1>4, <1>5, <1>6, <1>7, <1>8

-----------------------------------------------------------------------------
(* The steps.                                                              *)

LEMMA SeenOfSound ==
    ASSUME NEW x, NEW A, Sound(x, A)
    PROVE  LET v == Seen(x, A) IN
           /\ DOMAIN v = Fields /\ v.child \in BOOLEAN /\ v.child = (x.child # None)
           /\ v.call = x.call /\ v.attempt = x.attempt /\ v.alive = x.alive
           /\ v.child => v.reports \in Seq(Reports) /\ NoneLost(v.reports)
BY DEF Sound, Good, Own, Helpers, Seen, Fields

\* A step of the loop beside its call.
LEMMA WorksKeep ==
    ASSUME ManualInv, NEW x, Becomes(x), Works(x, h, announced),
           UNCHANGED <<pasted, control>>, CallGoesOn
    PROVE  ManualInv'
<1> DEFINE v == Seen(h, announced)
           w == Seen(h', announced')
<1>1. h' = x /\ announced' = After(x, h, announced) /\ h.alive
  BY DEF Becomes, After
<1>2. Sound(h', announced') /\ w \in Protocol!Changes(v)
  BY <1>1 DEF Works
<1>3. SupervisorInv'
  BY <1>2 DEF ManualInv, SupervisorInv, PasteReachesOrigin
<1>4. Sound(h, announced) /\ Unlost(v)
  BY DEF ManualInv, SupervisorInv
<1>5. /\ DOMAIN v = Fields /\ v.child \in BOOLEAN /\ v.child = (h.child # None)
      /\ v.call = h.call /\ v.attempt = h.attempt
      /\ v.child => v.reports \in Seq(Reports) /\ NoneLost(v.reports)
  BY <1>4, SeenOfSound
<1>6. /\ w.child = (h'.child # None) /\ w.call = h'.call /\ w.attempt = h'.attempt
      /\ w.alive = h'.alive
      /\ w.child => w.reports \in Seq(Reports) /\ NoneLost(w.reports)
  BY <1>2, SeenOfSound
<1> HIDE DEF v, w
<1>7. /\ Unlost(w)
      /\ w.child => v.child /\ w.attempt = v.attempt
      /\ w.alive /\ v.call # None => w.call # None
  BY <1>2, <1>4, <1>5, <1>6, ChangesKeep
<1>8. h'.child # None => control'.attempt = h'.attempt
  BY <1>5, <1>6, <1>7 DEF ManualInv
<1>9. h'.alive /\ answer' # None => h'.call # None /\ Due(control', answer')
  BY <1>1, <1>5, <1>6, <1>7 DEF ManualInv, CallGoesOn
<1>10. control' \in Controls
  BY DEF ManualInv
<1> QED  BY <1>3, <1>7, <1>8, <1>9, <1>10 DEF ManualInv, w

LEMMA ManualInitGood == ManualInit => ManualInv
<1> SUFFICES ASSUME ManualInit PROVE ManualInv
  OBVIOUS
<1>1. SupervisorInv
  BY InitGood DEF ManualInit
<1>2. NewHelper \in Helpers
  BY SupervisorConstants DEF NewHelper, Helpers, Nonces
<1>3. h.child = None
  BY <1>2, SendSame DEF ManualInit, Init, Same, NewHelper
<1>4. Unlost(Seen(h, announced))
  BY <1>3 DEF Unlost, Seen
<1> QED  BY <1>1, <1>3, <1>4 DEF ManualInit, ManualInv, Controls, NewControl

\* Every step is one of the loop's, or none.
LEMMA ManualNextKeeps ==
    ASSUME ManualInv, ManualNext
    PROVE  ManualInv' /\ [Next]_vars
<1> DEFINE A == announced
           v == Seen(h, A)
<1>1. ASSUME h.alive PROVE Good(h, A) /\ h \in Helpers
  BY <1>1 DEF ManualInv, SupervisorInv, Sound, Good, Own
<1>2. Sound(h, A) /\ Unlost(v)
  BY DEF ManualInv, SupervisorInv
<1>3. CASE Runs
  <2>1. PICK x \in OutputSteps(h) \cup DoneSteps(h) \cup ChildSteps(h) \cup {Return(h)}
                   \cup Settled({Typed(h, written) : written \in BOOLEAN}, h) : Goes(x)
    BY <1>3 DEF Runs
  <2>2. Becomes(x) /\ UNCHANGED <<pasted, control>> /\ CallGoesOn /\ h.alive
    BY <1>3, <2>1 DEF Runs, Goes, Becomes
  <2>3. Good(h, A) /\ h \in Helpers
    BY <1>1, <2>2
  <2>4. Settled({Typed(h, written) : written \in BOOLEAN}, h) \subseteq InputSteps(h)
    BY DEF InputSteps, Settled
  <2>5. CASE x = Return(h)
    <3>1. Works(x, h, A)
      BY <2>3, <2>5, ReturnSound DEF Works, After, Protocol!Changes
    <3>2. Next
      BY <2>2, <2>5 DEF Next, TerminalCloses
    <3> QED  BY <2>2, <3>1, <3>2, WorksKeep
  <2>6. CASE x # Return(h)
    <3>1. \/ x \in InputSteps(h) \/ x \in OutputSteps(h)
          \/ x \in DoneSteps(h) \/ x \in ChildSteps(h)
      BY <2>1, <2>4, <2>6
    <3>2. Works(x, h, A)
      BY <2>3, <3>1, SelectWorks
    <3>3. Next
      BY <2>2, <3>1 DEF Next, Input, Output, Done, Child
    <3> QED  BY <2>2, <3>2, <3>3, WorksKeep
  <2> QED  BY <2>5, <2>6
<1>4. CASE Ticks
  <2>1. PICK x \in TickerSteps(h) : Goes(x)
    BY <1>4 DEF Ticks
  <2>2. Becomes(x) /\ UNCHANGED <<pasted, control>> /\ CallGoesOn /\ h.alive
    BY <1>4, <2>1 DEF Ticks, Goes, Becomes
  <2>3. Works(x, h, A)
    BY <1>1, <2>1, <2>2, SelectWorks
  <2>4. Next
    BY <2>1, <2>2 DEF Next, Ticker
  <2> QED  BY <2>2, <2>3, <2>4, WorksKeep
<1>5. CASE Presses
  <2>1. PICK x \in Settled({Enter(h)}, h) : Becomes(x)
    BY <1>5 DEF Presses
  <2>2. UNCHANGED <<pasted, control>> /\ CallGoesOn /\ h.alive
    BY <1>5, <2>1 DEF Presses, Becomes
  <2>3. x \in InputSteps(h)
    BY <2>1 DEF InputSteps, Settled
  <2>4. Works(x, h, A)
    BY <1>1, <2>2, <2>3, SelectWorks
  <2>5. Next
    BY <2>1, <2>2, <2>3 DEF Next, Input
  <2> QED  BY <2>1, <2>2, <2>4, <2>5, WorksKeep
<1>6. CASE Consults
  <2>1. /\ h.alive /\ h.call # None /\ UNCHANGED vars
        /\ control' = Exchange(control, h.call) /\ answer' = Answer(control', h.call)
    BY <1>6 DEF Consults
  <2>2. h.call \in Calls /\ control \in Controls
    BY <1>1, <2>1 DEF Helpers, ManualInv
  <2>3. /\ control' \in Controls /\ Due(control', answer')
        /\ h.call.event # "lost" /\ control.attempt # None => control'.attempt = control.attempt
    BY <2>1, <2>2, ExchangeKeeps
  <2>4. ASSUME h.child # None PROVE control'.attempt = h.attempt
    <3>1. h.call.event # "lost"
      BY <1>2, <2>1, <2>4 DEF Unlost, Seen
    <3>2. control.attempt = h.attempt /\ h.attempt \in Nonces
      BY <1>1, <2>1, <2>4 DEF ManualInv, Helpers
    <3>3. None \notin Nonces
      BY SupervisorConstants DEF Nonces
    <3> QED  BY <2>3, <3>1, <3>2, <3>3
  <2>5. SupervisorInv' /\ Seen(h, announced)' = Seen(h, announced) /\ h' = h
    BY <2>1, StutterKeeps DEF ManualInv, vars, Seen, WasOpened
  <2> QED  BY <1>2, <2>1, <2>3, <2>4, <2>5 DEF ManualInv
<1>7. CASE Replied
  <2>1. PICK begun \in Outcomes : Goes(OnReply(h, answer, begun, FALSE))
    BY <1>7 DEF Replied
  <2> DEFINE y == OnReply(h, answer, begun, FALSE)
             w == Seen(h', announced')
  <2>2. /\ Becomes(y) /\ UNCHANGED <<pasted, control>> /\ h.alive
        /\ answer # None /\ answer' = None /\ (h.call.event = "lost" => h.attempt < MaxAttempts)
    BY <1>7, <2>1 DEF Replied, Goes, Becomes
  <2>3. h.call # None /\ Due(control, answer) /\ answer \in Replies /\ Good(h, A)
    BY <1>1, <2>2 DEF ManualInv, Due
  <2>4. /\ Sound(y, A) /\ (y.gate # 0 => h.gate # 0)
        /\ Seen(y, A) \in Protocol!Answered(v, answer, begun)
    BY <2>2, <2>3, OnReplyAnswers
  <2>5. h' = y /\ announced' = A
    BY <2>2, <2>4 DEF Becomes
  <2>6. CallReturns(answer)
    <3>1. \E b \in Outcomes, due \in BOOLEAN : y = OnReply(h, answer, b, due)
      OBVIOUS
    <3> HIDE DEF y
    <3>2. y \in ReplySteps(h, answer, Outcomes)
      BY <3>1 DEF ReplySteps
    <3> QED  BY <2>2, <2>3, <3>2 DEF CallReturns
  <2>7. SupervisorInv'
    BY <2>2, <2>4, <2>5 DEF ManualInv, SupervisorInv, PasteReachesOrigin
  <2> HIDE DEF y
  <2>8. Sound(h', announced') /\ w \in Protocol!Answered(v, answer, begun)
    BY <2>4, <2>5
  <2>9. /\ DOMAIN v = Fields /\ v.child \in BOOLEAN /\ v.child = (h.child # None)
        /\ v.call = h.call /\ v.attempt = h.attempt
    BY <1>2, SeenOfSound
  <2>10. /\ w.child = (h'.child # None) /\ w.attempt = h'.attempt
         /\ w.child => w.reports \in Seq(Reports) /\ NoneLost(w.reports)
    BY <2>8, SeenOfSound
  <2>11. begun \in Protocol!Outcomes
    BY DEF Outcomes, Protocol!Outcomes
  <2> HIDE DEF v, w
  <2>12. /\ Unlost(w)
         /\ w.child => (v.child /\ w.attempt = v.attempt) \/ w.attempt = control.attempt
    <3>1. Unlost(v) /\ v.call # None /\ Due(control, answer)
      BY <1>2, <2>3, <2>9
    <3>2. w \in Protocol!Answered(v, answer, begun)
      BY <2>8
    <3>3. DOMAIN v = Fields /\ v.child \in BOOLEAN
      BY <2>9
    <3>4. w.child => w.reports \in Seq(Reports) /\ NoneLost(w.reports)
      BY <2>10
    <3> HIDE DEF A
    <3> QED  BY <2>11, <3>1, <3>2, <3>3, <3>4, AnsweredKeep
  <2>13. h'.child # None => control'.attempt = h'.attempt
    BY <2>2, <2>9, <2>10, <2>12 DEF ManualInv
  <2>14. Next
    BY <2>3, <2>6 DEF Next
  <2> QED  BY <2>2, <2>7, <2>12, <2>13, <2>14 DEF ManualInv, w
<1>8. CASE TimesOut
  <2> DEFINE y == OnCallError(h)
             w == Seen(h', announced')
  <2>1. h.call # None /\ Becomes(y) /\ UNCHANGED <<pasted, control>> /\ answer' = None /\ h.alive
    BY <1>8 DEF TimesOut, Becomes
  <2>2. CallFails
    BY <2>1 DEF CallFails
  <2>3. Good(y, A) /\ y.gate = h.gate /\ Seen(y, A) = Protocol!CallDropped(v)
    BY <1>1, <2>1, CallErrorDrops
  <2>4. h' = y /\ announced' = A
    BY <2>1, <2>3 DEF Becomes
  <2> HIDE DEF y
  <2>5. DOMAIN v = Fields /\ v.child = (h.child # None) /\ v.attempt = h.attempt
    BY <1>2, SeenOfSound
  <2>6. Sound(h', announced') /\ w = Protocol!CallDropped(v)
    BY <2>3, <2>4 DEF Sound
  <2>7. w.child = (h'.child # None) /\ w.attempt = h'.attempt
    BY <2>6, SeenOfSound
  <2> HIDE DEF v, w
  <2>8. w.child = v.child /\ w.attempt = v.attempt /\ w.call = None
    BY <2>5, <2>6 DEF Protocol!CallDropped, Fields
  <2>9. Unlost(w) /\ (h'.child # None => control'.attempt = h'.attempt)
    BY <2>1, <2>5, <2>7, <2>8 DEF Unlost, ManualInv
  <2>10. SupervisorInv'
    BY <2>1, <2>6 DEF ManualInv, SupervisorInv, PasteReachesOrigin
  <2>11. Next
    BY <2>2 DEF Next
  <2> QED  BY <2>1, <2>9, <2>10, <2>11 DEF ManualInv, w
<1> QED  BY <1>3, <1>4, <1>5, <1>6, <1>7, <1>8 DEF ManualNext

LEMMA ManualStutterKeeps ==
    ASSUME ManualInv, UNCHANGED manualVars
    PROVE  ManualInv' /\ UNCHANGED vars
<1>1. UNCHANGED vars /\ control' = control /\ answer' = answer
  BY DEF manualVars
<1>2. SupervisorInv' /\ h' = h /\ announced' = announced
  BY <1>1, StutterKeeps DEF ManualInv, vars
<1>3. Seen(h, announced)' = Seen(h, announced)
  BY <1>2 DEF Seen, WasOpened
<1> QED  BY <1>1, <1>2, <1>3 DEF ManualInv

LEMMA ManualInvariant == ManualSpec => []ManualInv
<1>1. ManualInv /\ [ManualNext]_manualVars => ManualInv'
  BY ManualNextKeeps, ManualStutterKeeps
<1> QED  BY <1>1, ManualInitGood, PTL DEF ManualSpec

-----------------------------------------------------------------------------
(* Attempts and the Enters they are due to.  An Enter not answered yet is  *)
(* pending in one of three places: in the loop, in its call, or in the     *)
(* control.                                                                *)

\* What the loop reports is about its present attempt, and so is its call,
\* which carries the oldest report until it is answered.
Present(v) ==
    /\ \A i \in 1..Len(v.reports) : v.reports[i].attempt = v.attempt
    /\ v.call # None =>
         /\ v.call.attempt = v.attempt
         /\ v.call.event # None => v.reports # <<>> /\ Head(v.reports).event = v.call.event

LostOnly(reports) == Len(reports) = 1 /\ reports[1].event = "lost"

\* The control knows the loop's present attempt or none; it forgets one only
\* with the call that reports its loss, and before the loop does.
InStep(v, c, reply) ==
    /\ c.attempt \in {None, v.attempt}
    /\ c.attempt = None /\ v.reports # <<>> =>
         LostOnly(v.reports) /\ (v.call # None => v.call.event = "lost")
    /\ ~c.started => c.attempt = None /\ v.attempt = 1 /\ v.reports = <<>>
    /\ reply # None /\ v.call.event = "lost" => c.attempt = None

\* How many attempts the control has granted, the first one counted already.
Granted(v, c) ==
    IF c.started /\ c.attempt = None /\ v.reports = <<>> THEN v.attempt - 1 ELSE v.attempt

One(b) == IF b THEN 1 ELSE 0

Pending(x, c, reply) ==
    One(x.retry) + One(x.call # None /\ reply = None /\ x.call.retry) + One(c.retryPending)

\* Counted as More counts.
Paid(x, c, reply, n) ==
    /\ n \in 0..(MaxAttempts - 1)
    /\ n = MaxAttempts - 1 \/ Granted(x, c) + Pending(x, c, reply) <= 1 + n

Paced ==
    /\ h.alive => Present(h) /\ InStep(h, control, answer) /\ Paid(h, control, answer, requests)
    /\ AttemptsAsked

LEMMA OneIs == ASSUME NEW b PROVE One(b) \in {0, 1} /\ (One(b) = 1 <=> b)
BY DEF One

LEMMA HeadLost ==
    ASSUME NEW reports \in Seq(Reports), Ordered(reports), reports # <<>>,
           Head(reports).event = "lost"
    PROVE  LostOnly(reports)
<1>1. Len(reports) \in Nat /\ 1 \in 1..Len(reports) /\ reports[1].event = "lost"
  OBVIOUS
<1> QED  BY <1>1 DEF Ordered, LostOnly

\* A grant uses up what was pending, unless it is the first one.
LEMMA ExchangePaid ==
    ASSUME NEW x \in Helpers, NEW c \in Controls, NEW n, x.call # None,
           Ordered(x.reports), Present(x), InStep(x, c, None), Paid(x, c, None, n)
    PROVE  LET d == Exchange(c, x.call)
               reply == Answer(d, x.call)
           IN InStep(x, d, reply) /\ Paid(x, d, reply, n)
<1> DEFINE q == x.call
           r == Reported(c, q)
           a == Asking(r, q)
           d == Granting(a, q)
           reply == Answer(d, q)
<1>1. /\ q \in Calls /\ q.attempt = x.attempt /\ q.retry \in BOOLEAN /\ x.retry \in BOOLEAN
      /\ x.attempt \in Nat /\ x.attempt # None /\ x.attempt \in Nonces
      /\ q.event # None => x.reports # <<>> /\ Head(x.reports).event = q.event
      /\ q.event \in {None, "ready", "lost"}
  BY SupervisorConstants DEF Helpers, Calls, Present, Nonces
<1>2. /\ c.attempt \in {None, x.attempt}
      /\ c.attempt = None /\ x.reports # <<>> => LostOnly(x.reports) /\ q.event = "lost"
      /\ ~c.started => c.attempt = None /\ x.attempt = 1 /\ x.reports = <<>>
  BY DEF InStep
<1>3. Exchange(c, q) = d
  BY DEF Exchange
<1>4. c.started \in BOOLEAN /\ c.retryPending \in BOOLEAN
  BY DEF Controls
<1>5. /\ r.started = c.started /\ r.retryPending \in BOOLEAN
      /\ r.retryPending => c.retryPending
      /\ r.attempt = IF q.event = "lost" THEN None ELSE c.attempt
      /\ r \in Controls
  BY <1>1, <1>2, <1>4 DEF Reported, Controls
<1> HIDE DEF r
<1>6. /\ a.started = c.started /\ a.attempt = r.attempt /\ a.retryPending \in BOOLEAN
      /\ a.retryPending => r.retryPending \/ q.retry
      /\ a \in Controls
  BY <1>1, <1>5 DEF Asking, Controls
<1> HIDE DEF a
<1>8. reply # None
  <2>1. d \in Controls
    BY <1>1, <1>6 DEF Granting, Controls
  <2> HIDE DEF d
  <2>2. reply \in Replies
    BY <2>1 DEF Answer, Replies, Controls
  <2> QED  BY <2>2, ManualConstants
<1> HIDE DEF reply
<1>9. n \in Nat /\ (n = MaxAttempts - 1 \/ Granted(x, c) + Pending(x, c, None) <= 1 + n)
      /\ n \in 0..(MaxAttempts - 1)
  BY DEF Paid
<1>7. CASE q.event = None /\ a.attempt = None /\ (~a.started \/ a.retryPending)
  <2>1. /\ d.attempt = x.attempt /\ d.started /\ d.retryPending = FALSE
    BY <1>1, <1>7 DEF Granting
  <2>2. c.attempt = None /\ x.reports = <<>>
    BY <1>1, <1>2, <1>5, <1>6, <1>7, ManualConstants
  <2> HIDE DEF d
  <2>3. InStep(x, d, reply)
    BY <1>1, <1>7, <2>1, <2>2, ManualConstants DEF InStep
  <2>4. Granted(x, d) = x.attempt
    BY <1>1, <2>1 DEF Granted
  <2>5. Granted(x, c) = IF c.started THEN x.attempt - 1 ELSE x.attempt
    BY <2>2 DEF Granted
  <2>6. Pending(x, d, reply) = One(x.retry)
    BY <1>8, <2>1 DEF Pending, One
  <2>7. Pending(x, c, None) >= One(x.retry) + (IF c.started THEN 1 ELSE 0)
    <3>1. c.started => One(q.retry) + One(c.retryPending) >= 1
      BY <1>5, <1>6, <1>7 DEF One
    <3> QED  BY <3>1, OneIs DEF Pending, One
  <2>8. Granted(x, d) + Pending(x, d, reply) <= Granted(x, c) + Pending(x, c, None)
    <3>1. Pending(x, c, None) \in Nat /\ One(x.retry) \in Nat
      BY OneIs DEF Pending
    <3> QED  BY <1>1, <2>4, <2>5, <2>6, <2>7, <3>1
  <2>9. Granted(x, d) \in Nat /\ Granted(x, c) \in Int /\ Pending(x, d, reply) \in Nat /\ Pending(x, c, None) \in Nat
    BY <1>1, <2>4, <2>5, OneIs DEF Pending
  <2>10. Paid(x, d, reply, n)
    BY <1>9, <2>8, <2>9 DEF Paid
  <2> QED  BY <1>3, <2>3, <2>10 DEF reply
<1>10. CASE ~(q.event = None /\ a.attempt = None /\ (~a.started \/ a.retryPending))
  <2>1. d = a
    BY <1>10 DEF Granting
  <2> HIDE DEF d
  <2>2. q.event = "lost" => LostOnly(x.reports) /\ x.reports # <<>> /\ c.started
    <3>1. x.reports \in Seq(Reports)
      BY DEF Helpers
    <3> QED  BY <1>1, <1>2, <3>1, HeadLost, ManualConstants
  <2>3. InStep(x, d, reply)
    BY <1>1, <1>2, <1>5, <1>6, <1>8, <2>1, <2>2, ManualConstants DEF InStep
  <2>4. Granted(x, d) = Granted(x, c) /\ Granted(x, c) \in Nat
    BY <1>1, <1>2, <1>5, <1>6, <2>1, <2>2, ManualConstants DEF Granted, Nonces
  <2>5. Pending(x, d, reply) <= Pending(x, c, None)
    <3>1. One(a.retryPending) <= One(q.retry) + One(c.retryPending)
      BY <1>5, <1>6 DEF One
    <3>2. Pending(x, d, reply) = One(x.retry) + One(a.retryPending)
      BY <1>8, <2>1, OneIs DEF Pending, One
    <3>3. Pending(x, c, None) = One(x.retry) + One(q.retry) + One(c.retryPending)
      BY <1>1 DEF Pending, One
    <3> QED  BY <3>1, <3>2, <3>3, OneIs
  <2>6. Pending(x, d, reply) \in Nat /\ Pending(x, c, None) \in Nat
    BY OneIs DEF Pending
  <2>7. Paid(x, d, reply, n)
    BY <1>9, <2>4, <2>5, <2>6 DEF Paid
  <2> QED  BY <1>3, <2>3, <2>7 DEF reply
<1> QED  BY <1>7, <1>10

-----------------------------------------------------------------------------
(* What becomes of an Enter in the loop.                                   *)

LoopFields ==
    {"alive", "attempt", "grant", "child", "proved", "stopping", "slot", "gate", "next",
     "reports", "call", "retry", "polling"}

\* From x to y no Enter comes about: it stays where it is, or goes along with
\* a new call.
Passes(y, x) ==
    /\ DOMAIN y = LoopFields
    /\ \/ y.call = x.call /\ y.retry = x.retry
       \/ x.call = None /\ ~y.retry /\ (y.call # None /\ y.call.retry => x.retry)

LEMMA SendPasses == ASSUME NEW x, DOMAIN x = LoopFields PROVE Passes(Send(x), x)
BY DEF Send, Passes, LoopFields

LEMMA PassesOn ==
    ASSUME NEW x, NEW y, NEW z, Passes(y, x), Passes(z, y)
    PROVE  Passes(z, x)
BY DEF Passes

LEMMA LosePasses == ASSUME NEW x, DOMAIN x = LoopFields PROVE Passes(Lose(x), x)
BY DEF Lose, Passes, LoopFields

LEMMA ReportPasses ==
    ASSUME NEW x, DOMAIN x = LoopFields, NEW attempt, NEW event
    PROVE  Passes(Report(x, attempt, event), x)
BY DEF Report, Passes, LoopFields

LEMMA OpenPasses ==
    ASSUME NEW x, DOMAIN x = LoopFields, NEW overdue, NEW boundary, NEW drawn
    PROVE  Passes(Open(x, overdue, boundary, drawn), x)
<1> DEFINE o == [x EXCEPT !.next = @ + 1, !.gate = x.next + 1]
           s == [o EXCEPT !.slot = FALSE]
           r == Report(s, x.grant, "ready")
<1>1. Passes(x, x) /\ Passes(Lose(x), x)
  BY LosePasses DEF Passes
<1>2. Passes(o, x) /\ Passes(s, x)
  BY DEF Passes, LoopFields
<1>3. \/ Open(x, overdue, boundary, drawn) \in {x, Lose(x), Lose(o)}
      \/ Open(x, overdue, boundary, drawn) = Send(r)
  BY DEF Open
<1> HIDE DEF o, s
<1>4. Passes(Lose(o), x)
  BY <1>2, LosePasses, PassesOn DEF Passes
<1>5. Passes(r, x)
  BY <1>2, ReportPasses, PassesOn DEF Passes
<1> HIDE DEF r
<1>6. Passes(Send(r), x)
  BY <1>5, SendPasses, PassesOn DEF Passes
<1> QED  BY <1>1, <1>3, <1>4, <1>6

LEMMA OnPacketPasses ==
    ASSUME NEW x, DOMAIN x = LoopFields, NEW kept
    PROVE  Passes(OnPacket(x, kept), x)
<1> DEFINE packet == Head(x.child.queue)
           x1 == [x EXCEPT !.child.queue = Tail(@)]
           x2 == IF (x1.gate # 0 \/ ~x1.stopping) /\ ~kept THEN Lose(x1) ELSE x1
           proof == packet # <<>> /\ packet[1] = "ready" /\ ~x2.stopping
           x3 == IF proof THEN [x2 EXCEPT !.proved = TRUE] ELSE x2
           y == IF packet = <<>> \/ (proof /\ Len(packet) = 1) THEN x3 ELSE Lose(x3)
<1>1. OnPacket(x, kept) = y
  BY DEF OnPacket
<1>2. Passes(x1, x)
  BY DEF Passes, LoopFields
<1> HIDE DEF x1
<1>3. Passes(x2, x)
  BY <1>2, LosePasses, PassesOn DEF Passes
<1> HIDE DEF x2
<1>4. Passes(x3, x)
  <2>1. Passes([x2 EXCEPT !.proved = TRUE], x2)
    BY <1>3 DEF Passes, LoopFields
  <2> QED  BY <1>3, <2>1, PassesOn
<1> HIDE DEF x3, proof, packet
<1>5. Passes(y, x)
  BY <1>4, LosePasses, PassesOn DEF Passes
<1> QED  BY <1>1, <1>5

LEMMA OnDonePasses ==
    ASSUME NEW x, DOMAIN x = LoopFields
    PROVE  LET y == OnDone(x) IN y.alive => Passes(y, x)
<1> DEFINE x1 == [x EXCEPT !.gate = 0, !.slot = FALSE, !.child = None, !.proved = FALSE]
           r == Report(x1, x.grant, "lost")
<1>1. Passes(x1, x) /\ DOMAIN x1 = LoopFields
  BY DEF Passes, LoopFields
<1>2. OnDone(x) = Send(r) \/ OnDone(x) = Return(x1)
  BY DEF OnDone
<1> HIDE DEF x1
<1>3. Passes(r, x)
  BY <1>1, ReportPasses, PassesOn
<1>4. ~Return(x1).alive
  BY <1>1 DEF Return, LoopFields
<1> HIDE DEF r
<1> QED  BY <1>2, <1>3, <1>4, SendPasses, PassesOn DEF Passes

LEMMA TickerPasses ==
    ASSUME NEW x, DOMAIN x = LoopFields, NEW overdue, NEW boundary, NEW drawn
    PROVE  Passes(OnTicker(x, overdue, boundary, drawn), x)
<1> DEFINE x1 == IF x.child # None /\ x.gate = 0 /\ overdue THEN Lose(x) ELSE x
           y == Open(x1, overdue, boundary, drawn)
<1>1. OnTicker(x, overdue, boundary, drawn) = Send(y)
  BY DEF OnTicker
<1>2. Passes(x1, x)
  BY LosePasses DEF Passes
<1> HIDE DEF x1
<1>3. Passes(y, x)
  BY <1>2, OpenPasses, PassesOn DEF Passes
<1> HIDE DEF y
<1> QED  BY <1>1, <1>3, SendPasses, PassesOn DEF Passes

\* No case of the select but Enter and the reply makes or drops a request.
LEMMA SelectPasses ==
    ASSUME NEW x, DOMAIN x = LoopFields,
           NEW y \in OutputSteps(x) \cup DoneSteps(x) \cup ChildSteps(x) \cup TickerSteps(x)
                     \cup {Return(x)} \cup Settled({Typed(x, written) : written \in BOOLEAN}, x)
    PROVE  y.alive => Passes(y, x)
<1>1. CASE y \in OutputSteps(x)
  <2>1. y \in Settled({OnPacket(x, kept) : kept \in BOOLEAN}, x)
    BY <1>1 DEF OutputSteps
  <2>2. PICK kept, overdue, boundary, drawn :
               y = Open(OnPacket(x, kept), overdue, boundary, drawn)
    BY <2>1 DEF Settled
  <2>3. Passes(OnPacket(x, kept), x)
    BY OnPacketPasses
  <2> QED  BY <2>2, <2>3, OpenPasses, PassesOn DEF Passes
<1>2. CASE y \in DoneSteps(x)
  BY <1>2, OnDonePasses DEF DoneSteps
<1>3. CASE y \in ChildSteps(x)
  BY <1>3 DEF ChildSteps, Passes, LoopFields
<1>4. CASE y \in TickerSteps(x)
  BY <1>4, TickerPasses DEF TickerSteps
<1>5. CASE y = Return(x)
  BY <1>5 DEF Return, LoopFields
<1>6. CASE y \in Settled({Typed(x, written) : written \in BOOLEAN}, x)
  <2>1. PICK written, overdue, boundary, drawn :
               y = Open(Typed(x, written), overdue, boundary, drawn)
    BY <1>6 DEF Settled
  <2>2. Passes(Typed(x, written), x)
    BY LosePasses DEF Typed, Passes
  <2> QED  BY <2>1, <2>2, OpenPasses, PassesOn DEF Passes
<1> QED  BY <1>1, <1>2, <1>3, <1>4, <1>5, <1>6

LEMMA EnterPasses ==
    ASSUME NEW x, DOMAIN x = LoopFields, x.gate = 0, NEW y \in Settled({Enter(x)}, x)
    PROVE  Passes(y, [x EXCEPT !.retry = TRUE])
<1> DEFINE e == [x EXCEPT !.retry = TRUE]
<1>1. PICK overdue, boundary, drawn : y = Open(Enter(x), overdue, boundary, drawn)
  BY DEF Settled
<1>2. Enter(x) = Send(e) /\ DOMAIN e = LoopFields
  BY DEF Enter, LoopFields
<1> HIDE DEF e
<1>3. Passes(Enter(x), e)
  BY <1>2, SendPasses
<1>4. Passes(y, e)
  BY <1>1, <1>3, OpenPasses, PassesOn DEF Passes
<1> QED  BY <1>4 DEF e

\* A reply: nothing is left of the call; what it brings about goes with the next.
LEMMA ReplyPasses ==
    ASSUME NEW x, DOMAIN x = LoopFields, NEW reply, ~reply.ended, NEW begun \in Outcomes, NEW due
    PROVE  Passes(OnReply(x, reply, begun, due), [x EXCEPT !.call = None])
<1> DEFINE e == [x EXCEPT !.call = None]
           x1 == [Acknowledge(x) EXCEPT !.call = None]
           x2 == Revoke(x1, reply)
           x3 == IF Accepts(x2, x.call, reply) THEN Begin(x2, begun) ELSE x2
           x4 == IF x3.reports # <<>> \/ x3.retry THEN Send(x3) ELSE x3
           x5 == AwaitAdmission(x4, reply, due)
<1>1. OnReply(x, reply, begun, due) \in {x3, x5}
  BY DEF OnReply
<1>2. DOMAIN e = LoopFields /\ Passes(x1, e)
  BY DEF Acknowledge, Passes, LoopFields
<1> HIDE DEF e, x1
<1>3. Passes(x2, x1)
  <2> DEFINE l == IF x1.child # None /\ reply.cancel = x1.grant THEN Lose(x1) ELSE x1
             g == [l EXCEPT !.grant = None]
  <2>1. x2 \in {l, Lose(l), g, Report(g, x1.attempt, "lost")}
    BY DEF Revoke
  <2>2. Passes(l, x1)
    BY <1>2, LosePasses DEF Passes
  <2> HIDE DEF l, x2
  <2>3. Passes(g, x1)
    BY <2>2 DEF Passes, LoopFields
  <2> HIDE DEF g
  <2>4. Passes(Lose(l), x1) /\ Passes(Report(g, x1.attempt, "lost"), x1)
    BY <2>2, <2>3, LosePasses, ReportPasses, PassesOn DEF Passes
  <2> QED  BY <2>1, <2>2, <2>3, <2>4
<1> HIDE DEF x2
<1>4. Passes(Begin(x2, begun), x2)
  <2> DEFINE b == [x2 EXCEPT !.grant = x2.attempt, !.stopping = FALSE, !.proved = FALSE]
             s == [x2 EXCEPT !.grant = x2.attempt, !.stopping = FALSE, !.proved = FALSE,
                             !.slot = TRUE, !.child = NewChild(x2.attempt)]
             l == Report(x2, x2.attempt, "lost")
  <2>1. Begin(x2, begun) \in {Send(l), Report(b, x2.attempt, "lost"), s}
    BY DEF Begin, Outcomes
  <2>2. Passes(b, x2) /\ Passes(s, x2) /\ DOMAIN x2 = LoopFields
    BY <1>3 DEF Passes, LoopFields
  <2> HIDE DEF b, s
  <2>3. Passes(l, x2) /\ Passes(Report(b, x2.attempt, "lost"), x2)
    BY <2>2, ReportPasses, PassesOn DEF Passes
  <2> HIDE DEF l
  <2>4. Passes(Send(l), x2)
    BY <2>3, SendPasses, PassesOn DEF Passes
  <2> QED  BY <2>1, <2>2, <2>3, <2>4
<1>5. Passes(x3, e)
  BY <1>2, <1>3, <1>4, PassesOn
<1> HIDE DEF x3
<1>6. Passes(x4, e)
  BY <1>5, SendPasses, PassesOn DEF Passes
<1> HIDE DEF x4
<1>7. Passes(x5, x4)
  BY <1>6 DEF AwaitAdmission, Passes, LoopFields
<1> HIDE DEF x5
<1> QED  BY <1>1, <1>5, <1>6, <1>7, PassesOn DEF e

-----------------------------------------------------------------------------
(* What becomes of the reports and the call, as others see them.           *)

LEMMA SendsPresent ==
    ASSUME NEW v, DOMAIN v = Fields, v.reports \in Seq(Reports), Present(v),
           NEW w \in Protocol!Sends(v)
    PROVE  /\ Present(w)
           /\ DOMAIN w = Fields /\ w.alive = v.alive /\ w.attempt = v.attempt
           /\ w.child = v.child /\ w.grant = v.grant /\ w.reports = v.reports
           /\ v.call # None => w.call = v.call
           /\ v.call = None /\ v.reports # <<>> /\ w.call # None =>
                w.call.event = Head(v.reports).event
<1>1. w = v \/ \E retry \in BOOLEAN : w = Protocol!Send(v, retry)
  BY DEF Protocol!Sends
<1>2. CASE v.call # None \/ w = v
  BY <1>1, <1>2 DEF Protocol!Send
<1>3. ASSUME v.call = None, NEW retry \in BOOLEAN, w = Protocol!Send(v, retry)
      PROVE  /\ DOMAIN w = Fields /\ w.alive = v.alive /\ w.attempt = v.attempt
             /\ w.child = v.child /\ w.grant = v.grant /\ w.reports = v.reports
             /\ w.call.attempt = v.attempt
             /\ IF v.reports = <<>> THEN w.call.event = None
                ELSE w.call.event = Head(v.reports).event
  <2>1. v.reports # <<>> => Head(v.reports).attempt = v.attempt
    BY DEF Present
  <2> QED  BY <1>3, <2>1 DEF Protocol!Send, Fields
<1>4. CASE v.call = None /\ w # v
  <2>1. PICK retry \in BOOLEAN : w = Protocol!Send(v, retry)
    BY <1>1, <1>4
  <2> QED  BY <1>3, <1>4, <2>1 DEF Present
<1> QED  BY <1>2, <1>4

LEMMA ReportPresent ==
    ASSUME NEW v, v.reports \in Seq(Reports), v.attempt \in Nonces, Present(v),
           NEW event \in {"ready", "lost"},
           NEW z, z.attempt = v.attempt, z.call = v.call,
           z.reports = Append(v.reports, [attempt |-> v.attempt, event |-> event])
    PROVE  Present(z) /\ z.reports \in Seq(Reports)
<1> DEFINE e == [attempt |-> v.attempt, event |-> event]
           r == Append(v.reports, e)
<1>1. e \in Reports /\ e.attempt = v.attempt
  BY DEF Reports
<1> HIDE DEF e
<1>2. /\ r \in Seq(Reports) /\ Len(r) = Len(v.reports) + 1 /\ Len(v.reports) \in Nat
      /\ \A i \in 1..Len(v.reports) : r[i] = v.reports[i]
      /\ r[Len(v.reports) + 1] = e
      /\ r # <<>> /\ (v.reports # <<>> => Head(r) = Head(v.reports))
  BY <1>1
<1>3. z.reports = r
  BY DEF e
<1> HIDE DEF r
<1>4. \A i \in 1..Len(r) : r[i].attempt = v.attempt
  BY <1>1, <1>2 DEF Present
<1> QED  BY <1>2, <1>3, <1>4 DEF Present

\* A step of the loop leaves its attempt alone, and its reports too while it
\* has no child.
LEMMA ChangesPresent ==
    ASSUME NEW v, DOMAIN v = Fields, v.reports \in Seq(Reports), v.attempt \in Nonces,
           v.child \in BOOLEAN, v.child => v.grant = v.attempt, Present(v),
           NEW w \in Protocol!Changes(v), w.alive
    PROVE  /\ Present(w) /\ w.attempt = v.attempt
           /\ v.call # None => w.call = v.call
           /\ ~v.child => w.reports = v.reports
           /\ ~v.child /\ v.call = None /\ v.reports # <<>> /\ w.call # None =>
                w.call.event = Head(v.reports).event
<1>1. CASE w \in Protocol!Sends(v)
  BY <1>1, SendsPresent
<1>2. CASE w = Protocol!Closed(v)
  BY <1>2 DEF Protocol!Closed, Fields, Present
<1>3. w # Protocol!Returned(v)
  BY DEF Protocol!Returned, Fields
<1>4. ASSUME v.child, NEW y \in Protocol!Sends(v), w \in Protocol!Sends(Protocol!Opened(y))
      PROVE  Present(w) /\ w.attempt = v.attempt /\ (v.call # None => w.call = v.call)
  <2> DEFINE z == Protocol!Opened(y)
  <2>1. /\ DOMAIN y = Fields /\ y.attempt = v.attempt /\ Present(y)
        /\ y.reports = v.reports /\ (v.call # None => y.call = v.call)
    BY SendsPresent
  <2>2. /\ DOMAIN z = Fields /\ z.attempt = y.attempt /\ z.call = y.call
        /\ z.reports = Append(y.reports, [attempt |-> y.attempt, event |-> "ready"])
    BY <2>1 DEF Protocol!Opened, Protocol!Report, Fields
  <2> HIDE DEF z
  <2>3. Present(z) /\ z.reports \in Seq(Reports)
    BY <2>1, <2>2, ReportPresent
  <2>4. w \in Protocol!Sends(z)
    BY <1>4 DEF z
  <2> QED  BY <2>1, <2>2, <2>3, <2>4, SendsPresent
<1>5. ASSUME v.child, w \in Protocol!Sends(Protocol!Reaped(v))
      PROVE  Present(w) /\ w.attempt = v.attempt /\ (v.call # None => w.call = v.call)
  <2> DEFINE z == Protocol!Reaped(v)
  <2>1. /\ DOMAIN z = Fields /\ z.attempt = v.attempt /\ z.call = v.call
        /\ z.reports = Append(v.reports, [attempt |-> v.attempt, event |-> "lost"])
    BY <1>5 DEF Protocol!Reaped, Protocol!Report, Fields
  <2> HIDE DEF z
  <2>2. Present(z) /\ z.reports \in Seq(Reports)
    BY <2>1, ReportPresent
  <2>3. w \in Protocol!Sends(z)
    BY <1>5 DEF z
  <2> QED  BY <2>1, <2>2, <2>3, SendsPresent
<1>6. \/ w \in Protocol!Sends(v) \/ w = Protocol!Closed(v)
      \/ v.child /\ \E y \in Protocol!Sends(v) : w \in Protocol!Sends(Protocol!Opened(y))
      \/ v.child /\ w \in Protocol!Sends(Protocol!Reaped(v))
  BY <1>3 DEF Protocol!Changes
<1>7. CASE v.child /\ \E y \in Protocol!Sends(v) : w \in Protocol!Sends(Protocol!Opened(y))
  BY <1>4, <1>7
<1>8. CASE v.child /\ w \in Protocol!Sends(Protocol!Reaped(v))
  BY <1>5, <1>8
<1> QED  BY <1>1, <1>2, <1>6, <1>7, <1>8

\* What a reply makes of the reports and the call.
LEMMA AnsweredPresent ==
    ASSUME NEW v, DOMAIN v = Fields, v.reports \in Seq(Reports), Ordered(v.reports),
           v.attempt \in Nonces, v.call # None, v.call.event \in {None, "ready", "lost"},
           Present(v), NEW c, NEW reply \in Replies, Due(c, reply), InStep(v, c, reply), reply # None,
           v.call.event = "lost" => v.attempt < MaxAttempts,
           NEW begun \in Protocol!Outcomes, NEW w \in Protocol!Answered(v, reply, begun)
    PROVE  Present(w) /\ InStep(w, c, None) /\ Granted(w, c) = Granted(v, c)
<1> DEFINE y == [Protocol!Acknowledge(v) EXCEPT !.call = None]
           z == Protocol!Revoke(y, reply)
           accepted == Protocol!Accepts(z, v.call, reply)
           b == IF accepted THEN Protocol!Begin(z, begun) ELSE z
<1>1. ~reply.ended /\ ~reply.reset /\ (reply.grant # None => reply.grant = c.attempt)
  BY DEF Due
<1>2. w \in Protocol!Sends(b)
  BY <1>1 DEF Protocol!Answered
<1>3. /\ v.call.attempt = v.attempt
      /\ v.call.event # None => v.reports # <<>> /\ Head(v.reports) = [attempt |-> v.attempt, event |-> v.call.event]
  <2>1. v.reports # <<>> => Head(v.reports) \in Reports /\ Head(v.reports).attempt = v.attempt
    BY DEF Present
  <2>2. v.call.attempt = v.attempt
    BY DEF Present
  <2>3. v.call.event # None => v.reports # <<>> /\ Head(v.reports).event = v.call.event
    BY DEF Present
  <2> QED  BY <2>1, <2>2, <2>3 DEF Reports
<1>4. /\ c.attempt \in {None, v.attempt} /\ v.attempt \in Nat
      /\ c.attempt = None /\ v.reports # <<>> => v.call.event = "lost"
      /\ ~c.started => c.attempt = None /\ v.attempt = 1 /\ v.reports = <<>>
      /\ v.call.event = "lost" => c.attempt = None
      /\ None \notin {"ready", "lost"} \cup Nat
  BY SupervisorConstants, ManualConstants DEF InStep, Nonces
<1> DEFINE Settles ==
             /\ DOMAIN y = Fields /\ y.call = None /\ y.reports \in Seq(Reports)
             /\ \A i \in 1..Len(y.reports) : y.reports[i].attempt = y.attempt
             /\ y.attempt \in Nonces /\ c.attempt \in {None, y.attempt}
             /\ c.attempt = None => y.reports = <<>>
             /\ ~c.started => c.attempt = None /\ y.attempt = 1
             /\ Granted(v, c) = IF c.started /\ c.attempt = None THEN y.attempt - 1 ELSE y.attempt
<1>5. ASSUME v.call.event = "lost" PROVE Settles
  <2>1. v.reports # <<>> /\ Tail(v.reports) = <<>> /\ v.attempt + 1 \in Nonces
    <3>1. v.reports # <<>> /\ Head(v.reports).event = "lost"
      BY <1>3, <1>4, <1>5
    <3>2. Tail(v.reports) = <<>>
      BY <3>1, TailKeeps
    <3> QED  BY <1>4, <1>5, <3>1, <3>2, SupervisorConstants DEF Nonces
  <2>2. /\ DOMAIN y = Fields /\ y.call = None /\ y.reports = <<>>
        /\ y.attempt = v.attempt + 1
    BY <1>3, <1>4, <1>5, <2>1 DEF Protocol!Acknowledge, Fields
  <2> HIDE DEF y
  <2>3. c.attempt = None /\ c.started /\ Granted(v, c) = v.attempt
    BY <1>4, <1>5, <2>1 DEF Granted
  <2>4. Settles
    BY <1>4, <2>1, <2>2, <2>3
  <2> QED  BY <2>4
<1>6. ASSUME v.call.event = "ready" PROVE Settles
  <2>1. v.reports # <<>> /\ c.attempt # None
    BY <1>3, <1>4, <1>6
  <2>2. /\ DOMAIN y = Fields /\ y.call = None /\ y.reports = Tail(v.reports)
        /\ y.attempt = v.attempt
    BY <1>3, <1>4, <1>6 DEF Protocol!Acknowledge, Fields
  <2> HIDE DEF y
  <2>3. y.reports \in Seq(Reports) /\ \A i \in 1..Len(y.reports) : y.reports[i].attempt = y.attempt
    <3>1. /\ Tail(v.reports) \in Seq(Reports) /\ Len(Tail(v.reports)) = Len(v.reports) - 1
          /\ Len(v.reports) \in Nat
          /\ \A i \in 1..(Len(v.reports) - 1) : Tail(v.reports)[i] = v.reports[i + 1]
      BY <2>1
    <3> QED  BY <2>2, <3>1 DEF Present
  <2>4. Granted(v, c) = v.attempt
    BY <2>1 DEF Granted
  <2> QED  BY <1>4, <2>1, <2>2, <2>3, <2>4
<1>7. ASSUME v.call.event = None PROVE Settles
  <2>1. /\ DOMAIN y = Fields /\ y.call = None /\ y.reports = v.reports
        /\ y.attempt = v.attempt
    BY <1>4, <1>7 DEF Protocol!Acknowledge, Fields
  <2> HIDE DEF y
  <2>2. c.attempt = None => v.reports = <<>>
    BY <1>4, <1>7
  <2> QED  BY <1>4, <2>1, <2>2 DEF Granted, Present
<1>8. Settles
  BY <1>5, <1>6, <1>7
<1> HIDE DEF y
<1>9. /\ DOMAIN z = Fields /\ z.call = None /\ z.reports = y.reports /\ z.attempt = y.attempt
  BY <1>1, <1>8 DEF Protocol!Revoke, Protocol!Closed, Fields
<1> HIDE DEF z
<1>10. accepted => z.attempt = c.attempt /\ c.attempt # None /\ z.reports = <<>>
  BY <1>1 DEF Protocol!Accepts
<1>11. Present(z) /\ z.attempt \in Nonces
  BY <1>8, <1>9 DEF Present
<1>12. /\ DOMAIN b = Fields /\ Present(b) /\ b.reports \in Seq(Reports)
       /\ b.attempt = z.attempt /\ (b.reports = z.reports \/ c.attempt # None)
  <2>1. CASE ~accepted
    BY <1>8, <1>9, <1>11, <2>1
  <2>2. CASE accepted /\ begun = "started"
    BY <1>8, <1>9, <1>11, <2>2 DEF Protocol!Begin, Fields, Present
  <2>3. CASE accepted /\ begun \in {"late", "failed"}
    <3>1. /\ DOMAIN b = Fields /\ b.attempt = z.attempt /\ b.call = z.call
          /\ b.reports = Append(z.reports, [attempt |-> z.attempt, event |-> "lost"])
      BY <1>9, <2>3 DEF Protocol!Begin, Protocol!Report, Fields
    <3> HIDE DEF b, accepted
    <3> QED  BY <1>8, <1>9, <1>10, <1>11, <2>3, <3>1, ReportPresent
  <2> QED  BY <2>1, <2>2, <2>3 DEF Protocol!Outcomes
<1> HIDE DEF b, accepted
<1>13. Present(w) /\ w.attempt = b.attempt /\ w.reports = b.reports
  BY <1>2, <1>12, SendsPresent
<1>14. /\ c.attempt \in {None, w.attempt} /\ (c.attempt = None => w.reports = <<>>)
       /\ ~c.started => c.attempt = None /\ w.attempt = 1
  BY <1>8, <1>9, <1>12, <1>13
<1>15. InStep(w, c, None)
  BY <1>14 DEF InStep
<1>16. Granted(w, c) = Granted(v, c)
  BY <1>8, <1>9, <1>12, <1>13, <1>14 DEF Granted
<1> QED  BY <1>13, <1>15, <1>16

-----------------------------------------------------------------------------
(* The account is kept.                                                    *)

LEMMA PassesPending ==
    ASSUME NEW x, x.retry \in BOOLEAN, NEW y, NEW c, NEW reply, Passes(y, x),
           reply # None => x.call # None
    PROVE  Pending(y, c, reply) <= Pending(x, c, reply)
<1> DEFINE there(z) == z.call # None /\ reply = None /\ z.call.retry
<1>1. One(y.retry) + One(there(y)) <= One(x.retry) + One(there(x))
  <2>1. CASE y.call = x.call /\ y.retry = x.retry
    BY <2>1, OneIs
  <2>2. CASE x.call = None /\ ~y.retry /\ (y.call # None /\ y.call.retry => x.retry)
    <3>1. One(y.retry) = 0 /\ One(there(x)) = 0
      BY <2>2 DEF One
    <3>2. One(there(y)) <= One(x.retry)
      BY <2>2 DEF One
    <3> QED  BY <3>1, <3>2, OneIs
  <2> QED  BY <2>1, <2>2 DEF Passes
<1>2. /\ Pending(y, c, reply) = One(y.retry) + One(there(y)) + One(c.retryPending)
      /\ Pending(x, c, reply) = One(x.retry) + One(there(x)) + One(c.retryPending)
  BY DEF Pending
<1> HIDE DEF there
<1> QED  BY <1>1, <1>2, OneIs

LEMMA PendingIs == ASSUME NEW x, NEW c, NEW reply PROVE Pending(x, c, reply) \in Nat
BY OneIs DEF Pending

LEMMA GrantedIs == ASSUME NEW x, x.attempt \in Nonces, NEW c PROVE Granted(x, c) \in Nat
BY SupervisorConstants DEF Granted, Nonces

\* Nothing more is pending, or one thing more is paid for.
LEMMA PaidOn ==
    ASSUME NEW x, NEW y, NEW c, NEW reply, NEW later, NEW n, Paid(x, c, reply, n),
           Granted(x, c) \in Nat, Granted(y, c) = Granted(x, c), NEW more \in {0, 1},
           Pending(y, c, later) <= Pending(x, c, reply) + more
    PROVE  Paid(y, c, later, IF more = 1 THEN More(n) ELSE n)
<1> DEFINE p == Pending(x, c, reply)
           q == Pending(y, c, later)
<1>1. p \in Nat /\ q \in Nat /\ q <= p + more
  BY PendingIs
<1>2. n \in 0..(MaxAttempts - 1) /\ (n = MaxAttempts - 1 \/ Granted(x, c) + p <= 1 + n)
  BY DEF Paid
<1>3. More(n) \in 0..(MaxAttempts - 1) /\ (More(n) = MaxAttempts - 1 \/ More(n) = n + 1)
  BY <1>2, SupervisorConstants DEF More
<1> HIDE DEF p, q
<1>4. CASE more = 1
  <2>1. More(n) = MaxAttempts - 1 \/ Granted(y, c) + q <= 1 + More(n)
    BY <1>1, <1>2, <1>3, <1>4, SupervisorConstants DEF More
  <2> QED  BY <1>3, <1>4, <2>1 DEF Paid, q
<1>5. CASE more = 0
  <2>1. n = MaxAttempts - 1 \/ Granted(y, c) + q <= 1 + n
    BY <1>1, <1>2, <1>5, SupervisorConstants
  <2> QED  BY <1>2, <1>5, <2>1 DEF Paid, q
<1> QED  BY <1>4, <1>5

LEMMA PaidAsked ==
    ASSUME NEW x, x.attempt \in Nonces, NEW c, NEW reply, NEW n,
           InStep(x, c, reply), Paid(x, c, reply, n), c.attempt # None
    PROVE  c.attempt <= 1 + n
<1>1. c.attempt = x.attempt /\ x.attempt \in 1..MaxAttempts /\ MaxAttempts \in Nat
  BY SupervisorConstants DEF InStep, Nonces
<1>2. Granted(x, c) = x.attempt
  BY DEF Granted
<1> QED  BY <1>1, <1>2, PendingIs DEF Paid

\* The account of a helper that lives on.
LEMMA PacedOn ==
    ASSUME Present(h'), InStep(h', control', answer'), h'.attempt \in Nonces,
           Paid(h', control', answer', requests')
    PROVE  Paced'
BY PaidAsked DEF Paced, AttemptsAsked

\* That of a helper that is gone.
LEMMA PacedEnds ==
    ASSUME ManualInv, Paced, h.alive, ~h'.alive, control' = control,
           requests' = requests \/ requests' = More(requests)
    PROVE  Paced'
<1>1. requests \in 0..(MaxAttempts - 1) /\ requests' \in Nat /\ requests' >= requests
  BY SupervisorConstants DEF Paced, Paid, More
<1>2. control.attempt # None => control.attempt \in Nat /\ control.attempt <= 1 + requests
  BY SupervisorConstants DEF Paced, AttemptsAsked, ManualInv, Controls, Nonces
<1>3. control'.attempt # None => control'.attempt <= 1 + requests'
  BY <1>1, <1>2
<1> QED  BY <1>3 DEF Paced, AttemptsAsked

\* What is known of a helper, and what the others see of it.
LEMMA HelperSeen ==
    ASSUME NEW x, NEW A, Sound(x, A), x.alive
    PROVE  LET v == Seen(x, A) IN
           /\ x \in Helpers /\ DOMAIN x = LoopFields
           /\ x.attempt \in Nonces /\ x.reports \in Seq(Reports) /\ Ordered(x.reports)
           /\ x.retry \in BOOLEAN /\ x.call \in Calls \cup {None}
           /\ DOMAIN v = Fields /\ v.child \in BOOLEAN /\ v.alive = x.alive
           /\ v.attempt = x.attempt /\ v.grant = x.grant /\ v.reports = x.reports
           /\ v.call = x.call /\ v.child = (x.child # None) /\ (v.child => v.grant = v.attempt)
BY DEF Sound, Good, Own, Helpers, Seen, Fields, LoopFields

\* A step of the loop beside its call, in which Enter may be pressed.
LEMMA WorksPaced ==
    ASSUME ManualInv, Paced, NEW x, Becomes(x), Works(x, h, announced),
           UNCHANGED control, CallGoesOn, NEW more \in {0, 1},
           requests' = IF more = 1 THEN More(requests) ELSE requests,
           x.alive => Passes(x, IF more = 1 THEN [h EXCEPT !.retry = TRUE] ELSE h)
    PROVE  Paced'
<1> DEFINE v == Seen(h, announced)
           w == Seen(h', announced')
           e == IF more = 1 THEN [h EXCEPT !.retry = TRUE] ELSE h
<1>1. h' = x /\ announced' = After(x, h, announced) /\ h.alive
  BY DEF Becomes, After
<1>2. /\ Sound(h, announced) /\ Sound(h', announced') /\ w \in Protocol!Changes(v)
  BY <1>1 DEF Works, ManualInv, SupervisorInv
<1>3. CASE ~h'.alive
  BY <1>1, <1>3, PacedEnds
<1>4. CASE h'.alive
  <2>1. /\ Present(h) /\ InStep(h, control, answer) /\ Paid(h, control, answer, requests)
        /\ answer' = answer /\ (h.child # None => control.attempt # None)
        /\ answer # None => h.call # None
    BY <1>1, <1>2, <1>4, HelperSeen, SupervisorConstants DEF Paced, CallGoesOn, ManualInv, Nonces
  <2>2. Present(v)
    BY <1>1, <1>2, <2>1, HelperSeen DEF Present
  <2>3. /\ Present(w) /\ w.attempt = v.attempt
        /\ v.call # None => w.call = v.call
        /\ ~v.child => w.reports = v.reports
        /\ ~v.child /\ v.call = None /\ v.reports # <<>> /\ w.call # None =>
             w.call.event = Head(v.reports).event
    <3>1. w.alive
      BY <1>2, <1>4, HelperSeen
    <3>2. /\ DOMAIN v = Fields /\ v.reports \in Seq(Reports) /\ v.attempt \in Nonces
          /\ v.child \in BOOLEAN /\ (v.child => v.grant = v.attempt)
      BY <1>1, <1>2, HelperSeen
    <3> HIDE DEF v, w
    <3> QED  BY <1>2, <2>2, <3>1, <3>2, ChangesPresent
  <2>4. /\ Present(h') /\ h'.attempt = h.attempt
        /\ h.call # None => h'.call = h.call
        /\ h.child = None => h'.reports = h.reports
        /\ h.child = None /\ h.call = None /\ h.reports # <<>> /\ h'.call # None =>
             h'.call.event = Head(h.reports).event
    <3>1. /\ w.call = h'.call /\ w.attempt = h'.attempt /\ w.reports = h'.reports
          /\ v.call = h.call /\ v.attempt = h.attempt /\ v.reports = h.reports
          /\ v.child = (h.child # None)
      BY <1>1, <1>2, <1>4, HelperSeen
    <3> HIDE DEF v, w
    <3> QED  BY <2>3, <3>1 DEF Present
  <2>5. h.attempt \in Nonces /\ h.retry \in BOOLEAN /\ DOMAIN h = LoopFields
    BY <1>1, <1>2, HelperSeen
  <2>6. control.attempt = None /\ h.reports # <<>> => Head(h.reports).event = "lost"
    BY <2>1 DEF InStep, LostOnly
  <2>7. InStep(h', control', answer')
    BY <2>1, <2>4, <2>6 DEF InStep
  <2>8. Granted(h', control) = Granted(h, control) /\ Granted(h, control) \in Nat
    BY <2>1, <2>4, <2>5, GrantedIs DEF Granted
  <2>9. Pending(h', control, answer) <= Pending(h, control, answer) + more
    <3>1. e.retry \in BOOLEAN /\ e.call = h.call
      BY <2>5 DEF LoopFields
    <3>2. Passes(h', e)
      BY <1>1, <1>4
    <3>3. Pending(e, control, answer) <= Pending(h, control, answer) + more
      <4>1. e.retry = (h.retry \/ more = 1)
        BY <2>5 DEF LoopFields
      <4>2. One(e.retry) <= One(h.retry) + more
        BY <2>5, <4>1 DEF One
      <4> HIDE DEF e
      <4> QED  BY <3>1, <4>2, OneIs DEF Pending
    <3> HIDE DEF e
    <3>4. Pending(h', control, answer) <= Pending(e, control, answer)
      BY <2>1, <3>1, <3>2, PassesPending
    <3> QED  BY <3>3, <3>4, PendingIs
  <2>10. Paid(h', control', answer', requests')
    BY <2>1, <2>8, <2>9, PaidOn
  <2> QED  BY <2>4, <2>5, <2>7, <2>10, PacedOn
<1> QED  BY <1>3, <1>4

LEMMA PacedInit == ManualInit => Paced
<1> SUFFICES ASSUME ManualInit PROVE Paced
  OBVIOUS
<1>1. h = Send(NewHelper) /\ control = NewControl /\ answer = None /\ requests = 0
  BY DEF ManualInit, Init
<1>2. /\ h.attempt = 1 /\ h.reports = <<>> /\ h.retry = FALSE
      /\ h.call.attempt = 1 /\ h.call.event = None /\ h.call.retry = FALSE
  BY <1>1 DEF Send, NewHelper
<1>3. Present(h) /\ InStep(h, control, answer)
  BY <1>1, <1>2 DEF Present, InStep, NewControl
<1>4. Paid(h, control, answer, requests)
  BY <1>1, <1>2, SupervisorConstants DEF Paid, Granted, Pending, One, NewControl
<1> QED  BY <1>1, <1>3, <1>4 DEF Paced, AttemptsAsked, NewControl

LEMMA PacedConsults ==
    ASSUME ManualInv, Paced, Consults
    PROVE  Paced'
<1>1. /\ h.alive /\ h.call # None /\ answer = None /\ h' = h /\ requests' = requests
      /\ control' = Exchange(control, h.call) /\ answer' = Answer(control', h.call)
  BY DEF Consults, vars
<1>2. Present(h) /\ InStep(h, control, None) /\ Paid(h, control, None, requests)
  BY <1>1 DEF Paced
<1>3. h \in Helpers /\ h.attempt \in Nonces /\ Ordered(h.reports) /\ control \in Controls
  BY <1>1, HelperSeen DEF ManualInv, SupervisorInv
<1>4. InStep(h, control', answer') /\ Paid(h, control', answer', requests)
  BY <1>1, <1>2, <1>3, ExchangePaid
<1> QED  BY <1>1, <1>2, <1>3, <1>4, PacedOn

LEMMA PacedReplied ==
    ASSUME ManualInv, Paced, Replied
    PROVE  Paced'
<1> DEFINE v == Seen(h, announced)
           e == [h EXCEPT !.call = None]
<1>1. PICK begun \in Outcomes : Goes(OnReply(h, answer, begun, FALSE))
  BY DEF Replied
<1> DEFINE y == OnReply(h, answer, begun, FALSE)
           w == Seen(y, announced)
<1>2. /\ h.alive /\ answer # None /\ answer' = None /\ h' = y
      /\ control' = control /\ requests' = requests
      /\ h.call.event = "lost" => h.attempt < MaxAttempts
  BY <1>1 DEF Replied, Goes, Becomes
<1>3. /\ h.call # None /\ Due(control, answer) /\ answer \in Replies
      /\ ~answer.ended /\ Good(h, announced) /\ Sound(h, announced)
  BY <1>2 DEF ManualInv, SupervisorInv, Sound, Due
<1>4. Present(h) /\ InStep(h, control, answer) /\ Paid(h, control, answer, requests)
  BY <1>2 DEF Paced
<1>5. Sound(y, announced) /\ w \in Protocol!Answered(v, answer, begun)
  BY <1>2, <1>3, OnReplyAnswers
<1>6. Passes(y, e)
  BY <1>2, <1>3, HelperSeen, ReplyPasses
<1>7. CASE ~y.alive
  BY <1>2, <1>7, PacedEnds
<1>8. CASE y.alive
  <2>1. /\ DOMAIN v = Fields /\ v.reports \in Seq(Reports) /\ Ordered(v.reports)
        /\ v.attempt \in Nonces /\ v.call # None /\ v.call.event \in {None, "ready", "lost"}
        /\ v.reports = h.reports /\ v.call = h.call /\ v.attempt = h.attempt
        /\ h.retry \in BOOLEAN /\ DOMAIN h = LoopFields
    BY <1>2, <1>3, HelperSeen DEF Calls
  <2>2. /\ w.attempt = y.attempt /\ w.reports = y.reports /\ w.call = y.call
        /\ y.attempt \in Nonces
    BY <1>5, <1>8, HelperSeen
  <2>3. begun \in Protocol!Outcomes
    BY DEF Outcomes, Protocol!Outcomes
  <2> HIDE DEF v, y, w
  <2>4. Present(v) /\ InStep(v, control, answer) /\ Granted(v, control) = Granted(h, control)
    BY <1>4, <2>1 DEF Present, InStep, Granted
  <2>5. Present(w) /\ InStep(w, control, None) /\ Granted(w, control) = Granted(v, control)
    BY <1>2, <1>3, <1>5, <2>1, <2>3, <2>4, AnsweredPresent
  <2>6. /\ Present(y) /\ InStep(y, control, None)
        /\ Granted(y, control) = Granted(h, control)
    BY <2>2, <2>4, <2>5 DEF Present, InStep, Granted
  <2>7. Pending(y, control, None) <= Pending(h, control, answer) + 0
    <3>1. e.retry = h.retry /\ e.call = None
      BY <2>1 DEF LoopFields
    <3>2. Pending(e, control, None) = Pending(h, control, answer)
      BY <1>2, <3>1 DEF Pending, One
    <3> HIDE DEF e
    <3>3. Pending(y, control, None) <= Pending(e, control, None)
      BY <1>6, <2>1, <3>1, PassesPending
    <3> QED  BY <3>2, <3>3, PendingIs
  <2>8. Granted(h, control) \in Nat
    BY <2>1, GrantedIs
  <2>9. Paid(y, control, None, requests)
    BY <1>4, <2>6, <2>7, <2>8, PaidOn
  <2> QED  BY <1>2, <2>2, <2>6, <2>9, PacedOn DEF y
<1> QED  BY <1>7, <1>8

LEMMA PacedTimesOut ==
    ASSUME ManualInv, Paced, TimesOut
    PROVE  Paced'
<1> DEFINE more == IF answer # None /\ h.call.retry THEN 1 ELSE 0
           y == OnCallError(h)
<1>1. /\ h.alive /\ h.call # None /\ h' = y /\ answer' = None /\ control' = control
      /\ requests' = IF more = 1 THEN More(requests) ELSE requests
  BY DEF TimesOut, Becomes
<1>2. Present(h) /\ InStep(h, control, answer) /\ Paid(h, control, answer, requests)
  BY <1>1 DEF Paced
<1>3. /\ DOMAIN h = LoopFields /\ h.attempt \in Nonces /\ h.retry \in BOOLEAN
      /\ h.call.retry \in BOOLEAN
  BY <1>1, HelperSeen DEF ManualInv, SupervisorInv, Calls
<1>4. /\ y.attempt = h.attempt /\ y.reports = h.reports /\ y.call = None
      /\ y.retry = (h.retry \/ h.call.retry)
  BY <1>3 DEF OnCallError, LoopFields
<1> HIDE DEF y
<1>5. /\ Present(y) /\ InStep(y, control, None)
      /\ Granted(y, control) = Granted(h, control) /\ Granted(h, control) \in Nat
  BY <1>2, <1>3, <1>4, GrantedIs DEF Present, InStep, Granted
<1>6. more \in {0, 1} /\ Pending(y, control, None) <= Pending(h, control, answer) + more
  <2>1. One(y.retry) <= One(h.retry) + One(h.call.retry)
    BY <1>3, <1>4 DEF One
  <2>2. Pending(y, control, None) = One(y.retry) + One(control.retryPending)
    BY <1>4, OneIs DEF Pending, One
  <2>3. One(h.call.retry) = One(h.call # None /\ answer = None /\ h.call.retry) + more
    BY <1>1, <1>3 DEF One
  <2>4. Pending(h, control, answer)
          = One(h.retry) + One(h.call # None /\ answer = None /\ h.call.retry) + One(control.retryPending)
    BY DEF Pending
  <2> HIDE DEF more
  <2>5. more \in {0, 1}
    BY DEF more
  <2> QED  BY <2>1, <2>2, <2>3, <2>4, <2>5, OneIs
<1> HIDE DEF more
<1>7. Paid(y, control, None, requests')
  BY <1>1, <1>2, <1>5, <1>6, PaidOn
<1> QED  BY <1>1, <1>3, <1>4, <1>5, <1>7, PacedOn

LEMMA PacedNext ==
    ASSUME ManualInv, Paced, ManualNext
    PROVE  Paced'
<1> DEFINE A == announced
<1>1. ASSUME h.alive PROVE Good(h, A) /\ h \in Helpers /\ DOMAIN h = LoopFields
  BY <1>1, HelperSeen DEF ManualInv, SupervisorInv, Sound, Good, Own
<1>2. CASE Runs
  <2>1. PICK x \in OutputSteps(h) \cup DoneSteps(h) \cup ChildSteps(h) \cup {Return(h)}
                   \cup Settled({Typed(h, written) : written \in BOOLEAN}, h) : Goes(x)
    BY <1>2 DEF Runs
  <2>2. /\ Becomes(x) /\ CallGoesOn /\ h.alive
        /\ control' = control /\ requests' = requests
    BY <1>2, <2>1 DEF Runs, Goes, Becomes
  <2>3. Good(h, A) /\ h \in Helpers /\ DOMAIN h = LoopFields
    BY <1>1, <2>2
  <2>4. Settled({Typed(h, written) : written \in BOOLEAN}, h) \subseteq InputSteps(h)
    BY DEF InputSteps, Settled
  <2>5. Works(x, h, A)
    <3>1. CASE x = Return(h)
      BY <2>3, <3>1, ReturnSound DEF Works, After, Protocol!Changes
    <3>2. CASE x # Return(h)
      BY <2>1, <2>3, <2>4, <3>2, SelectWorks
    <3> QED  BY <3>1, <3>2
  <2>6. x.alive => Passes(x, h)
    BY <2>1, <2>3, SelectPasses
  <2> QED  BY <2>2, <2>5, <2>6, WorksPaced
<1>3. CASE Ticks
  <2>1. PICK x \in TickerSteps(h) : Goes(x)
    BY <1>3 DEF Ticks
  <2>2. /\ Becomes(x) /\ CallGoesOn /\ h.alive
        /\ control' = control /\ requests' = requests
    BY <1>3, <2>1 DEF Ticks, Goes, Becomes
  <2>3. Works(x, h, A) /\ (x.alive => Passes(x, h))
    BY <1>1, <2>1, <2>2, SelectWorks, SelectPasses
  <2> QED  BY <2>2, <2>3, WorksPaced
<1>4. CASE Presses
  <2>1. PICK x \in Settled({Enter(h)}, h) : Becomes(x)
    BY <1>4 DEF Presses
  <2>2. /\ CallGoesOn /\ h.alive /\ h.gate = 0
        /\ control' = control /\ requests' = More(requests)
    BY <1>4, <2>1 DEF Presses, Becomes
  <2>3. x \in InputSteps(h)
    BY <2>1 DEF InputSteps, Settled
  <2>4. Works(x, h, A) /\ Passes(x, [h EXCEPT !.retry = TRUE])
    BY <1>1, <2>1, <2>2, <2>3, SelectWorks, EnterPasses
  <2>5. \E more \in {0, 1} :
           /\ requests' = IF more = 1 THEN More(requests) ELSE requests
           /\ Passes(x, IF more = 1 THEN [h EXCEPT !.retry = TRUE] ELSE h)
    BY <2>2, <2>4
  <2> QED  BY <2>1, <2>2, <2>4, <2>5, WorksPaced
<1> QED  BY <1>2, <1>3, <1>4, PacedConsults, PacedReplied, PacedTimesOut DEF ManualNext

LEMMA PacedStutters == ASSUME Paced, UNCHANGED manualVars PROVE Paced'
BY DEF Paced, Present, InStep, Paid, Granted, Pending, AttemptsAsked, manualVars, vars

-----------------------------------------------------------------------------
(* Theorems.                                                               *)

\* A child is the attachment that the control has granted: no report that
\* is late or comes twice, and no request, makes it forget one whose child is
\* there or grant another beside it (session_manual.go, lines 27-43).
THEOREM ChildIsGrantedHolds == ManualSpec => []ChildIsGranted
<1>1. ManualInv => ChildIsGranted
  BY DEF ManualInv, SupervisorInv, Sound, Good, Own, ChildIsGranted
<1> QED  BY <1>1, ManualInvariant, PTL

\* The terminal with its manual control is one of the helpers specified by
\* SessionSupervisor: its control answers like some coordinator
\* (RunManualSessionSupervisor, session_manual.go, lines 48-52).
THEOREM ManualIsSupervised == ManualSpec => Spec
<1>1. ManualInit => Init
  BY DEF ManualInit
<1>2. ManualInv /\ [ManualNext]_manualVars => [Next]_vars
  BY ManualNextKeeps, ManualStutterKeeps
<1> QED  BY <1>1, <1>2, ManualInvariant, PTL DEF ManualSpec, Spec

\* So what is typed reaches proved attachments only, on macOS as well.
THEOREM ManualInputOnlyToProved == ManualSpec => []InputOnlyToProved
BY ManualIsSupervised, InputOnlyToProvedHolds, PTL

\* Every attempt after the first is due to an Enter of its own, or to one that
\* was sent again because its reply came too late: no report, no late reply
\* and no repeated call makes the control grant twice for one request
\* (session_manual.go, lines 27-43).
THEOREM AttemptsAskedHolds == ManualSpec => []AttemptsAsked
<1>1. ManualInv /\ ManualInv' /\ Paced /\ [ManualNext]_manualVars => Paced'
  BY PacedNext, PacedStutters
<1>2. Paced => AttemptsAsked
  BY DEF Paced
<1> QED  BY <1>1, <1>2, PacedInit, ManualInvariant, PTL DEF ManualSpec

=============================================================================
