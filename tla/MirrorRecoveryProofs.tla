------------------------ MODULE MirrorRecoveryProofs ------------------------
(***************************************************************************)
(* Proofs about MirrorRecovery for any number of helpers, sessions, kernel *)
(* slots, attempts and coordinator processes.                              *)
(*                                                                         *)
(* One invariant carries the five theorems.  It relates a helper to what   *)
(* is under way on its connections and to the member that the present      *)
(* coordinator keeps for it, if it does (Whole): a helper that holds an    *)
(* attempt tells so in every request that may still be read, so that a     *)
(* coordinator which hears of it, the first time or again, accounts for    *)
(* it.  The coordinator's own steps are those proved about in              *)
(* SessionRecoveryProofs: towards all helpers but the one that is served a *)
(* member only drifts.                                                     *)
(***************************************************************************)
EXTENDS MirrorRecovery, TLAPS

\* What is known of a coordinator on its own.
P == INSTANCE SessionRecoveryProofs
       WITH Tokens <- Clients, Attempts <- 1..MaxAttempts,
            Identities <- {Identity(p) : p \in Clients}

LEMMA CoordinatorConstants == P!RecoveryConstants
BY MirrorConstants DEF P!RecoveryConstants, Identity

-----------------------------------------------------------------------------
(* The coordinator's operators, as C and as P name them.                   *)

LEMMA SamePending == /\ \A m : C!IsPending(m) = P!IsPending(m)
                     /\ \A c : C!Pending(c) = P!Pending(c)
BY DEF C!IsPending, P!IsPending, C!Pending, P!Pending

LEMMA SameRequestProbe == \A c, now : C!RequestProbe(c, now) = P!RequestProbe(c, now)
BY DEF C!RequestProbe, P!RequestProbe

LEMMA SameExpire == \A c, now : C!Expire(c, now) = P!Expire(c, now)
BY DEF C!Expire, P!Expire, C!IsPending, P!IsPending

LEMMA SameNextAdmitted == \A c, now : C!NextAdmitted(c, now) = P!NextAdmitted(c, now)
<1> SUFFICES ASSUME NEW c, NEW now PROVE C!NextAdmitted(c, now) = P!NextAdmitted(c, now)
  OBVIOUS
<1> DEFINE I == P!Candidates(c, now)
<1>1. C!Candidates(c, now) = I
  BY SamePending DEF C!Candidates, P!Candidates, C!Admissible, P!Admissible, C!Busy, P!Busy
<1> HIDE DEF I
<1>2. (CHOOSE i \in I : C!IsFirst(i, I)) = (CHOOSE i \in I : P!IsFirst(i, I))
  BY DEF C!IsFirst, P!IsFirst
<1>3. C!FewerThanTwo(C!Pending(c)) <=> P!FewerThanTwo(P!Pending(c))
  BY SamePending DEF C!FewerThanTwo, P!FewerThanTwo
<1>4. C!NextAdmitted(c, now) = IF C!FewerThanTwo(C!Pending(c)) /\ I # {}
                               THEN CHOOSE i \in I : C!IsFirst(i, I) ELSE 0
  BY <1>1 DEF C!NextAdmitted
<1>5. P!NextAdmitted(c, now) = IF P!FewerThanTwo(P!Pending(c)) /\ I # {}
                               THEN CHOOSE i \in I : P!IsFirst(i, I) ELSE 0
  BY DEF P!NextAdmitted, I
<1>6. CASE C!FewerThanTwo(C!Pending(c)) /\ I # {}
  BY <1>2, <1>3, <1>4, <1>5, <1>6
<1>7. CASE ~(C!FewerThanTwo(C!Pending(c)) /\ I # {})
  BY <1>3, <1>4, <1>5, <1>7
<1> QED  BY <1>6, <1>7

LEMMA SameAdmit == \A c, now : C!Admit(c, now) = P!Admit(c, now)
<1>1. \A c, now, i : C!Grant(c, now, i) = P!Grant(c, now, i)
  BY DEF C!Grant, P!Grant, C!SetMember, P!SetMember
<1>2. \A c, i : C!RotateOrder(c, i) = P!RotateOrder(c, i)
  BY SamePending DEF C!RotateOrder, P!RotateOrder, C!FewerThanTwo, P!FewerThanTwo
<1> QED  BY <1>1, <1>2, SameExpire, SameNextAdmitted DEF C!Admit, P!Admit

LEMMA SameSetters == /\ \A c, x, m : C!SetMember(c, x, m) = P!SetMember(c, x, m)
                     /\ \A c, x, retry : C!SetRetry(c, x, retry) = P!SetRetry(c, x, retry)
BY DEF C!SetMember, P!SetMember, C!SetRetry, P!SetRetry

LEMMA SameEnter == \A c, r, now : C!Enter(c, r, now) = P!Enter(c, r, now)
<1>1. \A r : C!NewMember(r) = P!NewMember(r)
  BY DEF C!NewMember, P!NewMember, C!MemberOf, P!MemberOf
<1>2. \A c, r, now : C!Register(c, r, now) = P!Register(c, r, now)
  BY <1>1, SameSetters, SameRequestProbe DEF C!Register, P!Register, C!Fresh, P!Fresh
<1> QED  BY <1>2, SameRequestProbe, SameExpire DEF C!Enter, P!Enter

LEMMA SameApplyEvent == \A c, r, now : C!ApplyEvent(c, r, now) = P!ApplyEvent(c, r, now)
<1>1. \A c, x, now : C!Fail(c, x, now) = P!Fail(c, x, now)
  BY SameSetters DEF C!Fail, P!Fail, C!Saturate, P!Saturate, C!RecoveryDelay, P!RecoveryDelay
<1>2. \A m, r : C!Releases(m, r) = P!Releases(m, r)
  BY DEF C!Releases, P!Releases
<1>3. C!Fresh = P!Fresh
  BY DEF C!Fresh, P!Fresh
<1> SUFFICES ASSUME NEW c, NEW r, NEW now PROVE C!ApplyEvent(c, r, now) = P!ApplyEvent(c, r, now)
  OBVIOUS
<1> QED  BY <1>1, <1>2, <1>3, SameSetters, SameRequestProbe DEF C!ApplyEvent, P!ApplyEvent

LEMMA SameExchange == \A c, r, now : C!Exchange(c, r, now) = P!Exchange(c, r, now)
<1>1. \A m, r, now : C!Stale(m, r, now) = P!Stale(m, r, now)
  BY DEF C!Stale, P!Stale, C!Releases, P!Releases
<1>2. \A c, r : C!CheckChild(c, r) = P!CheckChild(c, r)
  BY DEF C!CheckChild, P!CheckChild, C!SetMember, P!SetMember
<1>3. \A c, x, reset : C!Reply(c, x, reset) = P!Reply(c, x, reset)
  BY DEF C!Reply, P!Reply, C!IsPending, P!IsPending
<1> SUFFICES ASSUME NEW c, NEW r, NEW now PROVE C!Exchange(c, r, now) = P!Exchange(c, r, now)
  OBVIOUS
<1> QED  BY <1>1, <1>2, <1>3, SameEnter, SameApplyEvent, SameAdmit DEF C!Exchange, P!Exchange

LEMMA SameRemove == /\ \A c, x : C!Remove(c, x) = P!Remove(c, x)
                    /\ \A c, gone : C!RemoveAll(c, gone) = P!RemoveAll(c, gone)
<1> SUFFICES ASSUME NEW c, NEW x, NEW gone
             PROVE  C!Remove(c, x) = P!Remove(c, x) /\ C!RemoveAll(c, gone) = P!RemoveAll(c, gone)
  OBVIOUS
<1>1. C!Without(c.order, x) = P!Without(c.order, x)
  BY DEF C!Without, P!Without
<1>2. ASSUME NEW I PROVE C!InOrder(I) = P!InOrder(I)
  BY DEF C!InOrder, P!InOrder, C!Cardinality, P!Cardinality
<1>3. C!Remove(c, x) = P!Remove(c, x)
  BY <1>1 DEF C!Remove, P!Remove
<1>4. C!RemoveAll(c, gone) = P!RemoveAll(c, gone)
  BY <1>2 DEF C!RemoveAll, P!RemoveAll
<1> QED  BY <1>3, <1>4

LEMMA SameProbes == /\ \A c, now : C!CanProbe(c, now) = P!CanProbe(c, now)
                    /\ \A c, now : C!BeginProbe(c, now) = P!BeginProbe(c, now)
                    /\ \A c, now : C!FailProbe(c, now) = P!FailProbe(c, now)
                    /\ \A began, now : C!Listings(began, now) = P!Listings(began, now)
BY DEF C!CanProbe, P!CanProbe, C!BeginProbe, P!BeginProbe, C!FailProbe, P!FailProbe,
       C!Listings, P!Listings, C!Saturate, P!Saturate, C!RecoveryDelay, P!RecoveryDelay

LEMMA SameFinishProbe ==
    \A c, now, inventory : C!FinishProbe(c, now, inventory) = P!FinishProbe(c, now, inventory)
<1>1. \A m, inventory : C!EndMember(m, inventory) = P!EndMember(m, inventory)
  BY DEF C!EndMember, P!EndMember
<1> SUFFICES ASSUME NEW c, NEW now, NEW inventory
             PROVE  C!FinishProbe(c, now, inventory) = P!FinishProbe(c, now, inventory)
  OBVIOUS
<1> QED  BY <1>1, SameAdmit, SameRequestProbe DEF C!FinishProbe, P!FinishProbe

-----------------------------------------------------------------------------
(* The helper.                                                             *)

Attempts == 1..MaxAttempts
States == {"offline", "connecting", "ready"}
Reported == [attempt : Attempts, event : {"ready", "lost"}]
Called == [attempt : Attempts, event : {None, "ready", "lost"}, state : States, retry : BOOLEAN]

Helper ==
    [alive : BOOLEAN, attempt : Attempts, grant : Attempts \cup {None},
     child : BOOLEAN, gate : BOOLEAN, opened : BOOLEAN,
     reports : Seq(Reported), call : Called \cup {None}]

Of(x, event) == [attempt |-> x.attempt, event |-> event]
OnlyReady(x) == x.reports = <<Of(x, "ready")>>
OnlyLost(x)  == x.reports = <<Of(x, "lost")>>
ReadyLost(x) == x.reports = <<Of(x, "ready"), Of(x, "lost")>>

\* The reports are about the present attempt: its readiness, then its loss,
\* which is known only when the child is gone; a call carries the first one.
HelperOK(x) ==
    /\ x \in Helper
    /\ x.grant \in {x.attempt, None}
    /\ x.reports = <<>> \/ OnlyReady(x) \/ OnlyLost(x) \/ ReadyLost(x)
    /\ x.child => x.alive /\ x.grant = x.attempt
    /\ x.gate => x.child /\ x.opened
    /\ x.alive /\ OnlyReady(x) => x.opened /\ x.child
    /\ x.alive /\ ReadyLost(x) => x.opened
    /\ OnlyLost(x) \/ ReadyLost(x) => ~x.child
    /\ ~x.alive => x.call = None
    /\ x.call # None =>
         /\ x.call.attempt = x.attempt
         /\ x.call.event = "ready" => OnlyReady(x) \/ ReadyLost(x)
         /\ x.call.event = "lost" => OnlyLost(x) /\ x.call.state = "offline"

\* An attempt is held: a child runs, or something of it is to be reported.
Held(x) == x.alive /\ (x.child \/ x.reports # <<>>)

-----------------------------------------------------------------------------
(* What is under way between a helper and the coordinator.                 *)

Asked(p, a) ==
    [client : {p}, token : {p}, session : {SessionOf[p]}, attempt : {a},
     event : {None, "ready", "lost", "leave"}, state : States, retry : BOOLEAN]

IsLink(l) == l \in [request : {l.request}, reply : {l.reply}, served : {l.served}]
IsStale(t) == t \in [request : {t.request}]

WireOK(p, x, l, t) ==
    /\ l # None =>
         /\ IsLink(l) /\ l.request \in Asked(p, x.attempt) \cup {None}
         /\ l.request # None =>
              /\ l.served /\ l.reply = None
              /\ x.alive => x.call # None /\ l.request = Frame(p, x.call)
              /\ l.request.event = "leave" => ~x.alive
              /\ l.request.event = "lost" => l.request.state = "offline"
         /\ l.reply # None =>
              /\ l.request = None
              /\ t # None => t.request = None
              /\ x.alive => x.call # None
    /\ t # None =>
         /\ IsStale(t) /\ t.request \in Asked(p, x.attempt) \cup {None}
         /\ t.request # None =>
              /\ x.alive /\ t.request.event # None => x.reports # <<>>
              /\ t.request.event = "leave" => ~x.alive
              /\ t.request.event = "lost" => t.request.state = "offline"

ReplyOn(l) == IF l = None THEN None ELSE l.reply

Sent(l, t) ==
    {r \in {IF l = None THEN None ELSE l.request, IF t = None THEN None ELSE t.request} : r # None}

\* What the coordinator is, or was last, asked: the call under way included.
Coming(p, x, l, t) ==
    Sent(l, t) \cup (IF x.call # None THEN {Frame(p, x.call)} ELSE {})

Telling(r) == r.event # "leave" /\ P!Tells(r)

-----------------------------------------------------------------------------
(* A helper x and the coordinator c, with the requests R still to be read  *)
(* and the reply k still to be taken.                                      *)

\* m is the member the coordinator keeps for the helper.
Faces(p, x, k, m) ==
    /\ m.session = SessionOf[p] /\ P!Agrees(m, x.attempt)
    /\ Held(x) => P!Accounts(m, x.attempt)
    /\ x.child /\ ~x.opened => P!Covers(m, x.attempt)
    /\ x.gate /\ x.reports = <<>> => ~P!IsPending(m)
    /\ x.alive /\ k # None =>
         /\ k.ended => m.ended
         /\ ~m.ended /\ k.grant # None => m.active = k.grant
         /\ ~m.ended /\ k.cancel # None => m.active = k.cancel
         /\ x.call.event = "lost" => P!Settled(m)
         /\ x.call.event = "ready" => k.cancel = x.attempt \/ ~P!IsPending(m)

Facing(p, x, R, k, c) ==
    /\ Held(x) => \A r \in R : Telling(r)
    /\ x.alive /\ ~Held(x) => \A r \in R : ~Telling(r)
    /\ x.child /\ ~x.opened => \A r \in R : r.state = "connecting" /\ r.event = None
    /\ x.child => \A r \in R : r.event # "lost"
    /\ x.alive /\ k # None =>
         /\ k.grant \in {x.attempt, None} /\ k.cancel \in {x.attempt, None}
         /\ x.gate /\ x.reports = <<>> => k.cancel = None \/ k.ended
    /\ (\E r \in R : Telling(r)) =>
         /\ \A r \in R : r.event # "leave" => Telling(r)
         /\ p \in DOMAIN c.members => P!Accounts(c.members[p], x.attempt)
    /\ p \in DOMAIN c.members => Faces(p, x, k, c.members[p])

Whole(p, x, l, t, c) ==
    HelperOK(x) /\ WireOK(p, x, l, t) /\ Facing(p, x, Coming(p, x, l, t), ReplyOn(l), c)

LEMMA NoneIsNew == /\ None \notin Attempts /\ None \notin {"ready", "lost", "leave"}
                   /\ \A a \in Attempts : a \in Nat /\ a # None
BY MirrorConstants DEF Attempts

LEMMA FewerFace ==
    ASSUME NEW p, NEW x, NEW R, NEW k, NEW c, Facing(p, x, R, k, c),
           NEW Q \in SUBSET R, NEW j \in {k, None}
    PROVE  Facing(p, x, Q, j, c)
BY DEF Facing, Faces

-----------------------------------------------------------------------------
(* What a helper does on its own.                                          *)

LEMMA SendKeeps ==
    ASSUME NEW p \in Clients, NEW x, NEW l, NEW t, NEW c, Whole(p, x, l, t, c), x.alive,
           NEW retry \in BOOLEAN
    PROVE  LET y == H(p)!Send(x, retry) IN Whole(p, y, l, t, c) /\ y.alive
<1> DEFINE y == H(p)!Send(x, retry)
           q == [attempt |-> x.attempt, event |-> y.call.event,
                 state |-> H(p)!Phase(x), retry |-> retry]
<1>1. CASE x.call # None
  BY <1>1 DEF H!Send
<1>2. CASE x.call = None
  <2>1. HelperOK(x) /\ WireOK(p, x, l, t) /\ x \in Helper
    BY DEF Whole, HelperOK
  <2>2. \A e \in {"ready", "lost"} : Of(x, e).attempt = x.attempt /\ Of(x, e).event = e
    BY DEF Of
  <2>3. /\ y = [x EXCEPT !.call = q]
        /\ y.call.event = IF x.reports = <<>> THEN None ELSE Head(x.reports).event
    BY <1>2, <2>1, <2>2 DEF H!Send, HelperOK, Helper, OnlyReady, OnlyLost, ReadyLost
  <2>4. /\ x.reports = <<>> => y.call.event = None
        /\ OnlyReady(x) \/ ReadyLost(x) => y.call.event = "ready"
        /\ OnlyLost(x) => y.call.event = "lost"
    <3> DEFINE e == y.call.event
    <3>1. e = IF x.reports = <<>> THEN None ELSE Head(x.reports).event
      BY <2>3
    <3> HIDE DEF e, y, q
    <3>2. \A a, b : <<a>> # <<>> /\ Head(<<a>>) = a /\ <<a, b>> # <<>> /\ Head(<<a, b>>) = a
      OBVIOUS
    <3>3. x.reports = <<>> => e = None
      BY <3>1
    <3>4. OnlyReady(x) => e = "ready"
      BY <2>2, <3>1, <3>2 DEF OnlyReady
    <3>5. ReadyLost(x) => e = "ready"
      BY <2>2, <3>1, <3>2 DEF ReadyLost
    <3>6. OnlyLost(x) => e = "lost"
      BY <2>2, <3>1, <3>2 DEF OnlyLost
    <3> QED  BY <3>3, <3>4, <3>5, <3>6 DEF e
  <2> HIDE DEF q
  <2>5. /\ y \in Helper
        /\ y.alive = x.alive /\ y.attempt = x.attempt /\ y.grant = x.grant /\ y.child = x.child
        /\ y.gate = x.gate /\ y.opened = x.opened /\ y.reports = x.reports
        /\ y.call = q
    <3>1. q \in Called
      BY <2>1, <2>4 DEF q, Called, Helper, HelperOK, States, H!Phase
    <3> QED  BY <2>1, <2>3, <3>1 DEF Helper
  <2>6. /\ q.attempt = x.attempt /\ q.event = y.call.event /\ q.retry = retry
        /\ q.state = IF x.gate THEN "ready" ELSE IF x.child THEN "connecting" ELSE "offline"
    BY DEF q, H!Phase
  <2> HIDE DEF y
  <2>7. HelperOK(y)
    BY <1>2, <2>1, <2>4, <2>5, <2>6, NoneIsNew DEF HelperOK, OnlyReady, OnlyLost, ReadyLost, Of
  <2>8. /\ WireOK(p, y, l, t)
        /\ ReplyOn(l) = None
    BY <1>2, <2>1, <2>5 DEF WireOK, ReplyOn
  <2> DEFINE f == Frame(p, q)
  <2>9. Coming(p, y, l, t) \subseteq Coming(p, x, l, t) \cup {f}
    BY <1>2, <2>5, <2>8 DEF Coming
  <2>10. f.event = q.event /\ f.state = q.state
    BY DEF Frame
  <2>11. /\ Held(x) <=> Telling(f)
         /\ x.child /\ ~x.opened => f.state = "connecting" /\ f.event = None
         /\ x.child => f.event # "lost"
    BY <2>1, <2>4, <2>6, <2>10, NoneIsNew DEF HelperOK, Helper, Telling, P!Tells, Held
  <2>12. Facing(p, x, Coming(p, x, l, t), None, c)
    BY <2>8 DEF Whole
  <2> HIDE DEF f
  <2>13. Facing(p, y, Coming(p, x, l, t) \cup {f}, None, c)
    BY <2>5, <2>11, <2>12, NoneIsNew DEF Facing, Faces, Held
  <2>14. Facing(p, y, Coming(p, y, l, t), None, c)
    BY <2>9, <2>13, FewerFace
  <2>15. Whole(p, y, l, t, c) /\ y.alive
    BY <2>5, <2>7, <2>8, <2>14 DEF Whole
  <2> QED  BY <2>15 DEF y
<1> QED  BY <1>1, <1>2
LEMMA SendsKeep ==
    ASSUME NEW p \in Clients, NEW x, NEW l, NEW t, NEW c, Whole(p, x, l, t, c), x.alive,
           NEW y \in H(p)!Sends(x)
    PROVE  Whole(p, y, l, t, c) /\ y.alive
BY SendKeeps DEF H!Sends

LEMMA ClosedKeeps ==
    ASSUME NEW p \in Clients, NEW x, NEW l, NEW t, NEW c, Whole(p, x, l, t, c)
    PROVE  Whole(p, H(p)!Closed(x), l, t, c)
<1> DEFINE y == H(p)!Closed(x)
<1>1. HelperOK(x) /\ x \in Helper /\ WireOK(p, x, l, t)
      /\ Facing(p, x, Coming(p, x, l, t), ReplyOn(l), c)
  BY DEF Whole, HelperOK
<1>2. /\ y \in Helper /\ y.gate = FALSE
      /\ y.alive = x.alive /\ y.attempt = x.attempt /\ y.grant = x.grant /\ y.child = x.child
      /\ y.opened = x.opened /\ y.reports = x.reports /\ y.call = x.call
  BY <1>1 DEF Helper, H!Closed
<1> HIDE DEF y
<1>3. HelperOK(y) /\ WireOK(p, y, l, t) /\ Coming(p, y, l, t) = Coming(p, x, l, t)
  BY <1>1, <1>2 DEF HelperOK, WireOK, Coming, OnlyReady, OnlyLost, ReadyLost, Of
<1>4. Facing(p, y, Coming(p, x, l, t), ReplyOn(l), c)
  BY <1>1, <1>2 DEF Facing, Faces, Held
<1>5. Whole(p, y, l, t, c)
  BY <1>3, <1>4 DEF Whole
<1> QED  BY <1>5 DEF y

\* A helper that returned has nothing more to say but what was sent.
LEMMA ReturnedKeeps ==
    ASSUME NEW p \in Clients, NEW x, NEW l, NEW t, NEW c, Whole(p, x, l, t, c)
    PROVE  Whole(p, H(p)!Returned(x), l, t, c)
<1> DEFINE y == H(p)!Returned(x)
<1>1. HelperOK(x) /\ x \in Helper /\ WireOK(p, x, l, t)
      /\ Facing(p, x, Coming(p, x, l, t), ReplyOn(l), c)
  BY DEF Whole, HelperOK
<1>2. /\ y \in Helper /\ y.gate = FALSE /\ y.alive = FALSE /\ y.child = FALSE /\ y.call = None
      /\ y.attempt = x.attempt /\ y.grant = x.grant
      /\ y.opened = x.opened /\ y.reports = x.reports
  BY <1>1 DEF Helper, H!Returned
<1> HIDE DEF y
<1>3. HelperOK(y) /\ WireOK(p, y, l, t)
  BY <1>1, <1>2 DEF HelperOK, WireOK, OnlyReady, OnlyLost, ReadyLost, Of
<1>4. Coming(p, y, l, t) \subseteq Coming(p, x, l, t)
  BY <1>2 DEF Coming
<1>5. Facing(p, y, Coming(p, x, l, t), ReplyOn(l), c)
  BY <1>1, <1>2 DEF Facing, Faces, Held
<1>6. Whole(p, y, l, t, c)
  BY <1>3, <1>4, <1>5, FewerFace DEF Whole
<1> QED  BY <1>6 DEF y

LEMMA ReportsDiffer ==
    ASSUME NEW x
    PROVE  /\ OnlyReady(x) => ~OnlyLost(x) /\ ~ReadyLost(x) /\ x.reports # <<>>
           /\ OnlyLost(x) => ~ReadyLost(x) /\ x.reports # <<>>
           /\ ReadyLost(x) => x.reports # <<>>
<1>1. Of(x, "ready") # Of(x, "lost")
  BY DEF Of
<1>2. ASSUME NEW a, NEW b, a # b
      PROVE  <<a>> # <<b>> /\ <<a>> # <<>> /\ <<a, b>> # <<>> /\ <<a, b>> # <<a>> /\ <<a, b>> # <<b>>
  BY <1>2
<1> QED  BY <1>1, <1>2 DEF OnlyReady, OnlyLost, ReadyLost

LEMMA Appended ==
    ASSUME NEW a, NEW b
    PROVE  Append(<<>>, a) = <<a>> /\ Append(<<a>>, b) = <<a, b>>
<1>1. <<>> \in Seq({a, b}) /\ <<a>> \in Seq({a, b}) /\ <<a, b>> \in Seq({a, b})
  OBVIOUS
<1>2. Append(<<>>, a) \in Seq({a, b}) /\ Append(<<a>>, b) \in Seq({a, b})
  BY <1>1
<1>3. Len(Append(<<>>, a)) = 1 /\ Append(<<>>, a)[1] = a
  BY <1>1
<1>4. Len(Append(<<a>>, b)) = 2 /\ Append(<<a>>, b)[1] = a /\ Append(<<a>>, b)[2] = b
  BY <1>1
<1>5. Append(<<>>, a) = <<a>>
  BY <1>1, <1>2, <1>3
<1>6. Append(<<a>>, b) = <<a, b>>
  <2> DEFINE w == Append(<<a>>, b)
  <2>1. w \in Seq({a, b}) /\ Len(w) = 2 /\ w[1] = a /\ w[2] = b
    BY <1>2, <1>4
  <2> HIDE DEF w
  <2>2. w = [i \in 1..2 |-> w[i]]
    BY <2>1
  <2>3. \A i \in 1..2 : w[i] = <<a, b>>[i]
    BY <2>1
  <2>4. <<a, b>> = [i \in 1..2 |-> <<a, b>>[i]]
    OBVIOUS
  <2>5. w = <<a, b>>
    BY <2>2, <2>3, <2>4
  <2> QED  BY <2>5 DEF w
<1> QED  BY <1>5, <1>6

LEMMA OpenedKeeps ==
    ASSUME NEW p \in Clients, NEW x, NEW l, NEW t, NEW c, Whole(p, x, l, t, c),
           x.child, ~x.opened
    PROVE  Whole(p, H(p)!Opened(x), l, t, c)
<1> DEFINE y == H(p)!Opened(x)
<1>1. HelperOK(x) /\ x \in Helper /\ WireOK(p, x, l, t)
      /\ Facing(p, x, Coming(p, x, l, t), ReplyOn(l), c)
  BY DEF Whole, HelperOK
<1>2. x.alive /\ x.reports = <<>> /\ x.grant = x.attempt
  BY <1>1 DEF HelperOK
<1>3. /\ y \in Helper /\ y.gate = TRUE /\ y.alive = x.alive /\ y.child = x.child
      /\ y.attempt = x.attempt /\ y.grant = x.grant /\ y.call = x.call
      /\ y.opened = TRUE /\ y.reports = <<Of(x, "ready")>>
  <2>1. Of(x, "ready") \in Reported /\ <<Of(x, "ready")>> \in Seq(Reported)
    BY <1>1 DEF Of, Reported, Helper
  <2>2. Append(x.reports, Of(x, "ready")) = <<Of(x, "ready")>>
    BY <1>2, Appended
  <2>3. y = [x EXCEPT !.gate = TRUE, !.opened = TRUE, !.reports = <<Of(x, "ready")>>]
    BY <1>1, <2>2 DEF Helper, H!Opened, H!Report, Of
  <2> QED  BY <1>1, <1>2, <2>1, <2>3 DEF Helper
<1> HIDE DEF y
<1>4. x.call # None => x.call.event = None
  BY <1>1, <1>2 DEF HelperOK, Helper, Called, OnlyReady, OnlyLost, ReadyLost
<1>5. OnlyReady(y) /\ ~OnlyLost(y) /\ ~ReadyLost(y) /\ y.reports # <<>>
  BY <1>3, ReportsDiffer DEF OnlyReady, Of
<1>6. HelperOK(y)
  BY <1>1, <1>2, <1>3, <1>4, <1>5, NoneIsNew DEF HelperOK
<1>7. WireOK(p, y, l, t) /\ Coming(p, y, l, t) = Coming(p, x, l, t)
  BY <1>1, <1>3, <1>5 DEF WireOK, Coming
<1>8. Facing(p, y, Coming(p, x, l, t), ReplyOn(l), c)
  BY <1>1, <1>2, <1>3, <1>4, <1>5, NoneIsNew DEF Facing, Faces, Held, WireOK, ReplyOn
<1>9. Whole(p, y, l, t, c)
  BY <1>6, <1>7, <1>8 DEF Whole
<1> QED  BY <1>9 DEF y

LEMMA ReapedKeeps ==
    ASSUME NEW p \in Clients, NEW x, NEW l, NEW t, NEW c, Whole(p, x, l, t, c), x.child
    PROVE  Whole(p, H(p)!Reaped(x), l, t, c) /\ H(p)!Reaped(x).alive
<1> DEFINE y == H(p)!Reaped(x)
<1>1. HelperOK(x) /\ x \in Helper /\ WireOK(p, x, l, t)
      /\ Facing(p, x, Coming(p, x, l, t), ReplyOn(l), c)
  BY DEF Whole, HelperOK
<1>2. /\ x.alive /\ x.grant = x.attempt
      /\ x.reports = <<>> \/ (OnlyReady(x) /\ x.opened)
      /\ ~OnlyLost(x)
  BY <1>1 DEF HelperOK
<1>3. /\ y \in Helper /\ y.gate = FALSE /\ y.alive = TRUE /\ y.child = FALSE
      /\ y.attempt = x.attempt /\ y.grant = x.grant /\ y.call = x.call
      /\ y.opened = x.opened /\ y.reports = Append(x.reports, Of(x, "lost"))
  <2>1. Of(x, "lost") \in Reported
    BY <1>1 DEF Of, Reported, Helper
  <2>2. Append(x.reports, Of(x, "lost")) \in Seq(Reported)
    BY <1>1, <2>1 DEF Helper
  <2> QED  BY <1>1, <1>2, <2>2 DEF Helper, H!Reaped, H!Report, Of
<1> HIDE DEF y
<1>4. /\ x.reports = <<>> => OnlyLost(y)
      /\ OnlyReady(x) => ReadyLost(y)
      /\ ~OnlyReady(y) /\ y.reports # <<>>
      /\ x.reports = <<>> => ~ReadyLost(y)
  <2>1. Of(y, "ready") = Of(x, "ready") /\ Of(y, "lost") = Of(x, "lost")
    BY <1>3 DEF Of
  <2>2. /\ x.reports = <<>> => OnlyLost(y)
        /\ OnlyReady(x) => ReadyLost(y)
    BY <1>3, <2>1, Appended DEF OnlyReady, OnlyLost, ReadyLost
  <2> QED  BY <1>2, <2>2, ReportsDiffer
<1>5. /\ ~OnlyReady(x) /\ ~ReadyLost(x) => x.reports = <<>>
      /\ ReadyLost(x) => ~OnlyReady(x) /\ x.reports # <<>>
      /\ OnlyReady(x) => x.reports # <<>>
  BY <1>2, ReportsDiffer
<1>6. x.call # None => x.call.event # "lost" /\ (x.call.event = "ready" => OnlyReady(x))
  BY <1>1, <1>2, <1>5 DEF HelperOK
<1>7. HelperOK(y)
  BY <1>1, <1>2, <1>3, <1>4, <1>5, <1>6 DEF HelperOK
<1>8. WireOK(p, y, l, t) /\ Coming(p, y, l, t) = Coming(p, x, l, t)
  BY <1>1, <1>2, <1>3, <1>4 DEF WireOK, Coming
<1>9. Facing(p, y, Coming(p, x, l, t), ReplyOn(l), c)
  BY <1>1, <1>2, <1>3, <1>4, <1>6 DEF Facing, Faces, Held
<1>10. Whole(p, y, l, t, c)
  BY <1>7, <1>8, <1>9 DEF Whole
<1> QED  BY <1>3, <1>10 DEF y

LEMMA ChangesKeep ==
    ASSUME NEW p \in Clients, NEW x, NEW l, NEW t, NEW c, Whole(p, x, l, t, c), x.alive,
           NEW z \in H(p)!Changes(x)
    PROVE  Whole(p, z, l, t, c)
<1>1. CASE z \in H(p)!Sends(x)
  BY <1>1, SendsKeep
<1>2. CASE z = H(p)!Closed(x) \/ z = H(p)!Returned(x)
  BY <1>2, ClosedKeeps, ReturnedKeeps
<1>3. ASSUME x.child, ~x.opened, NEW y \in H(p)!Sends(x), z \in H(p)!Sends(H(p)!Opened(y))
      PROVE  Whole(p, z, l, t, c)
  <2>1. Whole(p, y, l, t, c) /\ y.child = x.child /\ y.opened = x.opened /\ y.alive
    <3>1. Whole(p, y, l, t, c) /\ y.alive
      BY SendsKeep
    <3>2. x \in Helper
      BY DEF Whole, HelperOK
    <3>3. y.child = x.child /\ y.opened = x.opened
      BY <3>2 DEF H!Sends, H!Send, Helper
    <3> QED  BY <3>1, <3>3
  <2>2. Whole(p, H(p)!Opened(y), l, t, c)
    BY <1>3, <2>1, OpenedKeeps
  <2>3. H(p)!Opened(y).alive
    <3>1. y \in Helper
      BY <2>1 DEF Whole, HelperOK
    <3> QED  BY <2>1, <3>1 DEF H!Opened, H!Report, Helper
  <2> QED  BY <1>3, <2>2, <2>3, SendsKeep
<1>4. ASSUME x.child, z \in H(p)!Sends(H(p)!Reaped(x)) PROVE Whole(p, z, l, t, c)
  <2>1. Whole(p, H(p)!Reaped(x), l, t, c) /\ H(p)!Reaped(x).alive
    BY <1>4, ReapedKeeps
  <2> QED  BY <1>4, <2>1, SendsKeep
<1> QED  BY <1>1, <1>2, <1>3, <1>4 DEF H!Changes

-----------------------------------------------------------------------------
(* What a reply makes of a helper.                                         *)

\* With nothing under way; k is the reply that is being taken.
Taking(p, y, k, c) ==
    /\ HelperOK(y) /\ y.alive /\ y.call = None
    /\ p \in DOMAIN c.members =>
         LET m == c.members[p] IN
         /\ m.session = SessionOf[p] /\ P!Agrees(m, y.attempt)
         /\ Held(y) => P!Accounts(m, y.attempt)
         /\ y.child /\ ~y.opened => P!Covers(m, y.attempt)
         /\ y.gate /\ y.reports = <<>> => ~P!IsPending(m) \/ k.cancel = y.attempt
         /\ ~m.ended /\ k.grant # None => m.active = k.grant
         /\ ~m.ended /\ k.cancel # None => m.active = k.cancel

Taken(p, y, k, c) ==
    /\ Taking(p, y, k, c)
    /\ p \in DOMAIN c.members /\ y.gate /\ y.reports = <<>> => ~P!IsPending(c.members[p])

\* Nothing is under way on the connections.
Silent(l, t) ==
    /\ l # None => IsLink(l) /\ l.request = None /\ l.reply = None
    /\ t # None => IsStale(t) /\ t.request = None

LEMMA SilentIsWhole ==
    ASSUME NEW p \in Clients, NEW y, NEW k, NEW c, Taken(p, y, k, c),
           NEW l, NEW t, Silent(l, t)
    PROVE  Whole(p, y, l, t, c)
<1>1. HelperOK(y) /\ y.call = None /\ y.alive
  BY DEF Taken, Taking
<1>2. WireOK(p, y, l, t) /\ ReplyOn(l) = None /\ Coming(p, y, l, t) = {}
  BY <1>1 DEF Silent, WireOK, ReplyOn, Coming, Sent
<1>3. Facing(p, y, {}, None, c)
  BY <1>1 DEF Facing, Faces, Taken, Taking
<1> QED  BY <1>1, <1>2, <1>3 DEF Whole

LEMMA TakingEnds ==
    ASSUME NEW p \in Clients, NEW y, NEW k, NEW c, Taking(p, y, k, c),
           NEW l, NEW t, Silent(l, t)
    PROVE  Whole(p, H(p)!Returned(y), l, t, c)
<1> DEFINE z == H(p)!Returned(y)
<1>1. HelperOK(y) /\ y \in Helper
  BY DEF Taking, HelperOK
<1>2. /\ z \in Helper /\ z.gate = FALSE /\ z.alive = FALSE /\ z.child = FALSE /\ z.call = None
      /\ z.attempt = y.attempt /\ z.grant = y.grant
      /\ z.opened = y.opened /\ z.reports = y.reports
  BY <1>1 DEF Helper, H!Returned
<1> HIDE DEF z
<1>3. HelperOK(z)
  BY <1>1, <1>2 DEF HelperOK, OnlyReady, OnlyLost, ReadyLost, Of
<1>4. WireOK(p, z, l, t) /\ ReplyOn(l) = None /\ Coming(p, z, l, t) = {}
  BY <1>2 DEF Silent, WireOK, ReplyOn, Coming, Sent
<1>5. Facing(p, z, {}, None, c)
  BY <1>2 DEF Facing, Faces, Taking, Held
<1>6. Whole(p, z, l, t, c)
  BY <1>3, <1>4, <1>5 DEF Whole
<1> QED  BY <1>6 DEF z

LEMMA HeadsAndTails ==
    ASSUME NEW a, NEW b
    PROVE  /\ Head(<<a>>) = a /\ Tail(<<a>>) = <<>>
           /\ Head(<<a, b>>) = a /\ Tail(<<a, b>>) = <<b>>
<1>1. <<a>> \in Seq({a, b}) /\ <<a, b>> \in Seq({a, b}) /\ <<b>> \in Seq({a, b})
  OBVIOUS
<1>2. Head(<<a>>) = a /\ Tail(<<a>>) = <<>> /\ Head(<<a, b>>) = a
  BY <1>1
<1> DEFINE w == Tail(<<a, b>>)
<1>3. w \in Seq({a, b}) /\ Len(w) = 1 /\ w[1] = b
  BY <1>1
<1> HIDE DEF w
<1>4. w = <<b>>
  BY <1>3
<1> QED  BY <1>2, <1>4 DEF w

LEMMA AcknowledgeTakes ==
    ASSUME NEW p \in Clients, NEW x, NEW l, NEW t, NEW c, Whole(p, x, l, t, c), x.alive,
           l # None, l.reply # None, x.call.event = "lost" => x.attempt < MaxAttempts
    PROVE  LET y == [H(p)!Acknowledge(x) EXCEPT !.call = None] IN
           /\ Taking(p, y, l.reply, c)
           /\ x.call.event = None => y.attempt = x.attempt
<1> DEFINE k == l.reply
           y == [H(p)!Acknowledge(x) EXCEPT !.call = None]
<1>1. /\ HelperOK(x) /\ x \in Helper /\ WireOK(p, x, l, t)
      /\ Facing(p, x, Coming(p, x, l, t), k, c)
      /\ x.call # None /\ x.call \in Called
  BY DEF Whole, HelperOK, WireOK, ReplyOn, Helper
<1>2. p \in DOMAIN c.members => Faces(p, x, k, c.members[p])
  BY <1>1 DEF Facing
<1>3. x.call.event \in {None, "ready", "lost"} /\ x.call.attempt = x.attempt
  BY <1>1 DEF HelperOK, Called
<1>4. CASE x.call.event = None
  <2>1. y = [x EXCEPT !.call = None]
    BY <1>4 DEF H!Acknowledge
  <2> HIDE DEF y
  <2>2. /\ y \in Helper /\ y.gate = x.gate /\ y.alive = x.alive /\ y.child = x.child /\ y.call = None
        /\ y.attempt = x.attempt /\ y.grant = x.grant
        /\ y.opened = x.opened /\ y.reports = x.reports
    BY <1>1, <2>1 DEF Helper
  <2>3. HelperOK(y)
    BY <1>1, <2>2 DEF HelperOK, OnlyReady, OnlyLost, ReadyLost, Of
  <2>4. Taking(p, y, k, c)
    BY <1>1, <1>2, <2>2, <2>3 DEF Taking, Faces, Held
  <2> QED  BY <2>2, <2>4 DEF y
<1>5. CASE x.call.event = "ready"
  <2>1. OnlyReady(x) \/ ReadyLost(x)
    BY <1>1, <1>5 DEF HelperOK
  <2>2. /\ x.reports # <<>> /\ Head(x.reports) = [attempt |-> x.call.attempt, event |-> x.call.event]
        /\ OnlyReady(x) => Tail(x.reports) = <<>>
        /\ ReadyLost(x) => Tail(x.reports) = <<Of(x, "lost")>>
        /\ Tail(x.reports) \in Seq(Reported)
    <3>1. Of(x, "lost") \in Reported /\ x.reports \in Seq(Reported)
      BY <1>1 DEF Of, Reported, Helper
    <3>2. Of(x, "ready") = [attempt |-> x.call.attempt, event |-> x.call.event]
      BY <1>3, <1>5 DEF Of
    <3>3. CASE OnlyReady(x)
      BY <3>1, <3>2, <3>3, ReportsDiffer, HeadsAndTails DEF OnlyReady
    <3>4. CASE ReadyLost(x)
      <4>1. <<Of(x, "lost")>> \in Seq(Reported)
        BY <3>1
      <4> QED  BY <3>2, <3>4, <4>1, ReportsDiffer, HeadsAndTails DEF ReadyLost
    <3> QED  BY <2>1, <3>3, <3>4
  <2>3. y = [[x EXCEPT !.reports = Tail(x.reports)] EXCEPT !.call = None]
    BY <1>1, <1>5, <2>2, NoneIsNew DEF H!Acknowledge
  <2> HIDE DEF y
  <2>4. /\ y \in Helper /\ y.gate = x.gate /\ y.alive = x.alive /\ y.child = x.child /\ y.call = None
        /\ y.attempt = x.attempt /\ y.grant = x.grant
        /\ y.opened = x.opened /\ y.reports = Tail(x.reports)
    BY <1>1, <2>2, <2>3 DEF Helper
  <2>5. /\ OnlyReady(x) => y.reports = <<>>
        /\ ReadyLost(x) => OnlyLost(y)
    BY <2>2, <2>4 DEF OnlyLost, Of
  <2>6. /\ y.reports = <<>> => ~OnlyReady(y) /\ ~OnlyLost(y) /\ ~ReadyLost(y)
        /\ OnlyLost(y) => ~OnlyReady(y) /\ ~ReadyLost(y)
    BY ReportsDiffer
  <2>7. HelperOK(y)
    BY <1>1, <2>1, <2>4, <2>5, <2>6 DEF HelperOK
  <2>8. Held(y) => Held(x)
    BY <2>1, <2>4, ReportsDiffer DEF Held
  <2>9. Taking(p, y, k, c)
    BY <1>1, <1>2, <1>5, <2>4, <2>7, <2>8 DEF Taking, Faces
  <2> QED  BY <1>5, <2>9, NoneIsNew DEF y
<1>6. CASE x.call.event = "lost"
  <2>1. OnlyLost(x) /\ ~x.child /\ ~x.gate
    BY <1>1, <1>6 DEF HelperOK, Helper
  <2>2. /\ x.reports # <<>> /\ Head(x.reports) = [attempt |-> x.call.attempt, event |-> x.call.event]
        /\ Tail(x.reports) = <<>>
    <3>1. Of(x, "lost") \in Reported /\ x.reports \in Seq(Reported)
      BY <1>1 DEF Of, Reported, Helper
    <3> QED  BY <1>3, <1>6, <2>1, <3>1 DEF OnlyLost, Of
  <2> DEFINE v == H(p)!Acknowledge(x)
  <2>3. v = [x EXCEPT !.reports = Tail(@), !.grant = None, !.attempt = @ + 1, !.opened = FALSE]
    BY <1>1, <1>6, <2>2, NoneIsNew DEF H!Acknowledge
  <2>4. x.attempt + 1 \in Attempts /\ <<>> \in Seq(Reported)
    BY <1>1, <1>6, MirrorConstants DEF Helper, Attempts
  <2> HIDE DEF v
  <2>5. /\ v \in Helper /\ v.gate = x.gate /\ v.alive = x.alive /\ v.child = x.child
        /\ v.attempt = x.attempt + 1 /\ v.grant = None
        /\ v.opened = FALSE /\ v.reports = <<>>
    BY <1>1, <2>2, <2>3, <2>4 DEF Helper
  <2>6. y = [v EXCEPT !.call = None]
    BY DEF v
  <2> HIDE DEF y
  <2>7. /\ y \in Helper /\ y.gate = x.gate /\ y.alive = x.alive /\ y.child = x.child /\ y.call = None
        /\ y.attempt = x.attempt + 1 /\ y.grant = None
        /\ y.opened = FALSE /\ y.reports = <<>>
    BY <2>5, <2>6 DEF Helper
  <2>8. ~OnlyReady(y) /\ ~OnlyLost(y) /\ ~ReadyLost(y)
    BY <2>7, ReportsDiffer
  <2>9. HelperOK(y)
    BY <1>1, <2>1, <2>7, <2>8 DEF HelperOK
  <2>10. p \in DOMAIN c.members => P!Agrees(c.members[p], y.attempt)
    BY <1>2, <1>6, <1>1 DEF Faces, P!Agrees, P!Settled
  <2>11. Taking(p, y, k, c)
    BY <1>1, <1>2, <2>1, <2>7, <2>9, <2>10 DEF Taking, Faces, Held
  <2> QED  BY <1>6, <2>11, NoneIsNew DEF y
<1> QED  BY <1>3, <1>4, <1>5, <1>6

LEMMA RevokeTakes ==
    ASSUME NEW p \in Clients, NEW y, NEW k, NEW c, Taking(p, y, k, c)
    PROVE  Taken(p, H(p)!Revoke(y, k), k, c)
<1> DEFINE z == H(p)!Revoke(y, k)
<1>1. HelperOK(y) /\ y \in Helper /\ y.alive /\ y.call = None
  BY DEF Taking, HelperOK
<1>2. CASE y.child /\ k.cancel = y.grant
  <2>1. z = H(p)!Closed(y)
    BY <1>2 DEF H!Revoke
  <2> HIDE DEF z
  <2>2. /\ z \in Helper /\ z.gate = FALSE /\ z.call = y.call
        /\ z.alive = y.alive /\ z.attempt = y.attempt /\ z.grant = y.grant /\ z.child = y.child
        /\ z.opened = y.opened /\ z.reports = y.reports
    BY <1>1, <2>1 DEF Helper, H!Closed
  <2>3. HelperOK(z)
    BY <1>1, <2>2 DEF HelperOK, OnlyReady, OnlyLost, ReadyLost, Of
  <2>4. Taken(p, z, k, c)
    BY <1>1, <2>2, <2>3 DEF Taken, Taking, Held
  <2> QED  BY <2>4 DEF z
<1>3. CASE y.child /\ k.cancel # y.grant
  <2>1. z = y
    BY <1>3 DEF H!Revoke
  <2>2. y.grant = y.attempt
    BY <1>1, <1>3 DEF HelperOK
  <2>3. Taken(p, y, k, c)
    BY <1>3, <2>2 DEF Taken, Taking
  <2> QED  BY <2>1, <2>3
<1>4. CASE ~y.child /\ (~k.reset \/ y.reports # <<>>)
  <2>1. z = y
    BY <1>4 DEF H!Revoke
  <2>2. ~y.gate
    BY <1>1, <1>4 DEF HelperOK
  <2>3. Taken(p, y, k, c)
    BY <2>2 DEF Taken, Taking
  <2> QED  BY <2>1, <2>3
<1>5. CASE ~y.child /\ k.reset /\ y.reports = <<>>
  <2> DEFINE u == [y EXCEPT !.grant = None]
  <2>1. z = IF k.cancel = y.attempt THEN H(p)!Report(u, y.attempt, "lost") ELSE u
    BY <1>5 DEF H!Revoke
  <2>2. ~y.gate /\ y.gate = FALSE
    BY <1>1, <1>5 DEF HelperOK, Helper
  <2>3. ~OnlyReady(y) /\ ~OnlyLost(y) /\ ~ReadyLost(y)
    BY <1>5, ReportsDiffer
  <2>4. CASE k.cancel = y.attempt
    <3>1. Of(y, "lost") \in Reported /\ Append(y.reports, Of(y, "lost")) = <<Of(y, "lost")>>
          /\ <<Of(y, "lost")>> \in Seq(Reported)
      BY <1>1, <1>5, Appended DEF Of, Reported, Helper
    <3>2. z = [y EXCEPT !.grant = None, !.reports = <<Of(y, "lost")>>]
      BY <1>1, <2>1, <2>4, <3>1 DEF H!Report, Of, Helper
    <3> HIDE DEF z
    <3>3. /\ z \in Helper /\ z.gate = FALSE /\ z.call = y.call
          /\ z.alive = y.alive /\ z.attempt = y.attempt /\ z.grant = None /\ z.child = y.child
          /\ z.opened = y.opened /\ z.reports = <<Of(z, "lost")>>
      BY <1>1, <2>2, <3>1, <3>2 DEF Helper, Of
    <3>4. OnlyLost(z) /\ ~OnlyReady(z) /\ ~ReadyLost(z)
      BY <3>3, ReportsDiffer DEF OnlyLost
    <3>5. HelperOK(z)
      BY <1>1, <1>5, <3>3, <3>4 DEF HelperOK
    <3>6. y.attempt # None
      BY <1>1, NoneIsNew DEF Helper
    <3>7. Taken(p, z, k, c)
      BY <1>1, <1>5, <2>4, <3>3, <3>5, <3>6 DEF Taken, Taking, P!Accounts
    <3> QED  BY <3>7 DEF z
  <2>5. CASE k.cancel # y.attempt
    <3>1. z = u
      BY <2>1, <2>5
    <3> HIDE DEF z
    <3>2. /\ z \in Helper /\ z.gate = FALSE /\ z.call = y.call
          /\ z.alive = y.alive /\ z.attempt = y.attempt /\ z.grant = None /\ z.child = y.child
          /\ z.opened = y.opened /\ z.reports = y.reports
      BY <1>1, <2>2, <3>1 DEF Helper
    <3>3. HelperOK(z)
      BY <1>1, <1>5, <2>3, <3>2 DEF HelperOK, OnlyReady, OnlyLost, ReadyLost, Of
    <3>4. Taken(p, z, k, c)
      BY <1>1, <1>5, <3>2, <3>3 DEF Taken, Taking, Held
    <3> QED  BY <3>4 DEF z
  <2> QED  BY <2>4, <2>5
<1> QED  BY <1>2, <1>3, <1>4, <1>5

LEMMA BeginTakes ==
    ASSUME NEW p \in Clients, NEW y, NEW k, NEW c, Taken(p, y, k, c),
           NEW call, H(p)!Accepts(y, call, k), NEW begun \in H(p)!Outcomes
    PROVE  Taken(p, H(p)!Begin(y, begun), k, c)
<1> DEFINE z == H(p)!Begin(y, begun)
<1>1. HelperOK(y) /\ y \in Helper /\ y.alive /\ y.call = None
  BY DEF Taken, Taking, HelperOK
<1>2. ~y.child /\ y.reports = <<>> /\ y.grant = None /\ k.grant = y.attempt /\ k.grant # None
  BY DEF H!Accepts
<1>3. ~y.gate /\ y.gate = FALSE
  BY <1>1, <1>2 DEF HelperOK, Helper
<1>4. Of(y, "lost") \in Reported /\ Append(y.reports, Of(y, "lost")) = <<Of(y, "lost")>>
      /\ <<Of(y, "lost")>> \in Seq(Reported)
  BY <1>1, <1>2, Appended DEF Of, Reported, Helper
<1>5. CASE begun \in {"late", "failed"}
  <2>1. /\ z \in Helper /\ z.gate = FALSE /\ z.call = y.call
        /\ z.alive = y.alive /\ z.attempt = y.attempt /\ z.grant \in {y.attempt, None}
        /\ z.child = y.child /\ z.opened = y.opened /\ z.reports = <<Of(z, "lost")>>
    <3>1. CASE begun = "late"
      <4>1. z = [y EXCEPT !.reports = <<Of(y, "lost")>>]
        BY <1>1, <1>4, <3>1 DEF H!Begin, H!Report, Of
      <4> HIDE DEF z
      <4> QED  BY <1>1, <1>2, <1>3, <1>4, <4>1 DEF Helper, Of
    <3>2. CASE begun = "failed"
      <4>1. z = [y EXCEPT !.grant = y.attempt, !.reports = <<Of(y, "lost")>>]
        BY <1>1, <1>4, <3>2 DEF H!Begin, H!Report, Of, Helper
      <4> HIDE DEF z
      <4> QED  BY <1>1, <1>2, <1>3, <1>4, <4>1 DEF Helper, Of
    <3> QED  BY <1>5, <3>1, <3>2
  <2> HIDE DEF z
  <2>2. OnlyLost(z) /\ ~OnlyReady(z) /\ ~ReadyLost(z)
    BY <2>1, ReportsDiffer DEF OnlyLost
  <2>3. HelperOK(z)
    BY <1>1, <1>2, <2>1, <2>2 DEF HelperOK
  <2>4. Taken(p, z, k, c)
    BY <1>1, <1>2, <2>1, <2>3 DEF Taken, Taking, P!Accounts
  <2> QED  BY <2>4 DEF z
<1>6. CASE begun = "started"
  <2>1. z = [y EXCEPT !.grant = y.attempt, !.child = TRUE]
    BY <1>6 DEF H!Begin
  <2> HIDE DEF z
  <2>2. /\ z \in Helper /\ z.gate = FALSE /\ z.call = y.call
        /\ z.alive = y.alive /\ z.attempt = y.attempt /\ z.grant = y.attempt
        /\ z.child = TRUE /\ z.opened = y.opened /\ z.reports = <<>>
    BY <1>1, <1>2, <1>3, <2>1 DEF Helper
  <2>3. ~OnlyReady(z) /\ ~OnlyLost(z) /\ ~ReadyLost(z)
    BY <2>2, ReportsDiffer
  <2>4. HelperOK(z)
    BY <1>1, <1>2, <2>2, <2>3 DEF HelperOK
  <2>5. Taken(p, z, k, c)
    BY <1>1, <1>2, <2>2, <2>4 DEF Taken, Taking, P!Accounts, P!Covers
  <2> QED  BY <2>5 DEF z
<1> QED  BY <1>5, <1>6 DEF H!Outcomes

LEMMA AnsweredKeeps ==
    ASSUME NEW p \in Clients, NEW x, NEW l, NEW t, NEW c, Whole(p, x, l, t, c), x.alive,
           l # None, l.reply # None, x.call.event = "lost" => x.attempt < MaxAttempts,
           NEW begun \in H(p)!Outcomes, NEW y \in H(p)!Answered(x, l.reply, begun)
    PROVE  Whole(p, y, [l EXCEPT !.reply = None], t, c)
<1> DEFINE k  == l.reply
           l2 == [l EXCEPT !.reply = None]
           u  == [H(p)!Acknowledge(x) EXCEPT !.call = None]
           v  == H(p)!Revoke(u, k)
           w  == IF H(p)!Accepts(v, x.call, k) THEN H(p)!Begin(v, begun) ELSE v
<1>1. Silent(l2, t)
  BY DEF Whole, WireOK, IsLink, IsStale, Silent
<1>2. Taking(p, u, k, c)
  BY AcknowledgeTakes
<1>3. y \in IF k.ended THEN {H(p)!Returned(u)} ELSE H(p)!Sends(w)
  BY DEF H!Answered
<1> HIDE DEF u, l2
<1>4. Whole(p, H(p)!Returned(u), l2, t, c)
  BY <1>1, <1>2, TakingEnds
<1>5. Taken(p, v, k, c)
  BY <1>2, RevokeTakes
<1> HIDE DEF v
<1>6. Taken(p, w, k, c)
  BY <1>5, BeginTakes
<1> HIDE DEF w
<1>7. Whole(p, w, l2, t, c) /\ w.alive
  BY <1>1, <1>6, SilentIsWhole DEF Taken, Taking
<1>8. y \in H(p)!Sends(w) => Whole(p, y, l2, t, c)
  BY <1>7, SendsKeep
<1>9. Whole(p, y, l2, t, c)
  BY <1>3, <1>4, <1>8
<1> QED  BY <1>9 DEF l2

-----------------------------------------------------------------------------
(* Connections, and what the coordinator does of its own.                  *)

LEMMA LessIsWhole ==
    ASSUME NEW p, NEW x, NEW l, NEW t, NEW c, Whole(p, x, l, t, c),
           NEW y, HelperOK(y), y = x \/ y = [x EXCEPT !.call = None],
           NEW l2, NEW t2, WireOK(p, y, l2, t2),
           Coming(p, y, l2, t2) \subseteq Coming(p, x, l, t),
           ReplyOn(l2) = None \/ (ReplyOn(l2) = ReplyOn(l) /\ y = x)
    PROVE  Whole(p, y, l2, t2, c)
<1>1. /\ y.alive = x.alive /\ y.attempt = x.attempt /\ y.grant = x.grant /\ y.child = x.child
      /\ y.gate = x.gate /\ y.opened = x.opened /\ y.reports = x.reports
  BY DEF Whole, HelperOK, Helper
<1>2. Facing(p, x, Coming(p, y, l2, t2), ReplyOn(l2), c)
  BY FewerFace DEF Whole
<1>3. Facing(p, y, Coming(p, y, l2, t2), ReplyOn(l2), c)
  BY <1>1, <1>2 DEF Facing, Faces, Held
<1> QED  BY <1>3 DEF Whole

LEMMA FrameAsked ==
    ASSUME NEW p \in Clients, NEW x, HelperOK(x), x.call # None
    PROVE  LET f == Frame(p, x.call) IN
           /\ f \in Asked(p, x.attempt) /\ f.event # "leave"
           /\ f.event = "lost" => f.state = "offline"
<1>1. x.call \in Called /\ x.call.attempt = x.attempt
  BY DEF HelperOK, Helper
<1> QED  BY <1>1, NoneIsNew DEF HelperOK, Frame, Asked, Called

LEMMA WriteKeeps ==
    ASSUME NEW p \in Clients, NEW x, NEW l, NEW t, NEW c, Whole(p, x, l, t, c), x.alive,
           x.call # None, l = None \/ Idle(l)
    PROVE  Whole(p, x, [NewLink EXCEPT !.request = Frame(p, x.call)], t, c)
<1> DEFINE f  == Frame(p, x.call)
           l2 == [NewLink EXCEPT !.request = f]
<1>1. HelperOK(x) /\ WireOK(p, x, l, t)
  BY DEF Whole
<1>2. f \in Asked(p, x.attempt) /\ f.event # "leave" /\ (f.event = "lost" => f.state = "offline")
  BY <1>1, FrameAsked
<1> HIDE DEF f
<1>3. l2 \in [request : {f}, reply : {None}, served : {TRUE}]
  BY DEF NewLink
<1>4. WireOK(p, x, l2, t)
  BY <1>1, <1>2, <1>3 DEF WireOK, IsLink, f
<1>5. Coming(p, x, l, t) = Sent(l, t) \cup {f}
  BY DEF Coming, f
<1>6. Coming(p, x, l2, t) \subseteq Coming(p, x, l, t)
  <2>1. Sent(l2, t) \subseteq Sent(l, t) \cup {f}
    BY <1>3 DEF Sent
  <2> QED  BY <1>5, <2>1 DEF Coming, f
<1>7. ReplyOn(l2) = None
  BY <1>3 DEF ReplyOn
<1> HIDE DEF l2
<1>8. Whole(p, x, l2, t, c)
  BY <1>1, <1>4, <1>6, <1>7, LessIsWhole
<1> QED  BY <1>8 DEF l2, f

LEMMA LeaveKeeps ==
    ASSUME NEW p \in Clients, NEW x, NEW l, NEW t, NEW c, Whole(p, x, l, t, c), ~x.alive,
           l = None \/ Idle(l), NEW r \in Asked(p, x.attempt), r.event = "leave"
    PROVE  Whole(p, x, [NewLink EXCEPT !.request = r], t, c)
<1> DEFINE l2 == [NewLink EXCEPT !.request = r]
<1>1. HelperOK(x) /\ WireOK(p, x, l, t) /\ x.call = None /\ ~x.child /\ ~Held(x)
  BY DEF Whole, HelperOK, Held
<1>2. l2 \in [request : {r}, reply : {None}, served : {TRUE}]
  BY DEF NewLink
<1>3. WireOK(p, x, l2, t) /\ ReplyOn(l2) = None
  BY <1>1, <1>2 DEF WireOK, IsLink, ReplyOn
<1>4. Coming(p, x, l2, t) \subseteq Coming(p, x, l, t) \cup {r}
  BY <1>1, <1>2 DEF Coming, Sent
<1> HIDE DEF l2
<1>5. Facing(p, x, Coming(p, x, l, t), ReplyOn(l), c)
  BY DEF Whole
<1>6. ~Telling(r)
  BY DEF Telling
<1>7. Facing(p, x, Coming(p, x, l, t) \cup {r}, None, c)
  BY <1>1, <1>5, <1>6 DEF Facing, Faces
<1>8. Whole(p, x, l2, t, c)
  BY <1>1, <1>3, <1>4, <1>7, FewerFace DEF Whole
<1> QED  BY <1>8 DEF l2

\* The connection is given up, by a helper that drops its call or has none.
LEMMA DisconnectKeeps ==
    ASSUME NEW p \in Clients, NEW x, NEW l, NEW t, NEW c, Whole(p, x, l, t, c),
           l # None, l.served => t = None,
           NEW y, y = [x EXCEPT !.call = None] \/ (y = x /\ ~x.alive)
    PROVE  Whole(p, y, None, IF l.served THEN [request |-> l.request] ELSE t, c)
<1> DEFINE t2 == IF l.served THEN [request |-> l.request] ELSE t
<1>1. HelperOK(x) /\ x \in Helper /\ WireOK(p, x, l, t)
  BY DEF Whole, HelperOK
<1>2. y \in Helper /\ y.alive = x.alive /\ y.attempt = x.attempt /\ y.grant = x.grant
      /\ y.child = x.child /\ y.gate = x.gate /\ y.opened = x.opened /\ y.reports = x.reports
      /\ y.call = None
  <2>1. ~x.alive => x.call = None
    BY <1>1 DEF HelperOK
  <2> QED  BY <1>1, <2>1 DEF Helper
<1>3. HelperOK(y)
  BY <1>1, <1>2 DEF HelperOK, OnlyReady, OnlyLost, ReadyLost, Of
<1>4. WireOK(p, y, None, t2)
  <2>1. CASE l.served
    <3>1. t2 = [request |-> l.request]
      BY <2>1
    <3>2. ASSUME l.request # None, x.alive, l.request.event # None PROVE x.reports # <<>>
      <4>1. x.call # None /\ l.request = Frame(p, x.call)
        BY <1>1, <3>2 DEF WireOK
      <4>2. x.call.event # None /\ x.call.event \in {None, "ready", "lost"}
        BY <1>1, <3>2, <4>1 DEF Frame, Helper, Called
      <4> QED  BY <1>1, <4>1, <4>2, ReportsDiffer DEF HelperOK
    <3> HIDE DEF t2
    <3> QED  BY <1>1, <1>2, <3>1, <3>2 DEF WireOK, IsStale
  <2>2. CASE ~l.served
    BY <1>1, <1>2, <2>2 DEF WireOK
  <2> QED  BY <2>1, <2>2
<1>5. Coming(p, y, None, t2) \subseteq Coming(p, x, l, t)
  BY <1>1, <1>2 DEF Coming, Sent, WireOK
<1>6. ReplyOn(None) = None
  BY DEF ReplyOn
<1> HIDE DEF t2
<1>7. Whole(p, y, None, t2, c)
  BY <1>3, <1>4, <1>5, <1>6, LessIsWhole
<1> QED  BY <1>7 DEF t2

LEMMA CallDroppedKeeps ==
    ASSUME NEW p \in Clients, NEW x, NEW l, NEW t, NEW c, Whole(p, x, l, t, c), x.alive
    PROVE  LET y == H(p)!CallDropped(x) IN
           /\ l = None => Whole(p, y, l, t, c)
           /\ l # None /\ l.reply # None => Whole(p, y, [l EXCEPT !.reply = None], t, c)
<1> DEFINE y == H(p)!CallDropped(x)
           l2 == [l EXCEPT !.reply = None]
<1>1. HelperOK(x) /\ x \in Helper /\ WireOK(p, x, l, t)
  BY DEF Whole, HelperOK
<1>2. y = [x EXCEPT !.call = None]
  BY DEF H!CallDropped
<1> HIDE DEF y
<1>3. y \in Helper /\ y.alive = x.alive /\ y.attempt = x.attempt /\ y.grant = x.grant
      /\ y.child = x.child /\ y.gate = x.gate /\ y.opened = x.opened /\ y.reports = x.reports
      /\ y.call = None
  BY <1>1, <1>2 DEF Helper
<1>4. HelperOK(y)
  BY <1>1, <1>3 DEF HelperOK, OnlyReady, OnlyLost, ReadyLost, Of
<1>5. CASE l = None
  <2>1. WireOK(p, y, l, t) /\ ReplyOn(l) = None /\ Coming(p, y, l, t) \subseteq Coming(p, x, l, t)
    BY <1>1, <1>3, <1>5 DEF WireOK, ReplyOn, Coming
  <2>2. Whole(p, y, l, t, c)
    BY <1>2, <1>4, <2>1, LessIsWhole
  <2> QED  BY <1>5, <2>2 DEF y
<1>6. CASE l # None /\ l.reply # None
  <2>1. l2 # None => IsLink(l2) /\ l2.request = None /\ l2.reply = None
    BY <1>1, <1>6 DEF WireOK, IsLink
  <2> HIDE DEF l2
  <2>2. WireOK(p, y, l2, t) /\ ReplyOn(l2) = None
    BY <1>1, <1>3, <1>6, <2>1 DEF WireOK, ReplyOn
  <2>3. Coming(p, y, l2, t) \subseteq Coming(p, x, l, t)
    BY <1>3, <2>1 DEF Coming, Sent
  <2>4. Whole(p, y, l2, t, c)
    BY <1>2, <1>4, <2>2, <2>3, LessIsWhole
  <2> QED  BY <1>6, <2>4 DEF y, l2
<1> QED  BY <1>5, <1>6

\* The server reads no more from a connection, or has answered nothing.
LEMMA ServerClosesKeeps ==
    ASSUME NEW p \in Clients, NEW x, NEW l, NEW t, NEW c, Whole(p, x, l, t, c)
    PROVE  /\ Whole(p, x, l, None, c)
           /\ Whole(p, x, l, [request |-> None], c)
           /\ l # None => Whole(p, x, [l EXCEPT !.request = None, !.served = FALSE], t, c)
           /\ l # None /\ l.reply = None => Whole(p, x, [NewLink EXCEPT !.served = FALSE], t, c)
<1>1. HelperOK(x) /\ WireOK(p, x, l, t)
  BY DEF Whole
<1>2. ASSUME NEW t2 \in {None, [request |-> None]} PROVE Whole(p, x, l, t2, c)
  <2>1. t2 # None => IsStale(t2) /\ t2.request = None
    BY DEF IsStale
  <2>2. WireOK(p, x, l, t2)
    BY <1>1, <2>1 DEF WireOK
  <2>3. Coming(p, x, l, t2) \subseteq Coming(p, x, l, t)
    BY <2>1 DEF Coming, Sent
  <2> QED  BY <1>1, <2>2, <2>3, LessIsWhole
<1>3. ASSUME l # None PROVE Whole(p, x, [l EXCEPT !.request = None, !.served = FALSE], t, c)
  <2> DEFINE l2 == [l EXCEPT !.request = None, !.served = FALSE]
  <2>1. l2 \in [request : {None}, reply : {l.reply}, served : {FALSE}]
    BY <1>1, <1>3 DEF WireOK, IsLink
  <2> HIDE DEF l2
  <2>2. WireOK(p, x, l2, t)
    BY <1>1, <1>3, <2>1 DEF WireOK, IsLink
  <2>3. ReplyOn(l2) = None \/ ReplyOn(l2) = ReplyOn(l)
    BY <1>3, <2>1 DEF ReplyOn
  <2>4. Coming(p, x, l2, t) \subseteq Coming(p, x, l, t)
    <3>1. Sent(l2, t) \subseteq Sent(l, t)
      BY <1>3, <2>1 DEF Sent
    <3> QED  BY <3>1 DEF Coming
  <2>5. Whole(p, x, l2, t, c)
    BY <1>1, <2>2, <2>3, <2>4, LessIsWhole
  <2> QED  BY <2>5 DEF l2
<1>4. ASSUME l # None, l.reply = None PROVE Whole(p, x, [NewLink EXCEPT !.served = FALSE], t, c)
  <2> DEFINE l2 == [NewLink EXCEPT !.served = FALSE]
  <2>1. l2 \in [request : {None}, reply : {None}, served : {FALSE}]
    BY DEF NewLink
  <2> HIDE DEF l2
  <2>2. WireOK(p, x, l2, t) /\ ReplyOn(l2) = None
    BY <1>1, <2>1 DEF WireOK, IsLink, ReplyOn
  <2>3. Coming(p, x, l2, t) \subseteq Coming(p, x, l, t)
    BY <2>1 DEF Coming, Sent
  <2>4. Whole(p, x, l2, t, c)
    BY <1>1, <2>2, <2>3, LessIsWhole
  <2> QED  BY <2>4 DEF l2
<1> QED  BY <1>2, <1>3, <1>4

-----------------------------------------------------------------------------
(* What the coordinator makes of a member.                                 *)

\* Steps that are not about the helper leave what it faces in order.
LEMMA DriftKeeps ==
    ASSUME NEW p \in Clients, NEW x, NEW l, NEW t, NEW c, Whole(p, x, l, t, c),
           NEW d, p \in DOMAIN d.members =>
                     /\ p \in DOMAIN c.members
                     /\ c.members[p] \in P!Member /\ d.members[p] \in P!Member
                     /\ P!Drifts(d.members[p], c.members[p])
    PROVE  /\ Whole(p, x, l, t, d)
           /\ p \in DOMAIN d.members /\ P!IsPending(c.members[p])
                => d.members[p].ended \/ P!IsPending(d.members[p])
<1> DEFINE R == Coming(p, x, l, t)
           k == ReplyOn(l)
           m == c.members[p]
           n == d.members[p]
           a == x.attempt
<1>1. HelperOK(x) /\ a \in 1..MaxAttempts /\ Facing(p, x, R, k, c)
  BY DEF Whole, HelperOK, Helper, Attempts
<1> HIDE DEF R, k
<1>2. CASE p \notin DOMAIN d.members
  <2>1. Facing(p, x, R, k, d)
    BY <1>1, <1>2 DEF Facing
  <2> QED  BY <1>2, <2>1 DEF Whole, R, k
<1>3. CASE p \in DOMAIN d.members
  <2>1. p \in DOMAIN c.members /\ m \in P!Member /\ n \in P!Member /\ P!Drifts(n, m)
    BY <1>3
  <2>2. Faces(p, x, k, m)
    BY <1>1, <2>1 DEF Facing
  <2>3. P!Carries(n, m, a)
    BY <1>1, <2>1, <2>2, CoordinatorConstants, P!DriftCarries DEF Faces
  <2>4. n.session = m.session /\ (m.ended => n.ended)
    BY <2>1 DEF P!Drifts
  <2> HIDE DEF m, n, a
  <2>5. Held(x) => P!Accounts(m, a)
    BY <2>2 DEF Faces, a
  <2>6. /\ n.session = SessionOf[p] /\ P!Agrees(n, a)
        /\ Held(x) => P!Accounts(n, a)
        /\ x.child /\ ~x.opened => P!Covers(n, a)
    BY <2>2, <2>3, <2>4 DEF Faces, P!Carries, a
  <2>7. x.gate => Held(x)
    BY <1>1 DEF HelperOK, Held
  <2>8. x.gate /\ x.reports = <<>> => ~P!IsPending(n)
    BY <2>2, <2>3, <2>5, <2>7 DEF Faces, P!Carries
  <2>9. ASSUME x.alive, k # None
        PROVE  /\ k.ended => n.ended
               /\ ~n.ended /\ k.grant # None => n.active = k.grant
               /\ ~n.ended /\ k.cancel # None => n.active = k.cancel
               /\ x.call.event = "lost" => P!Settled(n)
    BY <2>2, <2>3, <2>4, <2>9 DEF Faces, P!Carries
  <2>10. ASSUME x.alive, k # None, x.call.event = "ready"
         PROVE  k.cancel = a \/ ~P!IsPending(n)
    <3>1. k.cancel = a \/ ~P!IsPending(m)
      BY <2>2, <2>10 DEF Faces, a
    <3>2. x.call # None
      BY <1>1, <2>10 DEF Whole, WireOK, ReplyOn, k
    <3>3. Held(x)
      BY <1>1, <2>10, <3>2, ReportsDiffer DEF HelperOK, Held
    <3> QED  BY <2>3, <2>5, <3>1, <3>3 DEF P!Carries
  <2>11. Faces(p, x, k, n)
    BY <2>6, <2>8, <2>9, <2>10 DEF Faces, a
  <2>12. P!Accounts(m, a) => P!Accounts(n, a)
    BY <2>3 DEF P!Carries
  <2>13. Facing(p, x, R, k, d)
    BY <1>1, <2>1, <2>11, <2>12 DEF Facing, m, n, a
  <2>14. P!IsPending(m) => n.ended \/ P!IsPending(n)
    BY <2>3 DEF P!Carries
  <2> QED  BY <2>13, <2>14 DEF Whole, R, k, m, n
<1> QED  BY <1>2, <1>3

LEMMA AskedIsRequest ==
    ASSUME NEW p \in Clients, NEW a \in 1..MaxAttempts, NEW r \in Asked(p, a), r.event # "leave"
    PROVE  /\ r \in P!Requests
           /\ r.client = p /\ r.session = SessionOf[p] /\ r.attempt = a
<1>1. /\ r.client = p /\ r.token = p /\ r.session = SessionOf[p] /\ r.attempt = a
      /\ r.event \in {None, "ready", "lost"} /\ SessionOf[p] \in Sessions
  BY MirrorConstants DEF Asked
<1>2. [client |-> r.client, token |-> r.token, session |-> r.session] = Identity(p)
  BY <1>1 DEF Identity
<1> QED  BY <1>1, <1>2 DEF Asked, States, P!Requests, P!RequestsOf

\* The exchange with a helper: its request r was among those to be read.
LEMMA ExchangeFaces ==
    ASSUME NEW p \in Clients, NEW x, NEW R, NEW j, NEW c, Facing(p, x, R, j, c), HelperOK(x),
           P!Sound(c), NEW now \in Nat, NEW r \in R, r \in Asked(p, x.attempt), r.event # "leave",
           r.event = "lost" => r.state = "offline",
           x.alive /\ x.reports = <<>> => r.event = None
    PROVE  LET e == P!Exchange(c, r, now)
               n == e.state.members[p]
               k == e.reply
               a == x.attempt
           IN /\ p \in DOMAIN e.state.members
              /\ Facing(p, x, R, None, e.state)
              /\ k.grant \in {a, None} /\ k.cancel \in {a, None}
              /\ x.alive /\ x.gate /\ x.reports = <<>> => k.cancel = None
              /\ k.ended = n.ended
              /\ k.grant # None => n.active = k.grant
              /\ k.cancel # None => n.active = k.cancel
              /\ r.event = "lost" => P!Settled(n)
              /\ r.event = "ready" => k.cancel = a \/ ~P!IsPending(n)
              /\ x.child /\ ~x.opened /\ p \in DOMAIN c.members /\ P!IsPending(c.members[p])
                   => n.ended \/ P!IsPending(n)
<1> DEFINE e == P!Exchange(c, r, now)
           d == e.state
           n == d.members[p]
           k == e.reply
           a == x.attempt
           m == P!Addressed(c, r)
<1>1. a \in 1..MaxAttempts
  BY DEF HelperOK, Helper, Attempts
<1>2. r \in P!Requests /\ r.client = p /\ r.session = SessionOf[p] /\ r.attempt = a
  BY <1>1, AskedIsRequest
<1>3. /\ m \in P!Member /\ m.session = SessionOf[p] /\ P!Agrees(m, a)
      /\ Telling(r) => P!Accounts(m, a)
      /\ x.child /\ ~x.opened => P!Covers(m, a)
      /\ x.gate /\ x.reports = <<>> => ~P!IsPending(m)
      /\ p \in DOMAIN c.members => m = c.members[p]
  <2>1. CASE p \in DOMAIN c.members
    <3>1. m = c.members[p]
      BY <1>2, <2>1 DEF P!Addressed
    <3>2. m \in P!Member
      BY <2>1, <3>1 DEF P!Sound, P!IsCoordinator, P!IsMap
    <3> HIDE DEF m
    <3>3. Faces(p, x, j, m)
      BY <2>1, <3>1 DEF Facing
    <3>4. Telling(r) => P!Accounts(m, a)
      BY <2>1, <3>1 DEF Facing
    <3> QED  BY <3>1, <3>2, <3>3, <3>4 DEF Faces
  <2>2. CASE p \notin DOMAIN c.members
    <3>1. m = P!NewMember(r)
      BY <1>2, <2>2 DEF P!Addressed
    <3> HIDE DEF m
    <3>2. m \in P!Member /\ ~P!IsPending(m)
      BY <1>2, <3>1, CoordinatorConstants, P!NewMemberTyped
    <3>3. /\ m.session = r.session /\ P!Agrees(m, a)
          /\ P!Tells(r) => P!Accounts(m, a)
          /\ r.state = "connecting" => P!Covers(m, a)
      BY <1>2, <3>1, CoordinatorConstants, P!NewMemberAgrees
    <3>4. x.child /\ ~x.opened => r.state = "connecting"
      BY DEF Facing
    <3> QED  BY <1>2, <2>2, <3>2, <3>3, <3>4 DEF Telling
  <2> QED  BY <2>1, <2>2
<1>4. Telling(r) <=> P!Tells(r)
  BY DEF Telling
<1>5. /\ DOMAIN d.members = DOMAIN c.members \cup {p}
      /\ P!Concludes(n, k, m, r, now)
  BY <1>2, CoordinatorConstants, P!ExchangeConcludes
<1> HIDE DEF e, m
<1>6. /\ n.session = m.session /\ P!Agrees(n, a)
      /\ P!Tells(r) => P!Accounts(n, a)
      /\ r.state = "connecting" /\ r.event = None =>
            /\ P!Covers(m, a) => P!Covers(n, a)
            /\ P!IsPending(m) => n.ended \/ P!IsPending(n)
      /\ r.event = "lost" => P!Settled(n)
      /\ r.event = "ready" => n.ended \/ k.cancel = a \/ ~P!IsPending(n)
      /\ P!Tells(r) /\ r.event = None /\ ~P!IsPending(m) => ~P!IsPending(n)
      /\ k.ended = n.ended
      /\ k.grant # None => ~n.ended /\ n.active = k.grant /\ k.grant = a
      /\ k.cancel # None => n.active = k.cancel /\ k.cancel = a /\ P!IsPending(n)
  BY <1>2, <1>3, <1>4, <1>5, CoordinatorConstants, P!ConcludesKeeps
<1> HIDE DEF n, k
<1>7. n.ended => ~P!IsPending(n)
  BY <1>6 DEF P!Agrees, P!IsPending
<1>8. Held(x) => Telling(r)
  BY DEF Facing
<1>9. x.gate => Held(x) /\ x.alive
  BY DEF HelperOK, Held
<1>10. Faces(p, x, None, n)
  <2>1. x.child /\ ~x.opened => r.state = "connecting" /\ r.event = None
    BY DEF Facing
  <2> QED  BY <1>3, <1>4, <1>6, <1>8, <1>9, <2>1 DEF Faces
<1>11. (\E q \in R : Telling(q)) => Telling(r)
  BY DEF Facing
<1>12. Facing(p, x, R, None, d)
  BY <1>4, <1>5, <1>6, <1>10, <1>11 DEF Facing, n
<1>13. x.alive /\ x.gate /\ x.reports = <<>> => k.cancel = None
  BY <1>3, <1>4, <1>6, <1>8, <1>9
<1>14. /\ p \in DOMAIN d.members
       /\ Facing(p, x, R, None, d)
       /\ k.grant \in {a, None} /\ k.cancel \in {a, None}
       /\ x.alive /\ x.gate /\ x.reports = <<>> => k.cancel = None
       /\ k.ended = n.ended
       /\ k.grant # None => n.active = k.grant
       /\ k.cancel # None => n.active = k.cancel
       /\ r.event = "lost" => P!Settled(n)
       /\ r.event = "ready" => k.cancel = a \/ ~P!IsPending(n)
  BY <1>5, <1>6, <1>7, <1>12, <1>13
<1>15. x.child /\ ~x.opened /\ p \in DOMAIN c.members /\ P!IsPending(c.members[p])
         => n.ended \/ P!IsPending(n)
  BY <1>3, <1>6 DEF Facing
<1> QED  BY <1>14, <1>15 DEF e, n, k

\* The place of an unproved child is not given away by the step from c to d.
Carried(p, x, c, d) ==
    x.child /\ ~x.opened /\ p \in DOMAIN c.members /\ P!IsPending(c.members[p])
      => p \in DOMAIN d.members /\ (d.members[p].ended \/ P!IsPending(d.members[p]))

LEMMA ServeLinkKeeps ==
    ASSUME NEW p \in Clients, NEW x, NEW l, NEW t, NEW c, Whole(p, x, l, t, c),
           P!Sound(c), NEW now \in Nat, l # None, l.request # None, l.request.event # "leave",
           t # None => t.request = None
    PROVE  LET e == P!Exchange(c, l.request, now)
               l2 == [NewLink EXCEPT !.reply = e.reply]
           IN /\ Whole(p, x, l2, t, e.state)
              /\ IsLink(l2) /\ l2.reply = e.reply
              /\ p \in DOMAIN e.state.members /\ e.state.members[p].session = SessionOf[p]
              /\ e.reply.ended = e.state.members[p].ended
              /\ l.request \in Asked(p, x.attempt)
              /\ Carried(p, x, c, e.state)
<1> DEFINE r == l.request
           e == P!Exchange(c, r, now)
           d == e.state
           k == e.reply
           n == d.members[p]
           l2 == [NewLink EXCEPT !.reply = k]
           R == Coming(p, x, l, t)
<1>1. HelperOK(x) /\ WireOK(p, x, l, t) /\ Facing(p, x, R, ReplyOn(l), c)
  BY DEF Whole
<1>2. /\ r.event # "leave" /\ r \in R /\ r \in Asked(p, x.attempt) /\ (r.event = "lost" => r.state = "offline")
      /\ x.alive => x.call # None /\ r.event = x.call.event
      /\ x.alive /\ x.reports = <<>> => r.event = None
  <2>1. r \in R /\ r \in Asked(p, x.attempt) /\ (r.event = "lost" => r.state = "offline")
    BY <1>1 DEF WireOK, Coming, Sent
  <2>2. x.alive => x.call # None /\ r.event = x.call.event
    BY <1>1 DEF WireOK, Frame
  <2>3. x.alive => r.event \in {None, "ready", "lost"}
    BY <1>1, <2>2 DEF HelperOK, Helper, Called
  <2> QED  BY <1>1, <2>1, <2>2, <2>3, ReportsDiffer DEF HelperOK
<1> HIDE DEF R
<1>3. /\ p \in DOMAIN d.members
      /\ Facing(p, x, R, None, d)
      /\ k.grant \in {x.attempt, None} /\ k.cancel \in {x.attempt, None}
      /\ x.alive /\ x.gate /\ x.reports = <<>> => k.cancel = None
      /\ k.ended = n.ended
      /\ k.grant # None => n.active = k.grant
      /\ k.cancel # None => n.active = k.cancel
      /\ r.event = "lost" => P!Settled(n)
      /\ r.event = "ready" => k.cancel = x.attempt \/ ~P!IsPending(n)
      /\ Carried(p, x, c, d)
  <2> HIDE DEF r
  <2> QED  BY <1>1, <1>2, ExchangeFaces DEF Carried
<1>4. l2 \in [request : {None}, reply : {k}, served : {TRUE}]
  BY DEF NewLink
<1> HIDE DEF e, n, l2
<1>5. WireOK(p, x, l2, t)
  BY <1>1, <1>2, <1>4 DEF WireOK, IsLink
<1>6. Coming(p, x, l2, t) \subseteq R
  BY <1>4 DEF Coming, Sent, R
<1>7. ReplyOn(l2) \in {k, None}
  BY <1>4 DEF ReplyOn
<1>8. Facing(p, x, R, k, d)
  <2>1. Faces(p, x, None, n)
    BY <1>3 DEF Facing, n
  <2>2. Faces(p, x, k, n)
    BY <1>2, <1>3, <2>1 DEF Faces
  <2> QED  BY <1>3, <2>2 DEF Facing, n
<1>9. Facing(p, x, Coming(p, x, l2, t), ReplyOn(l2), d)
  BY <1>6, <1>7, <1>8, FewerFace
<1>10. Whole(p, x, l2, t, d)
  BY <1>1, <1>5, <1>9 DEF Whole
<1>11. n.session = SessionOf[p]
  BY <1>3 DEF Facing, Faces, n
<1> QED  BY <1>2, <1>3, <1>4, <1>10, <1>11 DEF IsLink, l2, e, n

LEMMA ServeStaleKeeps ==
    ASSUME NEW p \in Clients, NEW x, NEW l, NEW t, NEW c, Whole(p, x, l, t, c),
           P!Sound(c), NEW now \in Nat, t # None, t.request # None, t.request.event # "leave"
    PROVE  LET d == P!Exchange(c, t.request, now).state
           IN /\ Whole(p, x, l, [request |-> None], d)
              /\ p \in DOMAIN d.members
              /\ t.request \in Asked(p, x.attempt)
              /\ Carried(p, x, c, d)
<1> DEFINE r == t.request
           d == P!Exchange(c, r, now).state
           R == Coming(p, x, l, t)
           t2 == [request |-> None]
<1>1. HelperOK(x) /\ WireOK(p, x, l, t) /\ Facing(p, x, R, ReplyOn(l), c)
  BY DEF Whole
<1>2. /\ r.event # "leave" /\ r \in R /\ r \in Asked(p, x.attempt) /\ (r.event = "lost" => r.state = "offline")
      /\ x.alive /\ x.reports = <<>> => r.event = None
      /\ ReplyOn(l) = None
  BY <1>1 DEF WireOK, Coming, Sent, ReplyOn
<1> HIDE DEF R
<1>3. Facing(p, x, R, None, d) /\ p \in DOMAIN d.members /\ Carried(p, x, c, d)
  <2> HIDE DEF r
  <2> QED  BY <1>1, <1>2, ExchangeFaces DEF Carried
<1> HIDE DEF d
<1>4. WireOK(p, x, l, t2) /\ Coming(p, x, l, t2) \subseteq R
  <2>1. t2 # None => IsStale(t2) /\ t2.request = None
    BY DEF IsStale
  <2> HIDE DEF t2
  <2> QED  BY <1>1, <2>1 DEF WireOK, Coming, Sent, R
<1>5. Whole(p, x, l, t2, d)
  <2> HIDE DEF t2
  <2> QED  BY <1>1, <1>2, <1>3, <1>4, FewerFace DEF Whole
<1> QED  BY <1>2, <1>3, <1>5 DEF d, r

-----------------------------------------------------------------------------
(* The invariant.                                                          *)

TrueEnd(p, l, h) ==
    l # None => IsLink(l) /\ (l.reply # None /\ l.reply.ended => h[SessionOf[p]] = "gone")

Over(x) == ~x.alive /\ ~x.child /\ ~x.gate

\* What is kept of the processes and connections, one by one.
Kept ==
    /\ DOMAIN owner = Clients /\ DOMAIN link = Clients
    /\ DOMAIN stale = Clients /\ DOMAIN helper = Clients
    /\ \A p \in Clients : owner[p] # "none" => p \in DOMAIN s.members
    /\ dead \subseteq Clients
    /\ \A p \in dead : Over(helper[p])
    /\ \A p \in Clients : TrueEnd(p, link[p], host)
    /\ \A p \in Clients \ dead : Whole(p, helper[p], link[p], stale[p], s)

MirrorInv ==
    /\ P!Sound(s) /\ P!Informed(s, host, probes)
    /\ host \in [Sessions -> {"live", "gone"}] /\ probes \subseteq [Sessions -> P!Status]
    /\ Kept

\* What ReservedUntilReaped says of one step.
Reserves ==
    \A p \in C!Pending(s) :
       helper[p].child /\ ~helper[p].opened /\ p \notin dead' /\ up'
         => p \in DOMAIN s'.members
            /\ (C!IsPending(s'.members[p]) \/ s'.members[p].ended)

LEMMA SameReserves == ASSUME s' = s PROVE Reserves
BY DEF Reserves, C!Pending

\* g is f but for p, where it is v.
Only(g, f, p, v) == DOMAIN g = Clients /\ g[p] = v /\ \A q \in Clients \ {p} : g[q] = f[q]

LEMMA OnlyExcept ==
    ASSUME NEW f, DOMAIN f = Clients, NEW p \in Clients, NEW v
    PROVE  Only([f EXCEPT ![p] = v], f, p, v) /\ Only(f, f, p, f[p])
BY DEF Only

LEMMA LocalStep ==
    ASSUME MirrorInv, NEW p \in Clients, NEW x, NEW l, NEW t,
           s' = s, host' = host, probes' = probes, dead' = dead,
           Only(helper', helper, p, x), Only(link', link, p, l), Only(stale', stale, p, t),
           DOMAIN owner' = Clients, \A q \in Clients : owner'[q] # "none" => owner[q] # "none",
           p \notin dead => Whole(p, x, l, t, s), p \in dead => Over(x),
           TrueEnd(p, l, host)
    PROVE  MirrorInv' /\ Reserves
<1>1. \A q \in Clients \ dead' : Whole(q, helper'[q], link'[q], stale'[q], s')
  BY DEF MirrorInv, Kept, Only
<1>2. \A q \in Clients : TrueEnd(q, link'[q], host')
  BY DEF MirrorInv, Kept, Only
<1>3. \A q \in dead' : Over(helper'[q])
  BY DEF MirrorInv, Kept, Only
<1>4. Kept'
  BY <1>1, <1>2, <1>3 DEF MirrorInv, Kept, Only
<1>5. MirrorInv'
  BY <1>4 DEF MirrorInv
<1> QED  BY <1>5, SameReserves

LEMMA AliveIsWhole ==
    ASSUME MirrorInv, NEW p \in Clients, Running(p)
    PROVE  p \notin dead /\ Whole(p, helper[p], link[p], stale[p], s)
BY DEF MirrorInv, Kept, Over, Running

LEMMA HelperStepsInv == ASSUME MirrorInv, NEW p \in Clients, HelperSteps(p) PROVE MirrorInv' /\ Reserves
<1>1. PICK x \in H(p)!Changes(helper[p]) : helper' = [helper EXCEPT ![p] = x]
  BY DEF HelperSteps, HelperBecomes
<1>2. p \notin dead /\ Whole(p, helper[p], link[p], stale[p], s) /\ helper[p].alive
  BY AliveIsWhole DEF HelperSteps, Running
<1>3. Whole(p, x, link[p], stale[p], s)
  BY <1>2, ChangesKeep
<1>4. /\ Only(helper', helper, p, x) /\ Only(link', link, p, link[p]) /\ Only(stale', stale, p, stale[p])
      /\ DOMAIN owner' = Clients /\ owner' = owner
      /\ s' = s /\ host' = host /\ probes' = probes /\ dead' = dead
      /\ TrueEnd(p, link[p], host)
  BY <1>1, OnlyExcept DEF MirrorInv, Kept, HelperSteps, Controls
<1> QED  BY <1>2, <1>3, <1>4, LocalStep

LEMMA CallCoordinatorInv ==
    ASSUME MirrorInv, NEW p \in Clients, CallCoordinator(p) PROVE MirrorInv' /\ Reserves
<1> DEFINE l == [NewLink EXCEPT !.request = Frame(p, helper[p].call)]
<1>1. p \notin dead /\ Whole(p, helper[p], link[p], stale[p], s) /\ helper[p].alive
  BY AliveIsWhole DEF CallCoordinator, Running
<1>2. helper[p].call # None /\ (link[p] = None \/ Idle(link[p])) /\ link' = [link EXCEPT ![p] = l]
  BY DEF CallCoordinator, WriteFrame
<1>3. Whole(p, helper[p], l, stale[p], s)
  BY <1>1, <1>2, WriteKeeps
<1>4. TrueEnd(p, l, host)
  <2>1. l \in [request : {Frame(p, helper[p].call)}, reply : {None}, served : {TRUE}]
    BY DEF NewLink
  <2> HIDE DEF l
  <2> QED  BY <2>1 DEF TrueEnd, IsLink
<1> HIDE DEF l
<1>5. /\ Only(helper', helper, p, helper[p]) /\ Only(link', link, p, l) /\ Only(stale', stale, p, stale[p])
      /\ DOMAIN owner' = Clients /\ owner' = owner
      /\ s' = s /\ host' = host /\ probes' = probes /\ dead' = dead
  BY <1>2, OnlyExcept DEF MirrorInv, Kept, CallCoordinator, coordinator
<1> QED  BY <1>1, <1>3, <1>4, <1>5, LocalStep

LEMMA StandStillInv ==
    ASSUME MirrorInv, UNCHANGED <<s, host, probes, owner, link, stale, helper, dead>>
    PROVE  MirrorInv' /\ Reserves
<1>1. Kept'
  BY DEF MirrorInv, Kept
<1> QED  BY <1>1, SameReserves DEF MirrorInv

LEMMA CallReturnsInv ==
    ASSUME MirrorInv, NEW p \in Clients, CallReturns(p) PROVE MirrorInv' /\ Reserves
<1> DEFINE l == [link[p] EXCEPT !.reply = None]
<1>1. p \notin dead /\ Whole(p, helper[p], link[p], stale[p], s) /\ helper[p].alive
  BY AliveIsWhole DEF CallReturns, Running
<1>2. PICK begun \in H(p)!Outcomes :
        \E x \in H(p)!Answered(helper[p], link[p].reply, begun) : helper' = [helper EXCEPT ![p] = x]
  BY DEF CallReturns, HelperBecomes, H!Outcomes
<1>3. PICK x \in H(p)!Answered(helper[p], link[p].reply, begun) : helper' = [helper EXCEPT ![p] = x]
  BY <1>2
<1>4. /\ link[p] # None /\ link[p].reply # None
      /\ helper[p].call.event = "lost" => helper[p].attempt < MaxAttempts
      /\ link' = [link EXCEPT ![p] = l]
  BY DEF CallReturns, MirrorInv, Kept
<1>5. Whole(p, x, l, stale[p], s)
  BY <1>1, <1>4, AnsweredKeeps
<1>6. TrueEnd(p, l, host)
  <2>1. l \in [request : {link[p].request}, reply : {None}, served : {link[p].served}]
    BY <1>1, <1>4 DEF Whole, WireOK, IsLink
  <2> HIDE DEF l
  <2> QED  BY <2>1 DEF TrueEnd, IsLink
<1>7. /\ owner' = owner /\ stale' = stale
      /\ s' = s /\ host' = host /\ probes' = probes /\ dead' = dead
  BY DEF CallReturns, coordinator
<1> HIDE DEF l
<1>8. /\ Only(helper', helper, p, x) /\ Only(link', link, p, l) /\ Only(stale', stale, p, stale[p])
      /\ DOMAIN owner' = Clients
  BY <1>3, <1>4, <1>7, OnlyExcept DEF MirrorInv, Kept
<1> QED  BY <1>1, <1>5, <1>6, <1>7, <1>8, LocalStep

LEMMA DisconnectInv ==
    ASSUME MirrorInv, NEW p \in Clients, p \notin dead, Disconnect(p),
           NEW x, Only(helper', helper, p, x),
           x = [helper[p] EXCEPT !.call = None] \/ (x = helper[p] /\ ~helper[p].alive),
           s' = s, host' = host, probes' = probes, dead' = dead
    PROVE  MirrorInv' /\ Reserves
<1> DEFINE l == link[p]
           t == IF l.served THEN [request |-> l.request] ELSE stale[p]
<1>1. Whole(p, helper[p], l, stale[p], s)
  BY DEF MirrorInv, Kept
<1>2. l # None /\ (l.served => stale[p] = None)
  BY DEF Disconnect
<1>3. Whole(p, x, None, t, s)
  BY <1>1, <1>2, DisconnectKeeps
<1>4. /\ DOMAIN owner' = Clients
      /\ \A q \in Clients : owner'[q] # "none" => owner[q] # "none"
  BY DEF Disconnect, MirrorInv, Kept
<1>5. Only(link', link, p, None)
  BY OnlyExcept DEF Disconnect, MirrorInv, Kept
<1>6. Only(stale', stale, p, t)
  BY OnlyExcept DEF Disconnect, MirrorInv, Kept
<1>7. TrueEnd(p, None, host)
  BY DEF TrueEnd
<1> HIDE DEF l, t
<1> QED  BY <1>3, <1>4, <1>5, <1>6, <1>7, LocalStep

LEMMA CallFailsInv ==
    ASSUME MirrorInv, NEW p \in Clients, CallFails(p) PROVE MirrorInv' /\ Reserves
<1> DEFINE x == H(p)!CallDropped(helper[p])
           l == [link[p] EXCEPT !.reply = None]
<1>1. p \notin dead /\ Whole(p, helper[p], link[p], stale[p], s) /\ helper[p].alive
  BY AliveIsWhole DEF CallFails, Running
<1>2. /\ helper' = [helper EXCEPT ![p] = x] /\ x = [helper[p] EXCEPT !.call = None]
      /\ s' = s /\ host' = host /\ probes' = probes /\ dead' = dead
  BY DEF CallFails, HelperBecomes, H!CallDropped, coordinator
<1>3. Only(helper', helper, p, x)
  BY <1>2, OnlyExcept DEF MirrorInv, Kept
<1>4. CASE Disconnect(p)
  BY <1>1, <1>2, <1>3, <1>4, DisconnectInv
<1>5. CASE link[p] = None /\ UNCHANGED <<owner, link, stale>>
  <2>1. Whole(p, x, link[p], stale[p], s)
    BY <1>1, <1>5, CallDroppedKeeps
  <2> HIDE DEF x
  <2>2. /\ Only(link', link, p, link[p]) /\ Only(stale', stale, p, stale[p])
        /\ DOMAIN owner' = Clients /\ owner' = owner /\ TrueEnd(p, link[p], host)
    BY <1>5, OnlyExcept DEF MirrorInv, Kept
  <2> QED  BY <1>1, <1>2, <1>3, <2>1, <2>2, LocalStep
<1>6. CASE link[p] # None /\ link[p].reply # None
           /\ link' = [link EXCEPT ![p].reply = None] /\ UNCHANGED <<owner, stale>>
  <2>1. Whole(p, x, l, stale[p], s)
    BY <1>1, <1>6, CallDroppedKeeps
  <2>2. TrueEnd(p, l, host)
    <3>1. l \in [request : {link[p].request}, reply : {None}, served : {link[p].served}]
      BY <1>1, <1>6 DEF Whole, WireOK, IsLink
    <3> HIDE DEF l
    <3> QED  BY <3>1 DEF TrueEnd, IsLink
  <2>3. link' = [link EXCEPT ![p] = l]
    BY <1>6 DEF MirrorInv, Kept
  <2> HIDE DEF x, l
  <2>4. owner' = owner /\ stale' = stale
    BY <1>6
  <2>5. /\ Only(link', link, p, l) /\ Only(stale', stale, p, stale[p])
        /\ DOMAIN owner' = Clients /\ owner' = owner
    BY <2>3, <2>4, OnlyExcept DEF MirrorInv, Kept
  <2> QED  BY <1>1, <1>2, <1>3, <2>1, <2>2, <2>5, LocalStep
<1> QED  BY <1>4, <1>5, <1>6 DEF CallFails

LEMMA DepartsInv ==
    ASSUME MirrorInv, NEW p \in Clients, Departs(p) PROVE MirrorInv' /\ Reserves
<1> DEFINE x == helper[p]
           l == [NewLink EXCEPT !.request = Leave(p)]
<1>1. p \notin dead /\ ~x.alive /\ Whole(p, x, link[p], stale[p], s)
  BY DEF Departs, Running, MirrorInv, Kept
<1>2. /\ Only(helper', helper, p, x)
      /\ s' = s /\ host' = host /\ probes' = probes /\ dead' = dead
  BY OnlyExcept DEF Departs, coordinator, MirrorInv, Kept
<1>3. CASE Disconnect(p)
  BY <1>1, <1>2, <1>3, DisconnectInv
<1>4. CASE WriteFrame(p, Leave(p)) /\ UNCHANGED <<owner, stale>>
  <2>1. (link[p] = None \/ Idle(link[p])) /\ link' = [link EXCEPT ![p] = l]
    BY <1>4 DEF WriteFrame
  <2>2. Leave(p) \in Asked(p, x.attempt) /\ Leave(p).event = "leave"
    BY DEF Leave, Frame, Asked, States
  <2>3. Whole(p, x, l, stale[p], s)
    BY <1>1, <2>1, <2>2, LeaveKeeps
  <2>4. TrueEnd(p, l, host)
    <3>1. l \in [request : {Leave(p)}, reply : {None}, served : {TRUE}]
      BY DEF NewLink
    <3> HIDE DEF l
    <3> QED  BY <3>1 DEF TrueEnd, IsLink
  <2> HIDE DEF l
  <2>5. /\ Only(helper', helper, p, x) /\ Only(link', link, p, l) /\ Only(stale', stale, p, stale[p])
        /\ DOMAIN owner' = Clients /\ owner' = owner
    BY <1>2, <1>4, <2>1, OnlyExcept DEF MirrorInv, Kept
  <2> QED  BY <1>1, <1>2, <2>3, <2>4, <2>5, LocalStep
<1> QED  BY <1>3, <1>4 DEF Departs

LEMMA DiesInv ==
    ASSUME MirrorInv, NEW p \in Clients, Dies(p) PROVE MirrorInv' /\ Reserves
<1> DEFINE x == H(p)!Returned(helper[p])
<1>1. /\ p \notin dead /\ dead' = dead \cup {p} /\ helper' = [helper EXCEPT ![p] = x]
      /\ UNCHANGED <<s, host, probes, owner, link, stale>>
  BY DEF Dies, HelperBecomes, coordinator
<1>2. Over(x)
  <2>1. helper[p] \in Helper
    BY <1>1 DEF MirrorInv, Kept, Whole, HelperOK
  <2> QED  BY <2>1 DEF Over, H!Returned, Helper
<1> HIDE DEF x
<1>3. Only(helper', helper, p, x)
  BY <1>1, OnlyExcept DEF MirrorInv, Kept
<1>4. \A q \in Clients \ dead' : Whole(q, helper'[q], link'[q], stale'[q], s')
  BY <1>1, <1>3 DEF MirrorInv, Kept, Only
<1>5. \A q \in dead' : Over(helper'[q])
  BY <1>1, <1>2, <1>3 DEF MirrorInv, Kept, Only
<1>6. Kept'
  BY <1>1, <1>3, <1>4, <1>5 DEF MirrorInv, Kept, Only
<1> QED  BY <1>1, <1>6, SameReserves DEF MirrorInv


-----------------------------------------------------------------------------
(* The steps of the coordinator.                                           *)

LEMMA SoundMembers ==
    ASSUME NEW c, P!Sound(c)
    PROVE  DOMAIN c.members \subseteq Clients /\ \A q \in DOMAIN c.members : c.members[q] \in P!Member
BY DEF P!Sound, P!IsCoordinator, P!IsMap

\* The members outside F drift at most, those in F are looked at one by one.
LEMMA CoordinatorStep ==
    ASSUME MirrorInv, NEW F, helper' = helper, dead' = dead, host' = host,
           P!Sound(s'), P!Informed(s', host, probes'), probes' \subseteq [Sessions -> P!Status],
           DOMAIN owner' = Clients, DOMAIN link' = Clients, DOMAIN stale' = Clients,
           \A q \in Clients : owner'[q] # "none" => q \in DOMAIN s'.members,
           \A q \in Clients : TrueEnd(q, link'[q], host),
           \A q \in Clients \ (dead \cup F) : Whole(q, helper[q], link'[q], stale'[q], s),
           \A q \in DOMAIN s'.members \ F :
              q \in DOMAIN s.members /\ P!Drifts(s'.members[q], s.members[q]),
           \A q \in (Clients \cap F) \ dead : Whole(q, helper[q], link'[q], stale'[q], s')
    PROVE  /\ MirrorInv'
           /\ \A q \in P!Pending(s) \ (dead \cup F) :
                 q \in DOMAIN s'.members => s'.members[q].ended \/ P!IsPending(s'.members[q])
<1>1. ASSUME NEW q \in Clients \ (dead \cup F)
      PROVE  /\ Whole(q, helper[q], link'[q], stale'[q], s')
             /\ q \in DOMAIN s'.members /\ P!IsPending(s.members[q])
                  => s'.members[q].ended \/ P!IsPending(s'.members[q])
  <2>1. q \in DOMAIN s'.members =>
          /\ q \in DOMAIN s.members
          /\ s.members[q] \in P!Member /\ s'.members[q] \in P!Member
          /\ P!Drifts(s'.members[q], s.members[q])
    BY <1>1, SoundMembers DEF MirrorInv
  <2>2. Whole(q, helper[q], link'[q], stale'[q], s)
    BY <1>1
  <2> QED  BY <1>1, <2>1, <2>2, DriftKeeps
<1>2. \A q \in Clients \ dead : Whole(q, helper[q], link'[q], stale'[q], s')
  BY <1>1
<1>3. Kept'
  BY <1>2 DEF MirrorInv, Kept
<1>4. MirrorInv'
  BY <1>3 DEF MirrorInv
<1>5. P!Pending(s) \subseteq Clients /\ \A q \in P!Pending(s) : P!IsPending(s.members[q])
  BY SoundMembers DEF MirrorInv, P!Pending
<1> QED  BY <1>1, <1>4, <1>5

LEMMA Remaining ==
    ASSUME NEW c, P!Sound(c), NEW d, NEW others \in SUBSET DOMAIN c.members,
           d.members = [y \in others |-> c.members[y]]
    PROVE  \A q \in DOMAIN d.members : q \in DOMAIN c.members /\ P!Drifts(d.members[q], c.members[q])
BY SoundMembers, CoordinatorConstants, P!DriftsReflexive

LEMMA RemoveKeeps ==
    ASSUME NEW c, P!Sound(c), NEW h, NEW Q, P!Informed(c, h, Q), NEW p \in DOMAIN c.members
    PROVE  LET d == P!Remove(c, p) IN
           /\ P!Sound(d) /\ P!Informed(d, h, Q)
           /\ DOMAIN d.members = DOMAIN c.members \ {p}
           /\ \A q \in DOMAIN d.members : q \in DOMAIN c.members /\ P!Drifts(d.members[q], c.members[q])
<1> DEFINE d == P!Remove(c, p)
<1>1. P!Sound(d) /\ P!Informed(d, h, Q)
  BY CoordinatorConstants, P!RemoveSound, P!RemoveInformed
<1>2. d.members = [y \in DOMAIN c.members \ {p} |-> c.members[y]]
  BY DEF P!Remove, P!Sound, P!IsCoordinator
<1> HIDE DEF d
<1>3. \A q \in DOMAIN d.members : q \in DOMAIN c.members /\ P!Drifts(d.members[q], c.members[q])
  BY <1>2, Remaining
<1> QED  BY <1>1, <1>2, <1>3 DEF d

\* The connections of p, after the server gave one of them up.
GivenUp(p, l, t) ==
    \/ /\ link[p] # None /\ t = stale[p]
       /\ l = [link[p] EXCEPT !.request = None, !.served = FALSE]
    \/ /\ link[p] # None /\ link[p].reply = None /\ t = stale[p]
       /\ l = [NewLink EXCEPT !.served = FALSE]
    \/ l = link[p] /\ t \in {None, [request |-> None]}

LEMMA GivesUp ==
    ASSUME MirrorInv, NEW p \in Clients, NEW l, NEW t, GivenUp(p, l, t)
    PROVE  TrueEnd(p, l, host) /\ (p \notin dead => Whole(p, helper[p], l, t, s))
<1>1. p \notin dead => Whole(p, helper[p], link[p], stale[p], s)
  BY DEF MirrorInv, Kept
<1>2. TrueEnd(p, link[p], host)
  BY DEF MirrorInv, Kept
<1>3. CASE /\ link[p] # None /\ t = stale[p]
           /\ l = [link[p] EXCEPT !.request = None, !.served = FALSE]
  <2>1. p \notin dead => Whole(p, helper[p], l, t, s)
    BY <1>1, <1>3, ServerClosesKeeps
  <2>2. l \in [request : {None}, reply : {link[p].reply}, served : {FALSE}]
    BY <1>2, <1>3 DEF TrueEnd, IsLink
  <2>3. TrueEnd(p, l, host)
    BY <1>2, <1>3, <2>2 DEF TrueEnd, IsLink
  <2> QED  BY <2>1, <2>3
<1>4. CASE l = link[p] /\ t \in {None, [request |-> None]}
  <2>1. p \notin dead => Whole(p, helper[p], l, None, s) /\ Whole(p, helper[p], l, [request |-> None], s)
    BY <1>1, <1>4, ServerClosesKeeps
  <2> QED  BY <1>2, <1>4, <2>1
<1>5. CASE /\ link[p] # None /\ link[p].reply = None /\ t = stale[p]
           /\ l = [NewLink EXCEPT !.served = FALSE]
  <2>1. p \notin dead => Whole(p, helper[p], l, t, s)
    BY <1>1, <1>5, ServerClosesKeeps
  <2>2. l \in [request : {None}, reply : {None}, served : {FALSE}]
    BY <1>5 DEF NewLink
  <2> QED  BY <2>1, <2>2 DEF TrueEnd, IsLink
<1> QED  BY <1>3, <1>4, <1>5 DEF GivenUp

\* The server gives a connection of p up, and with it the member or not.
LEMMA GivesUpInv ==
    ASSUME MirrorInv, UNCHANGED <<host, probes, helper, dead>>,
           NEW p \in Clients, NEW l, NEW t, GivenUp(p, l, t),
           Only(link', link, p, l), Only(stale', stale, p, t), DOMAIN owner' = Clients,
           \A q \in Clients \ {p} : owner'[q] = owner[q],
           \/ s' = s /\ (owner'[p] # "none" => owner[p] # "none")
           \/ /\ p \in DOMAIN s.members /\ s' = P!Remove(s, p) /\ owner'[p] = "none"
              /\ p \in dead \/ ~helper[p].child \/ ~P!IsPending(s.members[p])
    PROVE  MirrorInv' /\ Reserves
<1>1. \A q \in Clients : /\ TrueEnd(q, link'[q], host)
                         /\ q \notin dead => Whole(q, helper[q], link'[q], stale'[q], s)
  BY GivesUp DEF MirrorInv, Kept, Only
<1>2. DOMAIN link' = Clients /\ DOMAIN stale' = Clients
  BY DEF Only
<1>3. CASE s' = s /\ (owner'[p] # "none" => owner[p] # "none")
  <2>1. Kept'
    BY <1>1, <1>2, <1>3 DEF MirrorInv, Kept
  <2>2. MirrorInv'
    BY <1>3, <2>1 DEF MirrorInv
  <2> QED  BY <1>3, <2>2, SameReserves
<1>4. CASE /\ p \in DOMAIN s.members /\ s' = P!Remove(s, p) /\ owner'[p] = "none"
           /\ p \in dead \/ ~helper[p].child \/ ~P!IsPending(s.members[p])
  <2>1. /\ P!Sound(s') /\ P!Informed(s', host, probes)
        /\ DOMAIN s'.members = DOMAIN s.members \ {p}
        /\ \A q \in DOMAIN s'.members :
              q \in DOMAIN s.members /\ P!Drifts(s'.members[q], s.members[q])
    BY <1>4, RemoveKeeps DEF MirrorInv
  <2>2. \A q \in Clients : owner'[q] # "none" => q \in DOMAIN s'.members
    BY <1>4, <2>1 DEF MirrorInv, Kept
  <2>3. probes' = probes /\ probes' \subseteq [Sessions -> P!Status] /\ helper' = helper
        /\ dead' = dead /\ host' = host
    BY DEF MirrorInv
  <2>4. /\ MirrorInv'
        /\ \A q \in P!Pending(s) \ (dead \cup {}) :
              q \in DOMAIN s'.members => s'.members[q].ended \/ P!IsPending(s'.members[q])
    BY <1>1, <1>2, <2>1, <2>2, <2>3, CoordinatorStep
  <2>5. P!Pending(s) \subseteq DOMAIN s.members
    BY DEF P!Pending
  <2>6. p \in P!Pending(s) => P!IsPending(s.members[p])
    BY DEF P!Pending
  <2> QED  BY <1>4, <2>1, <2>3, <2>4, <2>5, <2>6, SamePending DEF Reserves
<1> QED  BY <1>3, <1>4

LEMMA HangUpInv ==
    ASSUME MirrorInv, NEW p \in Clients, NEW w \in {"link", "stale"}, HangUp(p, w)
    PROVE  MirrorInv' /\ Reserves
<1>1. /\ w = "link" => link[p] # None
      /\ IF owner[p] = w THEN Release(p) ELSE UNCHANGED <<s, owner>>
      /\ link'  = IF w = "link"  THEN [link EXCEPT ![p] = [@ EXCEPT !.request = None,
                                                                   !.served = FALSE]] ELSE link
      /\ stale' = IF w = "stale" THEN [stale EXCEPT ![p] = None] ELSE stale
      /\ UNCHANGED <<host, probes, helper, dead>>
  BY DEF HangUp
<1>2. DOMAIN link = Clients /\ DOMAIN stale = Clients /\ DOMAIN owner = Clients
  BY DEF MirrorInv, Kept
<1>3. PICK l, t : /\ GivenUp(p, l, t)
                  /\ Only(link', link, p, l) /\ Only(stale', stale, p, t)
  <2>1. CASE w = "link"
    <3> DEFINE l == [link[p] EXCEPT !.request = None, !.served = FALSE]
    <3>1. GivenUp(p, l, stale[p])
      BY <1>1, <2>1 DEF GivenUp
    <3>2. link' = [link EXCEPT ![p] = l] /\ stale' = stale
      BY <1>1, <1>2, <2>1
    <3> HIDE DEF l
    <3> QED  BY <1>2, <3>1, <3>2, OnlyExcept
  <2>2. CASE w = "stale"
    <3>1. GivenUp(p, link[p], None)
      BY DEF GivenUp
    <3>2. link' = link /\ stale' = [stale EXCEPT ![p] = None]
      BY <1>1, <2>2
    <3> QED  BY <1>2, <3>1, <3>2, OnlyExcept
  <2> QED  BY <2>1, <2>2
<1>4. /\ DOMAIN owner' = Clients /\ \A q \in Clients \ {p} : owner'[q] = owner[q]
      /\ \/ s' = s /\ (owner'[p] # "none" => owner[p] # "none")
         \/ /\ p \in DOMAIN s.members /\ s' = P!Remove(s, p) /\ owner'[p] = "none"
            /\ p \in dead \/ ~P!IsPending(s.members[p])
  <2>1. CASE owner[p] = w
    <3>1. p \in DOMAIN s.members
      BY <2>1 DEF MirrorInv, Kept
    <3> QED  BY <1>1, <1>2, <2>1, <3>1, SameRemove, SamePending DEF Release
  <2>2. CASE owner[p] # w
    BY <1>1, <1>2, <2>2
  <2> QED  BY <2>1, <2>2
<1> QED  BY <1>1, <1>3, <1>4, GivesUpInv

\* A request that is not a departure is answered on w.
LEMMA ExchangeInv ==
    ASSUME MirrorInv, UNCHANGED <<host, probes, helper, dead>>,
           NEW p \in Clients \ dead, NEW r \in Asked(p, helper[p].attempt), r.event # "leave",
           NEW now \in Times, s' = P!Exchange(s, r, now).state,
           NEW w, owner' = [owner EXCEPT ![p] = w],
           NEW l, NEW t, Only(link', link, p, l), Only(stale', stale, p, t),
           Whole(p, helper[p], l, t, s'), TrueEnd(p, l, host), p \in DOMAIN s'.members,
           Carried(p, helper[p], s, s')
    PROVE  MirrorInv' /\ Reserves
<1>1. /\ P!Sound(s) /\ P!Informed(s, host, probes) /\ DOMAIN owner = Clients
      /\ \A q \in Clients : owner[q] # "none" => q \in DOMAIN s.members
      /\ \A q \in Clients : TrueEnd(q, link[q], host)
      /\ \A q \in Clients \ dead : Whole(q, helper[q], link[q], stale[q], s)
  BY DEF MirrorInv, Kept
<1>2. /\ r \in P!Requests /\ r.client = p /\ r.session = SessionOf[p]
      /\ now \in Nat /\ host[r.session] # "unborn"
  <2>1. helper[p].attempt \in 1..MaxAttempts
    BY <1>1 DEF Whole, HelperOK, Helper, Attempts
  <2>2. r \in P!Requests /\ r.client = p /\ r.session = SessionOf[p]
    BY <2>1, AskedIsRequest
  <2>3. SessionOf[p] \in Sessions /\ now \in Nat
    BY MirrorConstants
  <2> QED  BY <2>2, <2>3 DEF MirrorInv
<1>3. /\ P!Sound(s') /\ P!Informed(s', host, probes)
      /\ DOMAIN s'.members = DOMAIN s.members \cup {p}
      /\ \A q \in DOMAIN s.members \ {p} : P!Drifts(s'.members[q], s.members[q])
  BY <1>1, <1>2, CoordinatorConstants, P!ExchangeSound, P!ExchangeInformed, P!ExchangeConcludes
<1>4. /\ helper' = helper /\ dead' = dead /\ host' = host /\ probes' = probes
      /\ probes' \subseteq [Sessions -> P!Status]
  BY DEF MirrorInv
<1>5. /\ DOMAIN owner' = Clients /\ DOMAIN link' = Clients /\ DOMAIN stale' = Clients
      /\ \A q \in Clients : owner'[q] # "none" => q \in DOMAIN s'.members
      /\ \A q \in Clients : TrueEnd(q, link'[q], host)
      /\ \A q \in Clients \ (dead \cup {p}) : Whole(q, helper[q], link'[q], stale'[q], s)
      /\ \A q \in (Clients \cap {p}) \ dead : Whole(q, helper[q], link'[q], stale'[q], s')
  BY <1>1, <1>3 DEF Only
<1>6. \A q \in DOMAIN s'.members \ {p} :
         q \in DOMAIN s.members /\ P!Drifts(s'.members[q], s.members[q])
  BY <1>3
<1>7. /\ MirrorInv'
      /\ \A q \in P!Pending(s) \ (dead \cup {p}) :
            q \in DOMAIN s'.members => s'.members[q].ended \/ P!IsPending(s'.members[q])
  BY <1>3, <1>4, <1>5, <1>6, CoordinatorStep
<1>8. \A q \in P!Pending(s) : q \in DOMAIN s.members /\ P!IsPending(s.members[q])
  BY DEF P!Pending
<1> QED  BY <1>3, <1>4, <1>7, <1>8, SamePending DEF Reserves, Carried

LEMMA RefusedInv ==
    ASSUME MirrorInv, UNCHANGED <<s, host, probes, owner, helper, dead>>,
           NEW p \in Clients, NEW l, NEW t, GivenUp(p, l, t),
           Only(link', link, p, l), Only(stale', stale, p, t)
    PROVE  MirrorInv' /\ Reserves
<1>1. DOMAIN owner' = Clients
  BY DEF MirrorInv, Kept
<1> QED  BY <1>1, GivesUpInv

LEMMA LeftInv ==
    ASSUME MirrorInv, UNCHANGED <<host, probes, helper, dead>>,
           NEW p \in Clients, ~helper[p].child,
           s' = IF p \in DOMAIN s.members THEN C!Remove(s, p) ELSE s,
           owner' = [owner EXCEPT ![p] = "none"],
           NEW l, NEW t, GivenUp(p, l, t), Only(link', link, p, l), Only(stale', stale, p, t)
    PROVE  MirrorInv' /\ Reserves
<1>1. /\ DOMAIN owner' = Clients /\ owner'[p] = "none"
      /\ \A q \in Clients \ {p} : owner'[q] = owner[q]
  BY DEF MirrorInv, Kept
<1> QED  BY <1>1, SameRemove, GivesUpInv

LEMMA ServeLinkInv ==
    ASSUME MirrorInv, NEW p \in Clients, NEW now \in Times, ServeLink(p, now)
    PROVE  MirrorInv' /\ Reserves
<1> DEFINE x == helper[p]
           r == link[p].request
           e == P!Exchange(s, r, now)
<1>1. /\ stale[p] # None => stale[p].request = None
      /\ link[p] # None /\ link[p].served /\ r # None
      /\ p \notin dead /\ Serve(p, "link", r, now)
      /\ UNCHANGED <<host, probes, helper, dead>>
  BY DEF ServeLink, Serve
<1>2. /\ Whole(p, x, link[p], stale[p], s) /\ P!Sound(s) /\ now \in Nat
      /\ DOMAIN owner = Clients /\ DOMAIN link = Clients /\ DOMAIN stale = Clients
  BY <1>1, MirrorConstants DEF MirrorInv, Kept
<1>3. CASE /\ Elsewhere(p, "link") /\ UNCHANGED <<s, owner, stale>>
           /\ link' = [link EXCEPT ![p] = [@ EXCEPT !.request = None, !.served = FALSE]]
  <2> DEFINE l == [link[p] EXCEPT !.request = None, !.served = FALSE]
  <2>1. GivenUp(p, l, stale[p]) /\ link' = [link EXCEPT ![p] = l] /\ stale' = stale
    BY <1>1, <1>2, <1>3 DEF GivenUp
  <2> HIDE DEF l
  <2>2. Only(link', link, p, l) /\ Only(stale', stale, p, stale[p])
    BY <1>2, <2>1, OnlyExcept
  <2> QED  BY <1>1, <1>3, <2>1, <2>2, RefusedInv
<1>4. CASE /\ r.event = "leave" /\ owner' = [owner EXCEPT ![p] = "none"]
           /\ s' = IF p \in DOMAIN s.members THEN C!Remove(s, p) ELSE s
           /\ link' = [link EXCEPT ![p] = [NewLink EXCEPT !.served = FALSE]]
           /\ stale' = stale
  <2> DEFINE l == [NewLink EXCEPT !.served = FALSE]
  <2>1. ~x.child /\ link[p].reply = None
    BY <1>1, <1>2, <1>4 DEF Whole, WireOK, HelperOK
  <2>2. GivenUp(p, l, stale[p]) /\ link' = [link EXCEPT ![p] = l] /\ stale' = stale
    BY <1>1, <1>4, <2>1 DEF GivenUp
  <2> HIDE DEF l
  <2>3. Only(link', link, p, l) /\ Only(stale', stale, p, stale[p])
    BY <1>2, <2>2, OnlyExcept
  <2> QED  BY <1>1, <1>4, <2>1, <2>2, <2>3, LeftInv
<1>5. CASE /\ r.event # "leave" /\ owner' = [owner EXCEPT ![p] = "link"]
           /\ s' = e.state /\ stale' = stale
           /\ link' = [link EXCEPT ![p] = [NewLink EXCEPT !.reply = e.reply]]
  <2> DEFINE l == [NewLink EXCEPT !.reply = e.reply]
  <2>1. /\ Whole(p, x, l, stale[p], s') /\ IsLink(l) /\ l.reply = e.reply
        /\ p \in DOMAIN s'.members /\ s'.members[p].session = SessionOf[p]
        /\ e.reply.ended = s'.members[p].ended
        /\ r \in Asked(p, x.attempt) /\ Carried(p, x, s, s')
    BY <1>1, <1>2, <1>5, ServeLinkKeeps
  <2>2. r \in P!Requests /\ host[r.session] # "unborn"
    <3>1. x.attempt \in 1..MaxAttempts /\ SessionOf[p] \in Sessions
      BY <1>2, MirrorConstants DEF Whole, HelperOK, Helper, Attempts
    <3> QED  BY <1>5, <2>1, <3>1, AskedIsRequest DEF MirrorInv
  <2>3. P!Informed(s', host, probes)
    BY <1>2, <1>5, <2>2, CoordinatorConstants, P!ExchangeInformed DEF MirrorInv
  <2>4. TrueEnd(p, l, host)
    BY <2>1, <2>3 DEF TrueEnd, P!Informed, P!Fated
  <2> HIDE DEF l, e
  <2>5. Only(link', link, p, l) /\ Only(stale', stale, p, stale[p])
    BY <1>2, <1>5, OnlyExcept DEF l
  <2> QED  BY <1>1, <1>5, <2>1, <2>4, <2>5, ExchangeInv DEF e
<1> QED  BY <1>1, <1>2, <1>3, <1>4, <1>5, SameExchange DEF Serve, Answer

LEMMA ServeStaleInv ==
    ASSUME MirrorInv, NEW p \in Clients, NEW now \in Times, ServeStale(p, now)
    PROVE  MirrorInv' /\ Reserves
<1> DEFINE x == helper[p]
           r == stale[p].request
           d == P!Exchange(s, r, now).state
           gone == [request |-> None]
<1>1. /\ stale[p] # None /\ r # None
      /\ p \notin dead /\ Serve(p, "stale", r, now)
      /\ UNCHANGED <<host, probes, helper, dead>>
  BY DEF ServeStale, Serve
<1>2. /\ Whole(p, x, link[p], stale[p], s) /\ P!Sound(s) /\ now \in Nat
      /\ DOMAIN owner = Clients /\ DOMAIN link = Clients /\ DOMAIN stale = Clients
      /\ TrueEnd(p, link[p], host)
  BY <1>1, MirrorConstants DEF MirrorInv, Kept
<1>3. CASE Elsewhere(p, "stale") /\ UNCHANGED <<s, owner, link>> /\ stale' = [stale EXCEPT ![p] = None]
  <2>1. GivenUp(p, link[p], None)
    BY DEF GivenUp
  <2>2. Only(link', link, p, link[p]) /\ Only(stale', stale, p, None)
    BY <1>2, <1>3, OnlyExcept
  <2> QED  BY <1>1, <1>3, <2>1, <2>2, RefusedInv
<1>4. CASE /\ r.event = "leave" /\ owner' = [owner EXCEPT ![p] = "none"]
           /\ s' = IF p \in DOMAIN s.members THEN C!Remove(s, p) ELSE s
           /\ link' = link /\ stale' = [stale EXCEPT ![p] = gone]
  <2>1. ~x.child
    BY <1>1, <1>2, <1>4 DEF Whole, WireOK, HelperOK
  <2>2. GivenUp(p, link[p], gone)
    BY DEF GivenUp
  <2> HIDE DEF gone
  <2>3. Only(link', link, p, link[p]) /\ Only(stale', stale, p, gone)
    BY <1>2, <1>4, OnlyExcept
  <2> QED  BY <1>1, <1>4, <2>1, <2>2, <2>3, LeftInv
<1>5. CASE /\ r.event # "leave" /\ owner' = [owner EXCEPT ![p] = "stale"]
           /\ s' = d /\ link' = link /\ stale' = [stale EXCEPT ![p] = gone]
  <2>1. /\ Whole(p, x, link[p], gone, s') /\ p \in DOMAIN s'.members
        /\ r \in Asked(p, x.attempt) /\ Carried(p, x, s, s')
    BY <1>1, <1>2, <1>5, ServeStaleKeeps
  <2> HIDE DEF gone
  <2>2. Only(link', link, p, link[p]) /\ Only(stale', stale, p, gone)
    BY <1>2, <1>5, OnlyExcept
  <2> QED  BY <1>1, <1>2, <1>5, <2>1, <2>2, ExchangeInv
<1> QED  BY <1>1, <1>2, <1>3, <1>4, <1>5, SameExchange DEF Serve, Answer

\* Nobody is registered, removed or answered: members drift at most.
LEMMA AllDriftInv ==
    ASSUME MirrorInv, UNCHANGED <<host, owner, link, stale, helper, dead>>,
           P!Sound(s'), P!Informed(s', host, probes'), probes' \subseteq [Sessions -> P!Status],
           P!AllDrift(s', s)
    PROVE  MirrorInv' /\ Reserves
<1>1. DOMAIN s'.members = DOMAIN s.members
      /\ \A q \in DOMAIN s'.members : q \in DOMAIN s.members /\ P!Drifts(s'.members[q], s.members[q])
  BY DEF P!AllDrift
<1>2. /\ DOMAIN owner' = Clients /\ DOMAIN link' = Clients /\ DOMAIN stale' = Clients
      /\ \A q \in Clients : owner'[q] # "none" => q \in DOMAIN s'.members
      /\ \A q \in Clients : TrueEnd(q, link'[q], host)
      /\ \A q \in Clients \ dead : Whole(q, helper[q], link'[q], stale'[q], s)
  BY <1>1 DEF MirrorInv, Kept
<1>3. /\ MirrorInv'
      /\ \A q \in P!Pending(s) \ (dead \cup {}) :
            q \in DOMAIN s'.members => s'.members[q].ended \/ P!IsPending(s'.members[q])
  BY <1>1, <1>2, CoordinatorStep
<1>4. P!Pending(s) \subseteq DOMAIN s.members
  BY DEF P!Pending
<1> QED  BY <1>1, <1>3, <1>4, SamePending DEF Reserves

LEMMA ServerTickInv ==
    ASSUME MirrorInv, NEW now \in Times, ServerTick(now) PROVE MirrorInv' /\ Reserves
<1> DEFINE gone == {p \in dead : owner[p] = "kept"}
           b == P!RemoveAll(s, gone)
           c == P!Admit(b, now)
           probe == P!CanProbe(c, now)
<1>1. /\ owner' = [p \in Clients |-> IF p \in gone THEN "none" ELSE owner[p]]
      /\ s' = IF probe THEN P!BeginProbe(c, now) ELSE c
      /\ probes' = IF probe THEN probes \cup {host} ELSE probes
      /\ UNCHANGED <<host, link, stale, helper, dead>>
  BY SameRemove, SameAdmit, SameProbes DEF ServerTick
<1>2. P!Sound(s) /\ P!Informed(s, host, probes) /\ now \in Nat
  BY MirrorConstants DEF MirrorInv
<1>3. /\ P!Sound(b) /\ P!Informed(b, host, probes)
      /\ b.members = [y \in DOMAIN s.members \ gone |-> s.members[y]]
  BY <1>2, CoordinatorConstants, P!RemoveAllSound, P!RemoveAllInformed
<1>4. \A q \in DOMAIN b.members : q \in DOMAIN s.members /\ P!Drifts(b.members[q], s.members[q])
  BY <1>2, <1>3, Remaining
<1> HIDE DEF b
<1>5. P!Sound(c) /\ P!Informed(c, host, probes) /\ P!AllDrift(c, b)
  BY <1>2, <1>3, CoordinatorConstants, P!AdmitSound, P!AdmitQuiet, P!QuietInformed, P!AdmitDrifts
<1> HIDE DEF c
<1>6. /\ P!Sound(s') /\ P!Informed(s', host, probes') /\ P!AllDrift(s', c)
      /\ probes' \subseteq [Sessions -> P!Status]
  <2>1. CASE probe
    <3>1. ~c.checking
      BY <2>1 DEF P!CanProbe
    <3>2. host \in [Sessions -> P!Status] /\ probes \subseteq [Sessions -> P!Status]
      BY DEF MirrorInv, P!Status
    <3> QED  BY <1>1, <1>2, <1>5, <2>1, <3>1, <3>2, CoordinatorConstants,
                P!BeginProbeSound, P!BeginProbeInformed, P!BeginProbeDrifts
  <2>2. CASE ~probe
    BY <1>1, <1>5, <2>2, CoordinatorConstants, P!SameMembersDrift DEF MirrorInv
  <2> QED  BY <2>1, <2>2
<1>7. P!AllDrift(s', b)
  BY <1>3, <1>5, <1>6, CoordinatorConstants, P!AllDriftComposes
<1>8. DOMAIN s'.members = DOMAIN s.members \ gone
  BY <1>3, <1>7 DEF P!AllDrift
<1>9. ASSUME NEW q \in DOMAIN s'.members
      PROVE  q \in DOMAIN s.members /\ P!Drifts(s'.members[q], s.members[q])
  <2>1. q \in DOMAIN b.members /\ P!Drifts(s'.members[q], b.members[q])
    BY <1>7 DEF P!AllDrift
  <2>2. b.members[q] = s.members[q] /\ q \in DOMAIN s.members
    BY <1>3, <2>1
  <2> QED  BY <2>1, <2>2
<1>10. /\ helper' = helper /\ dead' = dead /\ host' = host
       /\ DOMAIN owner' = Clients /\ DOMAIN link' = Clients /\ DOMAIN stale' = Clients
       /\ \A q \in Clients : TrueEnd(q, link'[q], host)
       /\ \A q \in Clients \ dead : Whole(q, helper[q], link'[q], stale'[q], s)
  BY <1>1 DEF MirrorInv, Kept
<1>11. \A q \in Clients : owner'[q] # "none" => q \in DOMAIN s'.members
  BY <1>1, <1>8 DEF MirrorInv, Kept
<1>12. /\ MirrorInv'
       /\ \A q \in P!Pending(s) \ (dead \cup {}) :
             q \in DOMAIN s'.members => s'.members[q].ended \/ P!IsPending(s'.members[q])
  BY <1>6, <1>9, <1>10, <1>11, CoordinatorStep
<1>13. P!Pending(s) \subseteq DOMAIN s.members /\ gone \subseteq dead
  BY DEF P!Pending
<1> QED  BY <1>8, <1>10, <1>12, <1>13, SamePending DEF Reserves

LEMMA ProbeEndsInv ==
    ASSUME MirrorInv, NEW now \in Times, ProbeEnds(now) PROVE MirrorInv' /\ Reserves
<1>1. PICK began \in probes : C!ProbeSucceeds(began, now) \/ C!ProbeFails(began, now)
  BY DEF ProbeEnds
<1>2. /\ UNCHANGED <<host, owner, link, stale, helper, dead>>
      /\ probes' = probes \ {began}
  BY <1>1 DEF ProbeEnds, C!ProbeSucceeds, C!ProbeFails
<1>3. /\ P!Sound(s) /\ P!Informed(s, host, probes) /\ now \in Nat
      /\ host \in [Sessions -> P!Status] /\ probes \in SUBSET [Sessions -> P!Status]
  BY MirrorConstants DEF MirrorInv, P!Status
<1>4. P!Sound(s') /\ P!Informed(s', host, probes') /\ P!AllDrift(s', s)
  <2>1. CASE C!ProbeSucceeds(began, now)
    <3>1. PICK inventory \in P!Listings(began, host) : s' = P!FinishProbe(s, now, inventory)
      BY <2>1, SameProbes, SameFinishProbe DEF C!ProbeSucceeds
    <3>2. inventory \in SUBSET Sessions
      BY DEF P!Listings
    <3>3. P!Informed(s', host, probes')
      BY <1>2, <1>3, <3>1, CoordinatorConstants, P!FinishProbeInformed
    <3> QED  BY <1>3, <3>1, <3>2, <3>3, CoordinatorConstants, P!FinishProbeSound, P!FinishProbeDrifts
  <2>2. CASE C!ProbeFails(began, now)
    <3>1. s' = P!FailProbe(s, now)
      BY <2>2, SameProbes DEF C!ProbeFails
    <3> QED  BY <1>2, <1>3, <3>1, CoordinatorConstants,
                P!FailProbeSound, P!FailProbeInformed, P!FailProbeDrifts
  <2> QED  BY <1>1, <2>1, <2>2
<1> QED  BY <1>2, <1>3, <1>4, AllDriftInv

\* A coordinator that knows nobody yet.
LEMMA NewKnowsNobody ==
    ASSUME NEW h
    PROVE  LET c == C!NewSessionRecovery IN
           /\ P!Sound(c) /\ P!Informed(c, h, {}) /\ DOMAIN c.members = {}
<1> DEFINE c == C!NewSessionRecovery
<1>1. P!IsCoordinator(c)
  <2>1. <<>> \in Seq(Clients) /\ 0 \in 0..FailureCap
    BY MirrorConstants
  <2>2. P!IsMap(c.members, Clients, P!Member) /\ P!IsMap(c.sessions, Sessions, P!SessionRetry)
    BY DEF C!NewSessionRecovery, P!IsMap
  <2> QED  BY <2>1, <2>2 DEF C!NewSessionRecovery, P!IsCoordinator
<1>2. P!Consistent(c) /\ P!WithinCapacity(c)
  BY DEF C!NewSessionRecovery, P!Consistent, P!Elements, P!WithinCapacity, P!Pending
<1>3. P!Informed(c, h, {}) /\ DOMAIN c.members = {}
  BY DEF C!NewSessionRecovery, P!Informed, P!Single, P!FewerThanTwo, P!Fated, P!Grown, P!Sought
<1> QED  BY <1>1, <1>2, <1>3 DEF P!Sound

LEMMA CrashInv == ASSUME MirrorInv, Crash PROVE MirrorInv' /\ Reserves
<1>1. /\ s' = C!NewSessionRecovery /\ probes' = {} /\ ~up'
      /\ owner' = [p \in Clients |-> "none"] /\ stale' = [p \in Clients |-> None]
      /\ link' = [p \in Clients |-> IF link[p] = None THEN None
                                   ELSE [link[p] EXCEPT !.request = None, !.served = FALSE]]
      /\ UNCHANGED <<host, helper, dead>>
  BY DEF Crash
<1>2. P!Sound(s') /\ P!Informed(s', host, probes') /\ DOMAIN s'.members = {}
  BY <1>1, NewKnowsNobody
<1>3. ASSUME NEW p \in Clients
      PROVE  TrueEnd(p, link'[p], host) /\ (p \notin dead => Whole(p, helper[p], link'[p], stale'[p], s))
  <2> DEFINE l == link'[p]
  <2>1. stale'[p] = None
    BY <1>1
  <2>2. TrueEnd(p, link[p], host) /\ (p \notin dead => Whole(p, helper[p], link[p], stale[p], s))
    BY DEF MirrorInv, Kept
  <2>3. CASE link[p] = None
    <3>1. l = None
      BY <1>1, <2>3
    <3>2. p \notin dead => Whole(p, helper[p], None, None, s)
      BY <2>2, <2>3, ServerClosesKeeps
    <3> QED  BY <2>1, <3>1, <3>2 DEF TrueEnd
  <2>4. CASE link[p] # None
    <3> DEFINE k == [link[p] EXCEPT !.request = None, !.served = FALSE]
    <3>1. l = k
      BY <1>1, <2>4
    <3>2. p \notin dead => Whole(p, helper[p], k, stale[p], s)
      BY <2>2, <2>4, ServerClosesKeeps
    <3>3. k \in [request : {None}, reply : {link[p].reply}, served : {FALSE}]
      BY <2>2, <2>4 DEF TrueEnd, IsLink
    <3> HIDE DEF k
    <3>4. p \notin dead => Whole(p, helper[p], k, None, s)
      BY <3>2, ServerClosesKeeps
    <3>5. TrueEnd(p, k, host)
      BY <2>2, <2>4, <3>3 DEF TrueEnd, IsLink
    <3> QED  BY <2>1, <3>1, <3>4, <3>5
  <2> QED  BY <2>3, <2>4
<1>4. /\ DOMAIN owner' = Clients /\ DOMAIN link' = Clients /\ DOMAIN stale' = Clients
      /\ \A q \in Clients : owner'[q] = "none"
  BY <1>1
<1>5. probes' \subseteq [Sessions -> P!Status] /\ host' = host /\ helper' = helper /\ dead' = dead
  BY <1>1
<1>6. MirrorInv'
  BY <1>2, <1>3, <1>4, <1>5, CoordinatorStep
<1>7. Reserves
  BY <1>1 DEF Reserves
<1> QED  BY <1>6, <1>7

LEMMA HostStepInv ==
    ASSUME MirrorInv, NEW x \in Mortal, HostStep(x) PROVE MirrorInv' /\ Reserves
<1>1. PICK status \in P!Status : /\ <<host[x], status>> \in P!HostSteps
                                 /\ host' = [host EXCEPT ![x] = status]
  BY DEF HostStep, C!HostStep, C!Status, P!Status, C!HostSteps, P!HostSteps
<1>2. UNCHANGED <<s, probes, owner, link, stale, helper, dead>> /\ x \in Sessions
  BY MirrorConstants DEF HostStep, C!HostStep
<1>3. host \in [Sessions -> {"live", "gone"}]
  BY DEF MirrorInv
<1>4. P!Informed(s', host', probes')
  <2>1. host \in [Sessions -> P!Status]
    BY <1>3 DEF P!Status
  <2> QED  BY <1>1, <1>2, <2>1, CoordinatorConstants, P!HostStepInformed DEF MirrorInv
<1>5. host[x] = "live" /\ status = "gone"
  BY <1>1, <1>2, <1>3 DEF P!HostSteps
<1>6. host' \in [Sessions -> {"live", "gone"}] /\ \A y \in Sessions : host[y] = "gone" => host'[y] = "gone"
  BY <1>1, <1>2, <1>3, <1>5
<1>7. \A p \in Clients : TrueEnd(p, link'[p], host')
  <2>1. \A p \in Clients : SessionOf[p] \in Sessions /\ TrueEnd(p, link[p], host)
    BY MirrorConstants DEF MirrorInv, Kept
  <2> QED  BY <1>2, <1>6, <2>1 DEF TrueEnd
<1>8. Kept'
  BY <1>2, <1>7 DEF MirrorInv, Kept
<1> QED  BY <1>2, <1>4, <1>6, <1>8, SameReserves DEF MirrorInv

-----------------------------------------------------------------------------
(* The theorems.                                                           *)

LEMMA NewHelperIsWhole ==
    ASSUME NEW p \in Clients, NEW c, DOMAIN c.members = {}
    PROVE  Whole(p, H(p)!Send(H(p)!NewHelper, FALSE), None, None, c)
<1> DEFINE x == H(p)!NewHelper
<1>1. /\ x \in Helper /\ x.alive = TRUE /\ x.grant = None /\ x.child = FALSE /\ x.gate = FALSE
      /\ x.opened = FALSE /\ x.reports = <<>> /\ x.call = None
  BY MirrorConstants DEF H!NewHelper, Helper, Attempts
<1> HIDE DEF x
<1>2. HelperOK(x)
  BY <1>1, ReportsDiffer DEF HelperOK
<1>3. WireOK(p, x, None, None) /\ ReplyOn(None) = None /\ Coming(p, x, None, None) = {}
  BY <1>1 DEF WireOK, ReplyOn, Coming, Sent
<1>4. Facing(p, x, {}, None, c)
  BY <1>1 DEF Facing
<1>5. Whole(p, x, None, None, c) /\ x.alive
  BY <1>1, <1>2, <1>3, <1>4 DEF Whole
<1> QED  BY <1>5, SendKeeps DEF x

LEMMA MirrorInit == Init => MirrorInv
<1> SUFFICES ASSUME Init PROVE MirrorInv
  OBVIOUS
<1>1. P!Sound(s) /\ P!Informed(s, host, probes) /\ DOMAIN s.members = {}
  BY NewKnowsNobody DEF Init
<1>2. host \in [Sessions -> {"live", "gone"}] /\ probes \subseteq [Sessions -> P!Status]
  BY DEF Init
<1>3. \A p \in Clients : Whole(p, helper[p], link[p], stale[p], s)
  BY <1>1, NewHelperIsWhole DEF Init
<1>4. \A p \in Clients : TrueEnd(p, link[p], host) /\ owner[p] = "none"
  BY DEF Init, TrueEnd
<1>5. /\ DOMAIN owner = Clients /\ DOMAIN link = Clients /\ DOMAIN stale = Clients
      /\ DOMAIN helper = Clients /\ dead = {}
  BY DEF Init
<1> QED  BY <1>1, <1>2, <1>3, <1>4, <1>5 DEF MirrorInv, Kept

LEMMA MirrorStep == MirrorInv /\ [Next]_vars => MirrorInv' /\ Reserves
<1> SUFFICES ASSUME MirrorInv, [Next]_vars PROVE MirrorInv' /\ Reserves
  OBVIOUS
<1>1. CASE UNCHANGED vars
  BY <1>1, StandStillInv DEF vars, coordinator
<1>2. ASSUME NEW p \in Clients,
             \/ HelperSteps(p) \/ CallCoordinator(p) \/ CallReturns(p) \/ CallFails(p)
             \/ Departs(p) \/ Dies(p)
      PROVE  MirrorInv' /\ Reserves
  BY <1>2, HelperStepsInv, CallCoordinatorInv, CallReturnsInv, CallFailsInv, DepartsInv, DiesInv
<1>3. ASSUME NEW p \in Clients, StartCoordinator(p) PROVE MirrorInv' /\ Reserves
  BY <1>3, StandStillInv DEF StartCoordinator
<1>4. ASSUME NEW p \in Clients, HangUp(p, "link") \/ HangUp(p, "stale") PROVE MirrorInv' /\ Reserves
  BY <1>4, HangUpInv
<1>5. ASSUME NEW p \in Clients, NEW now \in Times, ServeLink(p, now) \/ ServeStale(p, now)
      PROVE  MirrorInv' /\ Reserves
  BY <1>5, ServeLinkInv, ServeStaleInv
<1>6. ASSUME NEW now \in Times, ServerTick(now) \/ ProbeEnds(now) PROVE MirrorInv' /\ Reserves
  BY <1>6, ServerTickInv, ProbeEndsInv
<1>7. ASSUME Crash \/ OrphanEnds PROVE MirrorInv' /\ Reserves
  BY <1>7, CrashInv, StandStillInv DEF OrphanEnds
<1>8. ASSUME NEW x \in Mortal, HostStep(x) PROVE MirrorInv' /\ Reserves
  BY <1>8, HostStepInv
<1> QED  BY <1>1, <1>2, <1>3, <1>4, <1>5, <1>6, <1>7, <1>8 DEF Next

LEMMA MirrorInvAlways == Spec => []MirrorInv
BY MirrorInit, MirrorStep, PTL DEF Spec

\* While a registered helper runs a child that was not announced ready, the
\* coordinator holds that very attempt, or waits for its reap, for any number
\* of helpers and of coordinators that crash and are replaced, with requests
\* abandoned, delayed and answered late (NewMember, CheckChild, Release).
THEOREM ChildAccountedHolds == Spec => []ChildAccounted
<1>1. MirrorInv => ChildAccounted
  <2> SUFFICES ASSUME MirrorInv, NEW p \in Members, helper[p].child, ~helper[p].opened, ~s.members[p].ended
               PROVE  LET m == s.members[p] IN
                      m.active = helper[p].attempt \/ (m.active = None /\ m.reset)
    BY DEF ChildAccounted
  <2>1. p \in Clients
    BY SoundMembers DEF MirrorInv, Members
  <2>2. p \notin dead
    BY DEF MirrorInv, Kept, Over
  <2>3. P!Covers(s.members[p], helper[p].attempt)
    BY <2>1, <2>2 DEF MirrorInv, Kept, Whole, Facing, Faces, Members
  <2> QED  BY <2>3 DEF P!Covers
<1> QED  BY <1>1, MirrorInvAlways, PTL

\* What a member reserves is what its living helper would still report as
\* lost, whatever was lost or repeated on the way (fail, Releases).
THEOREM ReleasableHolds == Spec => []Releasable
<1>1. MirrorInv => Releasable
  <2> SUFFICES ASSUME MirrorInv, NEW p \in Members \ dead
               PROVE  LET m == s.members[p] IN
                      /\ m.active # None => m.active = helper[p].attempt
                      /\ m.active = None /\ m.reset /\ ~m.ended => m.retired = helper[p].attempt
    BY DEF Releasable
  <2>1. p \in Clients
    BY SoundMembers DEF MirrorInv, Members
  <2>2. P!Agrees(s.members[p], helper[p].attempt)
    BY <2>1 DEF MirrorInv, Kept, Whole, Facing, Faces, Members
  <2> QED  BY <2>2 DEF P!Agrees
<1> QED  BY <1>1, MirrorInvAlways, PTL

\* No coordinator revokes an attachment whose readiness was acknowledged, this
\* one or one that took over, for any number of helpers and restarts
\* (Register, reply).
THEOREM ReadyNotRevokedHolds == Spec => []ReadyNotRevoked
<1>1. MirrorInv => ReadyNotRevoked
  <2> SUFFICES ASSUME MirrorInv, NEW p \in Clients, helper[p].gate, helper[p].reports = <<>>,
                      link[p] # None, link[p].reply # None
               PROVE  link[p].reply.cancel # helper[p].grant \/ link[p].reply.ended
    BY DEF ReadyNotRevoked
  <2>1. p \notin dead
    BY DEF MirrorInv, Kept, Over
  <2>2. Whole(p, helper[p], link[p], stale[p], s)
    BY <2>1 DEF MirrorInv, Kept
  <2>3. helper[p].alive /\ helper[p].grant = helper[p].attempt /\ helper[p].attempt # None
    BY <2>2, NoneIsNew DEF Whole, HelperOK, Helper
  <2>4. ReplyOn(link[p]) = link[p].reply
    BY DEF ReplyOn
  <2>5. link[p].reply.cancel = None \/ link[p].reply.ended
    BY <2>2, <2>3, <2>4 DEF Whole, Facing
  <2> QED  BY <2>3, <2>5
<1> QED  BY <1>1, MirrorInvAlways, PTL

\* A reply that says that the session ended is right, whenever it is read and
\* whichever coordinator wrote it (finishProbe, reply).
THEOREM EndIsTrueHolds == Spec => []EndIsTrue
<1>1. MirrorInv => EndIsTrue
  BY DEF MirrorInv, Kept, TrueEnd, EndIsTrue
<1> QED  BY <1>1, MirrorInvAlways, PTL

\* The place of a running child that is not open is given away by no lost
\* connection, takeover, late message, probe or departure of others, for any
\* number of helpers and coordinators (serve, the owners map, tick).
THEOREM ReservedUntilReapedHolds == Spec => ReservedUntilReaped
<1>1. MirrorInv /\ [Next]_vars
        => [\A p \in C!Pending(s) :
              helper[p].child /\ ~helper[p].opened /\ p \notin dead' /\ up'
                => p \in DOMAIN s'.members
                   /\ (C!IsPending(s'.members[p]) \/ s'.members[p].ended)]_vars
  BY MirrorStep DEF Reserves
<1> QED  BY <1>1, MirrorInvAlways, PTL DEF Spec, ReservedUntilReaped
=============================================================================
