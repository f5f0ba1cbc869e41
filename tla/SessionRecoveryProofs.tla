------------------------ MODULE SessionRecoveryProofs ------------------------
(***************************************************************************)
(* Proofs about the recovery coordinator for every number of clients,      *)
(* sessions and attempts, every lease and backoff, and clocks that may go  *)
(* back.  The methods of the struct are operators from a record to a       *)
(* record, so the argument is one lemma per method.                        *)
(***************************************************************************)
EXTENDS SessionRecovery, FiniteSetTheorems, TLAPS

\* What every method of the coordinator preserves.
Sound(c) == IsCoordinator(c) /\ Consistent(c) /\ WithinCapacity(c)

\* d differs from c in nothing the bookkeeping and the capacity depend on,
\* except that fewer members may be pending.
Eases(d, c) ==
    /\ d.order = c.order
    /\ DOMAIN d.members = DOMAIN c.members
    /\ \A x \in DOMAIN c.members : d.members[x].session = c.members[x].session
    /\ DOMAIN d.sessions = DOMAIN c.sessions
    /\ Pending(d) \subseteq Pending(c)

LEMMA EasesIsSound ==
    ASSUME NEW c, NEW d, Sound(c), IsCoordinator(d), Eases(d, c)
    PROVE  Sound(d)
<1>1. Pending(c) \subseteq DOMAIN c.members
  BY DEF Pending
<1>2. WithinCapacity(d)
  BY <1>1 DEF Sound, Eases, WithinCapacity
<1>3. Consistent(d)
  <2>1. {d.members[x].session : x \in DOMAIN d.members}
          = {c.members[x].session : x \in DOMAIN c.members}
    BY DEF Eases
  <2> QED  BY <2>1 DEF Sound, Eases, Consistent
<1> QED  BY <1>2, <1>3 DEF Sound

\* A method that only replaces members, one by one, in place.
LEMMA MembersReplaced ==
    ASSUME NEW c, Sound(c),
           NEW f \in [DOMAIN c.members -> Member],
           \A x \in DOMAIN c.members :
               /\ f[x].session = c.members[x].session
               /\ IsPending(f[x]) => IsPending(c.members[x])
    PROVE  Sound([c EXCEPT !.members = f])
<1> DEFINE d == [c EXCEPT !.members = f]
<1>1. IsCoordinator(d)
  BY DEF Sound, IsCoordinator, IsMap
<1>2. Eases(d, c)
  BY DEF Eases, Pending, Sound, IsCoordinator
<1> QED  BY <1>1, <1>2, EasesIsSound

LEMMA SetMemberInPlace ==
    ASSUME NEW c, Sound(c), NEW x \in DOMAIN c.members, NEW m \in Member,
           m.session = c.members[x].session,
           IsPending(m) => IsPending(c.members[x])
    PROVE  /\ Sound(SetMember(c, x, m))
           /\ DOMAIN SetMember(c, x, m).members = DOMAIN c.members
           /\ SetMember(c, x, m).members[x] = m
           /\ SetMember(c, x, m).sessions = c.sessions
<1> DEFINE f == [y \in DOMAIN c.members |-> IF y = x THEN m ELSE c.members[y]]
<1>1. f \in [DOMAIN c.members -> Member]
  BY DEF Sound, IsCoordinator, IsMap
<1>2. Sound([c EXCEPT !.members = f])
  <2> HIDE DEF f
  <2>1. \A y \in DOMAIN c.members : /\ f[y].session = c.members[y].session
                                    /\ IsPending(f[y]) => IsPending(c.members[y])
    BY DEF f
  <2> QED  BY <1>1, <2>1, MembersReplaced
<1>3. SetMember(c, x, m) = [c EXCEPT !.members = f]
  <2>1. DOMAIN c.members \cup {x} = DOMAIN c.members
    OBVIOUS
  <2> QED  BY <2>1 DEF SetMember
<1> QED  BY <1>2, <1>3 DEF Sound, IsCoordinator

LEMMA SetRetryInPlace ==
    ASSUME NEW c, Sound(c), NEW x \in DOMAIN c.sessions, NEW retry \in SessionRetry
    PROVE  /\ Sound(SetRetry(c, x, retry))
           /\ SetRetry(c, x, retry).members = c.members
<1> DEFINE d == SetRetry(c, x, retry)
<1>1. IsCoordinator(d)
  BY DEF Sound, IsCoordinator, IsMap, SetRetry
<1>2. Eases(d, c)
  BY DEF Eases, Pending, Sound, IsCoordinator, SetRetry
<1>3. d.members = c.members
  BY DEF Sound, IsCoordinator, SetRetry
<1> QED  BY <1>1, <1>2, <1>3, EasesIsSound

-----------------------------------------------------------------------------
(* The methods that schedule probes and expire leases.                     *)

LEMMA RequestProbeSound ==
    ASSUME NEW c, Sound(c), NEW now \in Nat
    PROVE  /\ Sound(RequestProbe(c, now))
           /\ RequestProbe(c, now).members = c.members
           /\ RequestProbe(c, now).sessions = c.sessions
<1> DEFINE d == RequestProbe(c, now)
<1> USE RecoveryConstants
<1>1. IsCoordinator(d)
  <2>1. CASE c.checking
    BY <2>1 DEF Sound, RequestProbe
  <2>2. CASE ~c.checking
    <3> DEFINE floor == c.lastProbe + ProbeFloor
               due   == IF now < floor THEN floor ELSE now
               next  == IF c.nextProbe = 0 \/ due < c.nextProbe THEN due ELSE c.nextProbe
    <3>1. next \in Nat
      BY DEF Sound, IsCoordinator
    <3>2. d = [c EXCEPT !.wanted = TRUE, !.nextProbe = next]
      BY <2>2 DEF RequestProbe
    <3> HIDE DEF next
    <3> QED  BY <3>1, <3>2 DEF Sound, IsCoordinator
  <2> QED  BY <2>1, <2>2
<1>2. d.members = c.members /\ d.sessions = c.sessions /\ d.order = c.order
  BY DEF Sound, IsCoordinator, RequestProbe
<1>3. Eases(d, c)
  BY <1>2 DEF Eases, Pending
<1> QED  BY <1>1, <1>2, <1>3, EasesIsSound

LEMMA BeginProbeSound ==
    ASSUME NEW c, Sound(c), NEW now \in Nat
    PROVE  Sound(BeginProbe(c, now))
<1> DEFINE d == BeginProbe(c, now)
<1>1. IsCoordinator(d)
  <2>1. \A x \in DOMAIN c.members : [c.members[x] EXCEPT !.observed = TRUE] \in Member
    BY DEF Sound, IsCoordinator, IsMap, Member
  <2> QED  BY <2>1 DEF Sound, IsCoordinator, IsMap, BeginProbe
<1>2. Eases(d, c)
  <2>1. \A x \in DOMAIN c.members : c.members[x] \in Member
    BY DEF Sound, IsCoordinator, IsMap
  <2>2. \A x \in DOMAIN c.members :
           /\ d.members[x].session = c.members[x].session
           /\ IsPending(d.members[x]) <=> IsPending(c.members[x])
    BY <2>1 DEF Sound, IsCoordinator, BeginProbe, IsPending, Member
  <2> QED  BY <2>2 DEF Eases, Pending, Sound, IsCoordinator, BeginProbe
<1> QED  BY <1>1, <1>2, EasesIsSound

LEMMA ExpireSound ==
    ASSUME NEW c, Sound(c), NEW now \in Nat
    PROVE  /\ Sound(Expire(c, now))
           /\ DOMAIN Expire(c, now).members = DOMAIN c.members
<1> DEFINE f == [x \in DOMAIN c.members |->
                    LET m == c.members[x] IN
                    IF IsPending(m) /\ now >= m.deadline
                    THEN [m EXCEPT !.reset = TRUE] ELSE m]
<1>1. \A x \in DOMAIN c.members : c.members[x] \in Member
  BY DEF Sound, IsCoordinator, IsMap
<1>2. f \in [DOMAIN c.members -> Member]
  BY <1>1 DEF Member
<1>3. \A x \in DOMAIN c.members :
         /\ f[x].session = c.members[x].session
         /\ IsPending(f[x]) => IsPending(c.members[x])
  BY <1>1 DEF Member, IsPending
<1>4. Expire(c, now) = [c EXCEPT !.members = f]
  BY DEF Expire
<1> HIDE DEF f
<1>5. Sound([c EXCEPT !.members = f])
  BY <1>2, <1>3, MembersReplaced
<1> QED  BY <1>2, <1>4, <1>5 DEF Sound, IsCoordinator

LEMMA FailProbeSound ==
    ASSUME NEW c, Sound(c), NEW now \in Nat
    PROVE  Sound(FailProbe(c, now))
<1> DEFINE d == FailProbe(c, now)
<1> USE RecoveryConstants
<1>1. \A x \in DOMAIN c.members : c.members[x] \in Member
  BY DEF Sound, IsCoordinator, IsMap
<1>2. IsCoordinator(d)
  <2>1. \A x \in DOMAIN c.members : [c.members[x] EXCEPT !.observed = FALSE] \in Member
    BY <1>1 DEF Member
  <2>2. RecoveryDelay(c.failures) \in Nat /\ Saturate(c.failures) \in 0..FailureCap
    BY DEF Sound, IsCoordinator, RecoveryDelay, Saturate
  <2> QED  BY <2>1, <2>2 DEF Sound, IsCoordinator, IsMap, FailProbe
<1>3. Eases(d, c)
  <2>1. \A x \in DOMAIN c.members :
           /\ d.members[x].session = c.members[x].session
           /\ IsPending(d.members[x]) <=> IsPending(c.members[x])
    BY <1>1 DEF Sound, IsCoordinator, FailProbe, IsPending, Member
  <2> QED  BY <2>1 DEF Eases, Pending, Sound, IsCoordinator, FailProbe
<1> QED  BY <1>2, <1>3, EasesIsSound

-----------------------------------------------------------------------------
(* Admission.                                                              *)

\* A set of places has a first one.
LEMMA FiniteMinimum ==
    ASSUME NEW I \in SUBSET Nat, NEW k \in I
    PROVE  \E i \in I : IsFirst(i, I)
<1> DEFINE R == OpToRel(<, Nat)
<1>1. \E i \in I : \A j \in I : ~(<<j, i>> \in R)
  <2> HIDE DEF R
  <2>1. IsWellFoundedOn(R, Nat)
    BY NatLessThanWellFounded DEF R
  <2> QED  BY <2>1, WFMin
<1>2. \A i, j \in Nat : <<j, i>> \in R <=> j < i
  BY DEF OpToRel
<1> HIDE DEF R
<1>3. PICK i \in I : \A j \in I : ~(<<j, i>> \in R)
  BY <1>1
<1>4. \A j \in I : i <= j
  <2> TAKE j \in I
  <2>1. i \in Nat /\ j \in Nat
    OBVIOUS
  <2>2. ~(j < i)
    BY <1>2, <1>3, <2>1
  <2> QED  BY <2>1, <2>2
<1> QED  BY <1>4 DEF IsFirst

\* The members of the order, and the backoff of a member's session, exist.
LEMMA OrderedAreMembers ==
    ASSUME NEW c, Sound(c), NEW i \in 1..Len(c.order)
    PROVE  /\ c.order[i] \in DOMAIN c.members
           /\ c.members[c.order[i]] \in Member
<1>1. c.order[i] \in DOMAIN c.members
  BY DEF Sound, Consistent, Elements
<1> QED  BY <1>1 DEF Sound, IsCoordinator, IsMap

LEMMA NextAdmittedIsCandidate ==
    ASSUME NEW c, Sound(c), NEW now \in Nat
    PROVE  LET i == NextAdmitted(c, now) IN
           \/ i = 0
           \/ /\ i \in 1..Len(c.order)
              /\ Admissible(c, now, c.order[i])
              /\ FewerThanTwo(Pending(c))
<1> DEFINE I == Candidates(c, now)
<1>1. CASE ~(FewerThanTwo(Pending(c)) /\ I # {})
  BY <1>1 DEF NextAdmitted
<1>2. CASE FewerThanTwo(Pending(c)) /\ I # {}
  <2>1. I \subseteq Nat
    BY DEF Candidates
  <2>2. \E i \in I : IsFirst(i, I)
    <3>1. PICK k \in I : TRUE
      BY <1>2
    <3> HIDE DEF I
    <3> QED  BY <2>1, <3>1, FiniteMinimum
  <2>3. NextAdmitted(c, now) = CHOOSE i \in I : IsFirst(i, I)
    BY <1>2 DEF NextAdmitted
  <2>4. NextAdmitted(c, now) \in I
    BY <2>2, <2>3
  <2> QED  BY <2>4, <1>2 DEF Candidates
<1> QED  BY <1>1, <1>2

LEMMA GrantedMember ==
    ASSUME NEW n \in Member, NEW t \in Nat
    PROVE  /\ [n EXCEPT !.active = n.proposed, !.deadline = t] \in Member
           /\ [n EXCEPT !.active = n.proposed, !.deadline = t].session = n.session
BY DEF Member

\* An admission fills one of two slots, and its session's only one.
LEMMA GrantSound ==
    ASSUME NEW c, Sound(c), NEW now \in Nat
    PROVE  /\ Sound(Grant(c, now, NextAdmitted(c, now)))
           /\ Grant(c, now, NextAdmitted(c, now)).order = c.order
           /\ DOMAIN Grant(c, now, NextAdmitted(c, now)).members = DOMAIN c.members
<1> DEFINE i == NextAdmitted(c, now)
           x == c.order[i]
           m == [c.members[x] EXCEPT !.active = c.members[x].proposed,
                                     !.deadline = now + Lease]
           f == [y \in DOMAIN c.members |-> IF y = x THEN m ELSE c.members[y]]
           d == [c EXCEPT !.members = f]
<1>1. CASE i = 0
  BY <1>1 DEF Grant
<1>2. CASE i # 0
  <2>1. /\ i \in 1..Len(c.order)
        /\ Admissible(c, now, x)
        /\ FewerThanTwo(Pending(c))
    BY <1>2, NextAdmittedIsCandidate
  <2>2. x \in DOMAIN c.members /\ c.members[x] \in Member
    BY <2>1, OrderedAreMembers
  <2>3. m \in Member /\ m.session = c.members[x].session
    <3>1. now + Lease \in Nat
      BY RecoveryConstants
    <3> QED  BY <2>2, <3>1, GrantedMember
  <2>4. Grant(c, now, i) = d
    <3>1. DOMAIN c.members \cup {x} = DOMAIN c.members
      BY <2>2
    <3> QED  BY <1>2, <3>1 DEF Grant, SetMember
  <2>5. f \in [DOMAIN c.members -> Member]
    BY <2>3 DEF Sound, IsCoordinator, IsMap
  <2>6. /\ DOMAIN f = DOMAIN c.members
        /\ \A y \in DOMAIN c.members : f[y].session = c.members[y].session
        /\ \A y \in DOMAIN c.members : y # x => f[y] = c.members[y]
    BY <2>3
  <2> HIDE DEF f, m
  <2>7. /\ d.members = f /\ d.order = c.order /\ d.sessions = c.sessions
        /\ IsCoordinator(d)
    BY <2>5 DEF Sound, IsCoordinator, IsMap
  <2>8. Consistent(d)
    <3>1. {f[y].session : y \in DOMAIN f} = {c.members[y].session : y \in DOMAIN c.members}
      BY <2>6
    <3> HIDE DEF d
    <3> QED  BY <2>6, <2>7, <3>1 DEF Sound, Consistent
  <2>9. Pending(d) \subseteq Pending(c) \cup {x}
    BY <2>6, <2>7 DEF Pending
  <2>10. WithinCapacity(d)
    <3>1. \A y, z \in Pending(c) : y = z
      BY <2>1 DEF FewerThanTwo
    <3>2. \A y \in Pending(c) : c.members[y].session # c.members[x].session
      BY <2>1 DEF Admissible, Busy
    <3>3. Pending(d) \subseteq DOMAIN c.members
      BY <2>6, <2>7 DEF Pending
    <3> HIDE DEF d, x
    <3>4. \A y, z \in Pending(d) : d.members[y].session = d.members[z].session => y = z
      BY <2>6, <2>7, <2>9, <3>1, <3>2, <3>3
    <3> QED  BY <2>9, <3>1, <3>4 DEF WithinCapacity
  <2> HIDE DEF d
  <2> QED  BY <2>4, <2>6, <2>7, <2>8, <2>10 DEF Sound
<1> QED  BY <1>1, <1>2

\* Turning n places by i is a permutation of them.
Turn(n, i) == [j \in 1..n |-> IF i + j <= n THEN i + j ELSE i + j - n]

LEMMA TurnPermutes ==
    ASSUME NEW n \in Nat, NEW i \in 0..n
    PROVE  /\ \A j \in 1..n : Turn(n, i)[j] \in 1..n
           /\ \A j, k \in 1..n : Turn(n, i)[j] = Turn(n, i)[k] => j = k
           /\ \A k \in 1..n : \E j \in 1..n : Turn(n, i)[j] = k
<1>1. /\ \A j \in 1..n : Turn(n, i)[j] \in 1..n
      /\ \A j, k \in 1..n : Turn(n, i)[j] = Turn(n, i)[k] => j = k
  BY DEF Turn
<1>2. ASSUME NEW k \in 1..n PROVE \E j \in 1..n : Turn(n, i)[j] = k
  <2>1. CASE k > i
    <3>1. k - i \in 1..n /\ Turn(n, i)[k - i] = k
      BY <2>1 DEF Turn
    <3> QED  BY <3>1
  <2>2. CASE k <= i
    <3>1. k - i + n \in 1..n /\ Turn(n, i)[k - i + n] = k
      BY <2>2 DEF Turn
    <3> QED  BY <3>1
  <2>3. k > i \/ k <= i
    OBVIOUS
  <2> QED  BY <2>1, <2>2, <2>3
<1> QED  BY <1>1, <1>2

\* Permuting the places of a sequence keeps its elements.
LEMMA SameElements ==
    ASSUME NEW N, NEW a, NEW b, NEW p,
           \A j \in N : p[j] \in N /\ b[j] = a[p[j]],
           \A k \in N : \E j \in N : p[j] = k
    PROVE  {b[j] : j \in N} = {a[j] : j \in N}
<1>1. ASSUME NEW k \in N PROVE \E j \in N : b[j] = a[k]
  <2>1. PICK j \in N : p[j] = k
    OBVIOUS
  <2>2. b[j] = a[k]
    BY <2>1
  <2> QED  BY <2>2
<1>2. ASSUME NEW j \in N PROVE \E k \in N : a[k] = b[j]
  OBVIOUS
<1> DEFINE A == {a[j] : j \in N}
           B == {b[j] : j \in N}
<1>3. A \subseteq B
  BY <1>1
<1>4. B \subseteq A
  BY <1>2
<1> HIDE DEF A, B
<1>5. A = B
  BY <1>3, <1>4
<1> QED  BY <1>5 DEF A, B

LEMMA RotateOrderSound ==
    ASSUME NEW c, Sound(c), NEW i \in 0..Len(c.order)
    PROVE  /\ Sound(RotateOrder(c, i))
           /\ RotateOrder(c, i).members = c.members
<1> DEFINE n == Len(c.order)
           p == Turn(n, i)
           o == [j \in 1..n |-> IF i + j <= n THEN c.order[i + j] ELSE c.order[i + j - n]]
           d == [c EXCEPT !.order = o]
<1>0. n \in Nat /\ i \in 0..n /\ c.order \in Seq(Clients)
  BY DEF Sound, IsCoordinator
<1>1. CASE i = 0 \/ FewerThanTwo(Pending(c))
  BY <1>1 DEF RotateOrder
<1>2. CASE ~(i = 0 \/ FewerThanTwo(Pending(c)))
  <2>1. RotateOrder(c, i) = d
    BY <1>2 DEF RotateOrder
  <2>2. /\ \A j \in 1..n : p[j] \in 1..n
        /\ \A j, k \in 1..n : p[j] = p[k] => j = k
        /\ \A k \in 1..n : \E j \in 1..n : p[j] = k
    <3> HIDE DEF n
    <3> QED  BY <1>0, TurnPermutes
  <2>3. \A j \in 1..n : o[j] = c.order[p[j]]
    BY DEF Turn
  <2>5. o \in Seq(Clients) /\ Len(o) = n
    <3>1. \A j \in 1..n : c.order[j] \in Clients
      BY <1>0
    <3>2. o \in [1..n -> Clients]
      BY <2>2, <2>3, <3>1
    <3> QED  BY <1>0, <3>2
  <2> HIDE DEF p, o, n
  <2>6. /\ d.order = o /\ d.members = c.members /\ d.sessions = c.sessions
        /\ IsCoordinator(d)
    BY <2>5 DEF Sound, IsCoordinator
  <2>7. \A j, k \in 1..n : o[j] = o[k] => j = k
    <3>1. \A j, k \in 1..n : c.order[j] = c.order[k] => j = k
      BY DEF Sound, Consistent, n
    <3>2. ASSUME NEW j \in 1..n, NEW k \in 1..n, o[j] = o[k] PROVE j = k
      <4>1. p[j] \in 1..n /\ p[k] \in 1..n /\ c.order[p[j]] = c.order[p[k]]
        BY <2>2, <2>3, <3>2
      <4>2. p[j] = p[k]
        BY <3>1, <4>1
      <4> QED  BY <2>2, <4>2
    <3> QED  BY <3>2
  <2>8. Elements(o) = DOMAIN c.members
    <3>1. {c.order[j] : j \in 1..n} = DOMAIN c.members
      BY DEF Sound, Consistent, Elements, n
    <3> DEFINE N == 1..n
    <3>2. {o[j] : j \in 1..n} = {c.order[j] : j \in 1..n}
      <4>1. \A j \in N : p[j] \in N /\ o[j] = c.order[p[j]]
        BY <2>2, <2>3
      <4>2. \A k \in N : \E j \in N : p[j] = k
        BY <2>2
      <4> HIDE DEF N
      <4>3. {o[j] : j \in N} = {c.order[j] : j \in N}
        BY <4>1, <4>2, SameElements
      <4> QED  BY <4>3 DEF N
    <3> QED  BY <2>5, <3>1, <3>2 DEF Elements
  <2>9. Consistent(d)
    BY <2>5, <2>6, <2>7, <2>8 DEF Sound, Consistent
  <2>10. WithinCapacity(d)
    BY <2>6 DEF Sound, WithinCapacity, Pending
  <2> QED  BY <2>1, <2>6, <2>9, <2>10 DEF Sound
<1> QED  BY <1>1, <1>2

LEMMA AdmitSound ==
    ASSUME NEW c, Sound(c), NEW now \in Nat
    PROVE  /\ Sound(Admit(c, now))
           /\ DOMAIN Admit(c, now).members = DOMAIN c.members
<1> DEFINE c0 == Expire(c, now)
           i  == NextAdmitted(c0, now)
           c1 == Grant(c0, now, i)
           j  == NextAdmitted(c1, now)
           c2 == Grant(c1, now, j)
<1>1. Sound(c0) /\ DOMAIN c0.members = DOMAIN c.members
  BY ExpireSound
<1>2. Sound(c1) /\ c1.order = c0.order /\ DOMAIN c1.members = DOMAIN c0.members
  BY <1>1, GrantSound
<1>3. Sound(c2) /\ c2.order = c1.order /\ DOMAIN c2.members = DOMAIN c1.members
  BY <1>2, GrantSound
<1>4. i \in 0..Len(c0.order) /\ j \in 0..Len(c1.order)
  <2>1. Len(c0.order) \in Nat /\ Len(c1.order) \in Nat
    BY <1>1, <1>2 DEF Sound, IsCoordinator
  <2>2. (i = 0 \/ i \in 1..Len(c0.order)) /\ (j = 0 \/ j \in 1..Len(c1.order))
    BY <1>1, <1>2, NextAdmittedIsCandidate
  <2> QED  BY <2>1, <2>2
<1> DEFINE k == IF j = 0 THEN i ELSE j
<1>5. k \in 0..Len(c2.order)
  BY <1>2, <1>3, <1>4
<1>6. Admit(c, now) = IF ~c.available THEN c0 ELSE RotateOrder(c2, k)
  BY DEF Admit
<1> HIDE DEF c0, c1, c2, i, j, k
<1>7. Sound(RotateOrder(c2, k)) /\ RotateOrder(c2, k).members = c2.members
  BY <1>3, <1>5, RotateOrderSound
<1> QED  BY <1>1, <1>2, <1>3, <1>6, <1>7

-----------------------------------------------------------------------------
(* The exchange with a helper.                                             *)

LEMMA RequestFields ==
    ASSUME NEW r \in Requests
    PROVE  /\ r.client \in Clients /\ r.token \in Tokens /\ r.session \in Sessions
           /\ r.attempt \in Attempts /\ r.attempt # None
           /\ r.event \in {None, "ready", "lost"} /\ r.retry \in BOOLEAN
BY RecoveryConstants DEF Requests, RequestsOf

\* The last place of the order is the new member's.
LEMMA AppendedOrder ==
    ASSUME NEW o \in Seq(Clients), NEW x \in Clients
    PROVE  /\ Append(o, x) \in Seq(Clients)
           /\ Len(Append(o, x)) = Len(o) + 1
           /\ Append(o, x)[Len(o) + 1] = x
           /\ \A i \in 1..Len(o) : Append(o, x)[i] = o[i]
           /\ 1..(Len(o) + 1) = 1..Len(o) \cup {Len(o) + 1}
OBVIOUS

LEMMA RegisterSound ==
    ASSUME NEW c, Sound(c), NEW r \in Requests, NEW now \in Nat,
           r.client \notin DOMAIN c.members
    PROVE  /\ Sound(Register(c, r, now))
           /\ DOMAIN Register(c, r, now).members = DOMAIN c.members \cup {r.client}
<1> DEFINE x == r.client
           m == NewMember(r)
           c1 == SetMember(c, x, m)
           c2 == IF r.session \in DOMAIN c.sessions THEN c1
                 ELSE SetRetry(c1, r.session, Fresh)
           d == [c2 EXCEPT !.order = Append(c2.order, x)]
<1>1. m \in Member /\ m.session = r.session /\ ~IsPending(m)
  <2> DEFINE holds   == r.state = "ready"
             unknown == r.state = "connecting" \/ (r.event # None /\ ~holds)
  <2>1. holds \in BOOLEAN /\ unknown \in BOOLEAN /\ (holds \/ ~holds)
    OBVIOUS
  <2>2. m = MemberOf(r, holds, unknown)
    BY DEF NewMember
  <2> HIDE DEF unknown, holds
  <2>3. m \in Member /\ m.session = r.session
    BY <2>1, <2>2, RequestFields DEF Member, MemberOf
  <2>4. ~IsPending(m)
    BY <2>1, <2>2 DEF IsPending, MemberOf
  <2> QED  BY <2>3, <2>4
<1>2. Register(c, r, now) = RequestProbe(d, now)
  BY DEF Register
<1> HIDE DEF m
<1>3. /\ c1.members = [y \in DOMAIN c.members \cup {x} |-> IF y = x THEN m ELSE c.members[y]]
      /\ c1.order = c.order /\ c1.sessions = c.sessions
      /\ IsCoordinator(c1)
  <2>1. x \in Clients
    BY RequestFields
  <2> QED  BY <1>1, <2>1 DEF Sound, IsCoordinator, IsMap, SetMember
<1> HIDE DEF c1
<1>4. /\ c2.members = c1.members /\ c2.order = c.order
      /\ DOMAIN c2.sessions = DOMAIN c.sessions \cup {r.session}
      /\ IsCoordinator(c2)
  <2>1. CASE r.session \in DOMAIN c.sessions
    BY <1>3, <2>1
  <2>2. CASE r.session \notin DOMAIN c.sessions
    <3>1. Fresh \in SessionRetry /\ r.session \in Sessions
      BY RequestFields, RecoveryConstants DEF Fresh, SessionRetry
    <3> QED  BY <1>3, <2>2, <3>1 DEF IsCoordinator, IsMap, SetRetry
  <2> QED  BY <2>1, <2>2
<1> HIDE DEF c2
<1>5. /\ d.members = c1.members /\ d.order = Append(c.order, x)
      /\ d.sessions = c2.sessions /\ IsCoordinator(d)
  <2>1. Append(c.order, x) \in Seq(Clients)
    BY RequestFields, AppendedOrder DEF Sound, IsCoordinator
  <2> QED  BY <1>4, <2>1 DEF IsCoordinator
<1> HIDE DEF d
<1>6. Pending(d) = Pending(c)
  BY <1>1, <1>3, <1>5 DEF Pending
<1>7. \A y \in DOMAIN c.members : d.members[y] = c.members[y]
  BY <1>3, <1>5
<1>8. WithinCapacity(d)
  <2>1. Pending(c) \subseteq DOMAIN c.members
    BY DEF Pending
  <2> QED  BY <1>6, <1>7, <2>1 DEF Sound, WithinCapacity
<1>9. Consistent(d)
  <2>1. DOMAIN d.members = DOMAIN c.members \cup {x}
    BY <1>3, <1>5
  <2>2. /\ Len(d.order) = Len(c.order) + 1 /\ Len(c.order) \in Nat
        /\ d.order[Len(c.order) + 1] = x
        /\ \A i \in 1..Len(c.order) : d.order[i] = c.order[i]
        /\ 1..(Len(c.order) + 1) = 1..Len(c.order) \cup {Len(c.order) + 1}
    BY <1>5, RequestFields, AppendedOrder DEF Sound, IsCoordinator
  <2>3. \A i \in 1..Len(c.order) : c.order[i] \in DOMAIN c.members
    BY OrderedAreMembers
  <2>4. \A i, j \in 1..Len(d.order) : d.order[i] = d.order[j] => i = j
    <3>1. \A i, j \in 1..Len(c.order) : c.order[i] = c.order[j] => i = j
      BY DEF Sound, Consistent
    <3>2. \A i, j \in 1..Len(c.order) : d.order[i] = d.order[j] => i = j
      BY <2>2, <3>1
    <3>3. \A i \in 1..Len(c.order) : d.order[i] # d.order[Len(c.order) + 1]
      BY <2>2, <2>3
    <3>4. 1..Len(d.order) = 1..Len(c.order) \cup {Len(c.order) + 1}
      BY <2>2
    <3> HIDE DEF x
    <3> QED  BY <3>2, <3>3, <3>4
  <2>5. Elements(d.order) = DOMAIN d.members
    <3>1. Elements(d.order) = Elements(c.order) \cup {x}
      BY <2>2 DEF Elements
    <3> QED  BY <2>1, <3>1 DEF Sound, Consistent
  <2>6. DOMAIN d.sessions = {d.members[y].session : y \in DOMAIN d.members}
    <3>1. d.members[x].session = r.session
      BY <1>1, <1>3, <1>5
    <3>2. {d.members[y].session : y \in DOMAIN d.members}
            = {c.members[y].session : y \in DOMAIN c.members} \cup {r.session}
      BY <1>7, <2>1, <3>1
    <3> QED  BY <1>4, <1>5, <3>2 DEF Sound, Consistent
  <2> QED  BY <2>4, <2>5, <2>6 DEF Consistent
<1>10. Sound(d) /\ DOMAIN d.members = DOMAIN c.members \cup {x}
  BY <1>3, <1>5, <1>8, <1>9 DEF Sound
<1> QED  BY <1>2, <1>10, RequestProbeSound

\* The loss of an attempt charges its session's backoff.
LEMMA FailSound ==
    ASSUME NEW c, Sound(c), NEW x \in DOMAIN c.members, NEW now \in Nat
    PROVE  /\ Sound(Fail(c, x, now))
           /\ DOMAIN Fail(c, x, now).members = DOMAIN c.members
<1> DEFINE m == c.members[x]
           retry == c.sessions[m.session]
           n == [m EXCEPT !.retired = m.active, !.active = None,
                          !.ready = FALSE, !.reset = FALSE]
           c1 == SetMember(c, x, n)
           later == [failures |-> Saturate(retry.failures),
                     at |-> now + RecoveryDelay(retry.failures)]
<1>1. m \in Member
  BY DEF Sound, IsCoordinator, IsMap
<1>2. m.session \in DOMAIN c.sessions /\ retry \in SessionRetry
  <2>1. m.session \in DOMAIN c.sessions
    BY DEF Sound, Consistent
  <2> QED  BY <2>1 DEF Sound, IsCoordinator, IsMap
<1>3. n \in Member /\ n.session = m.session /\ ~IsPending(n)
  BY <1>1 DEF Member, IsPending
<1>4. later \in SessionRetry
  BY <1>2, RecoveryConstants DEF SessionRetry, Saturate, RecoveryDelay
<1>5. Fail(c, x, now) = SetRetry(c1, m.session, later)
  BY DEF Fail
<1> HIDE DEF n, later
<1>6. /\ Sound(c1) /\ DOMAIN c1.members = DOMAIN c.members
      /\ c1.sessions = c.sessions
  BY <1>3, SetMemberInPlace
<1> QED  BY <1>2, <1>4, <1>5, <1>6, SetRetryInPlace

LEMMA ApplyEventSound ==
    ASSUME NEW c, Sound(c), NEW r \in Requests, NEW now \in Nat,
           r.client \in DOMAIN c.members
    PROVE  /\ Sound(ApplyEvent(c, r, now))
           /\ DOMAIN ApplyEvent(c, r, now).members = DOMAIN c.members
<1> DEFINE x == r.client
           m == c.members[x]
           d == ApplyEvent(c, r, now)
<1>1. m \in Member
  BY DEF Sound, IsCoordinator, IsMap
<1>2. m.session \in DOMAIN c.sessions
  BY DEF Sound, Consistent
<1>3. CASE Releases(m, r)
  <2> DEFINE n == [m EXCEPT !.reset = m.reset /\ m.active # None]
  <2>1. n \in Member /\ n.session = m.session /\ (IsPending(n) => IsPending(m))
    BY <1>1 DEF Member, IsPending
  <2>2. d = SetMember(c, x, n)
    BY <1>3, RecoveryConstants DEF ApplyEvent, Releases
  <2> HIDE DEF n
  <2> QED  BY <2>1, <2>2, SetMemberInPlace
<1>4. CASE r.event = "ready"
  <2> DEFINE n == [m EXCEPT !.ready = TRUE]
  <2>1. n \in Member /\ n.session = m.session /\ ~IsPending(n)
    BY <1>1 DEF Member, IsPending
  <2>2. d = SetRetry(SetMember(c, x, n), m.session, Fresh)
    BY <1>4, RecoveryConstants DEF ApplyEvent, Releases
  <2>3. Fresh \in SessionRetry
    BY RecoveryConstants DEF Fresh, SessionRetry
  <2> HIDE DEF n
  <2>4. /\ Sound(SetMember(c, x, n))
        /\ DOMAIN SetMember(c, x, n).members = DOMAIN c.members
        /\ SetMember(c, x, n).sessions = c.sessions
    BY <2>1, SetMemberInPlace
  <2> QED  BY <1>2, <2>2, <2>3, <2>4, SetRetryInPlace
<1>5. CASE r.event = "lost" /\ ~Releases(m, r)
  <2>1. d = RequestProbe(Fail(c, x, now), now)
    BY <1>5, RecoveryConstants DEF ApplyEvent, Releases
  <2> QED  BY <2>1, FailSound, RequestProbeSound
<1>6. CASE r.event = None /\ ~Releases(m, r) /\ r.event # "ready" /\ r.event # "lost"
  <2> DEFINE n == [m EXCEPT !.proposed = r.attempt]
  <2>1. n \in Member /\ n.session = m.session /\ (IsPending(n) => IsPending(m))
    BY <1>1, RequestFields DEF Member, IsPending
  <2>2. d = c \/ d = SetMember(c, x, n)
    BY <1>6 DEF ApplyEvent
  <2> HIDE DEF n
  <2> QED  BY <2>1, <2>2, SetMemberInPlace
<1>7. Releases(m, r) => r.event = "lost"
  BY DEF Releases
<1> QED  BY <1>3, <1>4, <1>5, <1>6, <1>7, RequestFields

LEMMA CheckChildSound ==
    ASSUME NEW c, Sound(c), NEW r \in Requests, r.client \in DOMAIN c.members
    PROVE  /\ Sound(CheckChild(c, r))
           /\ DOMAIN CheckChild(c, r).members = DOMAIN c.members
<1> DEFINE m == c.members[r.client]
           n == [m EXCEPT !.reset = TRUE]
<1>1. n \in Member /\ n.session = m.session /\ (IsPending(n) => IsPending(m))
  <2>1. m \in Member
    BY DEF Sound, IsCoordinator, IsMap
  <2> QED  BY <2>1 DEF Member, IsPending
<1>2. CheckChild(c, r) = c \/ CheckChild(c, r) = SetMember(c, r.client, n)
  BY DEF CheckChild
<1> HIDE DEF n
<1> QED  BY <1>1, <1>2, SetMemberInPlace

LEMMA EnterSound ==
    ASSUME NEW c, Sound(c), NEW r \in Requests, NEW now \in Nat
    PROVE  Sound(Enter(c, r, now)) /\ r.client \in DOMAIN Enter(c, r, now).members
<1> DEFINE c1 == IF r.client \in DOMAIN c.members THEN c ELSE Register(c, r, now)
           c2 == IF r.retry THEN RequestProbe(c1, now) ELSE c1
<1>1. Sound(c1) /\ r.client \in DOMAIN c1.members
  BY RegisterSound
<1>2. Sound(c2) /\ r.client \in DOMAIN c2.members
  <2> HIDE DEF c1
  <2> QED  BY <1>1, RequestProbeSound
<1>3. Enter(c, r, now) = Expire(c2, now)
  BY DEF Enter
<1> HIDE DEF c2
<1> QED  BY <1>2, <1>3, ExpireSound

LEMMA ExchangeSound ==
    ASSUME NEW c, Sound(c), NEW r \in Requests, NEW now \in Nat
    PROVE  Sound(Exchange(c, r, now).state)
<1> DEFINE c1 == Enter(c, r, now)
           c2 == ApplyEvent(c1, r, now)
           c3 == CheckChild(c2, r)
           c4 == Admit(c3, now)
<1>1. Sound(c1) /\ r.client \in DOMAIN c1.members
  BY EnterSound
<1>2. Exchange(c, r, now).state = c1 \/ Exchange(c, r, now).state = c4
  BY DEF Exchange
<1> HIDE DEF c1
<1>3. Sound(c2) /\ r.client \in DOMAIN c2.members
  BY <1>1, ApplyEventSound
<1> HIDE DEF c2
<1>4. Sound(c3)
  BY <1>3, CheckChildSound
<1> HIDE DEF c3
<1>5. Sound(c4)
  BY <1>4, AdmitSound
<1> QED  BY <1>1, <1>2, <1>5

-----------------------------------------------------------------------------
(* The end of a probe, and of a member.                                    *)

LEMMA FinishProbeSound ==
    ASSUME NEW c, Sound(c), NEW now \in Nat, NEW inventory \in SUBSET Sessions
    PROVE  Sound(FinishProbe(c, now, inventory))
<1> DEFINE c1 == [c EXCEPT !.checking = FALSE, !.available = TRUE, !.failures = 0,
                           !.inventory = inventory, !.nextProbe = now + ProbePeriod,
                           !.members = [x \in DOMAIN c.members |->
                                          EndMember(c.members[x], inventory)]]
           missed == \E x \in DOMAIN c1.members :
                        ~c1.members[x].ended /\ c1.members[x].session \notin inventory
           c2 == IF missed THEN RequestProbe(c1, now) ELSE c1
<1>1. \A x \in DOMAIN c.members :
         LET m == c.members[x] IN
         /\ EndMember(m, inventory) \in Member
         /\ EndMember(m, inventory).session = m.session
         /\ IsPending(EndMember(m, inventory)) => IsPending(m)
  <2>1. \A x \in DOMAIN c.members : c.members[x] \in Member
    BY DEF Sound, IsCoordinator, IsMap
  <2> QED  BY <2>1 DEF EndMember, Member, IsPending
<1>2. IsCoordinator(c1)
  BY <1>1, RecoveryConstants DEF Sound, IsCoordinator, IsMap
<1>3. Eases(c1, c)
  <2>1. /\ DOMAIN c1.members = DOMAIN c.members
        /\ \A x \in DOMAIN c.members :
              c1.members[x] = EndMember(c.members[x], inventory)
        /\ c1.order = c.order /\ c1.sessions = c.sessions
    BY DEF Sound, IsCoordinator
  <2> HIDE DEF c1
  <2> QED  BY <1>1, <2>1 DEF Eases, Pending
<1>4. Sound(c1)
  BY <1>2, <1>3, EasesIsSound
<1>5. FinishProbe(c, now, inventory) = Admit(c2, now)
  BY DEF FinishProbe
<1> HIDE DEF c1, missed
<1>6. Sound(c2)
  BY <1>4, RequestProbeSound
<1> HIDE DEF c2
<1> QED  BY <1>5, <1>6, AdmitSound

\* The order without one of its members.
LEMMA WithoutOne ==
    ASSUME NEW o \in Seq(Clients), NEW x,
           \E k \in 1..Len(o) : o[k] = x,
           \A i, j \in 1..Len(o) : o[i] = o[j] => i = j
    PROVE  /\ Without(o, x) \in Seq(Clients)
           /\ \A i, j \in 1..Len(Without(o, x)) :
                 Without(o, x)[i] = Without(o, x)[j] => i = j
           /\ Elements(Without(o, x)) = Elements(o) \ {x}
<1> DEFINE n == Len(o)
           k == CHOOSE j \in 1..n : o[j] = x
           w == [j \in 1..(n - 1) |-> IF j < k THEN o[j] ELSE o[j + 1]]
           from == [j \in 1..(n - 1) |-> IF j < k THEN j ELSE j + 1]
<1>1. n \in Nat /\ k \in 1..n /\ o[k] = x
  OBVIOUS
<1>2. Without(o, x) = w
  BY DEF Without
<1> HIDE DEF k
<1>3. /\ n - 1 \in Nat
      /\ \A j \in 1..(n - 1) : from[j] \in 1..n /\ from[j] # k /\ w[j] = o[from[j]]
      /\ \A i, j \in 1..(n - 1) : from[i] = from[j] => i = j
  BY <1>1
<1>4. ASSUME NEW i \in 1..n, i # k PROVE \E j \in 1..(n - 1) : from[j] = i
  <2>1. CASE i < k
    <3>1. i \in 1..(n - 1) /\ from[i] = i
      BY <1>1, <2>1
    <3> QED  BY <3>1
  <2>2. CASE i > k
    <3>1. i - 1 \in 1..(n - 1) /\ from[i - 1] = i
      BY <1>1, <2>2
    <3> QED  BY <3>1
  <2> QED  BY <1>1, <1>4, <2>1, <2>2
<1>5. w \in Seq(Clients) /\ Len(w) = n - 1
  <2>1. \A j \in 1..n : o[j] \in Clients
    OBVIOUS
  <2>2. w \in [1..(n - 1) -> Clients]
    BY <1>1, <1>3, <2>1
  <2> QED  BY <1>3, <2>2
<1> HIDE DEF w, from
<1>6. \A i, j \in 1..(n - 1) : w[i] = w[j] => i = j
  BY <1>3
<1> DEFINE A == {w[i] : i \in 1..(n - 1)}
           B == {o[i] : i \in 1..n}
<1>7. A \subseteq B \ {x}
  <2> SUFFICES ASSUME NEW j \in 1..(n - 1) PROVE w[j] \in B /\ w[j] # x
    OBVIOUS
  <2>1. w[j] = o[from[j]] /\ from[j] \in 1..n /\ from[j] # k
    BY <1>3
  <2>2. w[j] # x
    BY <1>1, <2>1
  <2> QED  BY <2>1, <2>2
<1>8. B \ {x} \subseteq A
  <2> SUFFICES ASSUME NEW e \in B \ {x} PROVE e \in A
    OBVIOUS
  <2>1. PICK i \in 1..n : e = o[i]
    OBVIOUS
  <2>2. i # k
    BY <1>1, <2>1
  <2>3. PICK j \in 1..(n - 1) : from[j] = i
    BY <1>4, <2>2
  <2> QED  BY <1>3, <2>1, <2>3
<1> HIDE DEF A, B
<1>9. A = B \ {x}
  BY <1>7, <1>8
<1>10. Elements(w) = Elements(o) \ {x}
  BY <1>5, <1>9 DEF A, B, Elements
<1> QED  BY <1>2, <1>5, <1>6, <1>10

LEMMA RemoveSound ==
    ASSUME NEW c, Sound(c), NEW x \in DOMAIN c.members
    PROVE  Sound(Remove(c, x))
<1> DEFINE m      == c.members[x]
           others == DOMAIN c.members \ {x}
           kept   == IF \E y \in others : c.members[y].session = m.session
                     THEN DOMAIN c.sessions ELSE DOMAIN c.sessions \ {m.session}
           d      == Remove(c, x)
<1>1. /\ d.members = [y \in others |-> c.members[y]]
      /\ d.order = Without(c.order, x)
      /\ d.sessions = [y \in kept |-> c.sessions[y]]
  BY DEF Sound, IsCoordinator, Remove
<1>2. /\ Without(c.order, x) \in Seq(Clients)
      /\ \A i, j \in 1..Len(d.order) : d.order[i] = d.order[j] => i = j
      /\ Elements(d.order) = others
  <2>1. \E k \in 1..Len(c.order) : c.order[k] = x
    BY DEF Sound, Consistent, Elements
  <2>2. \A i, j \in 1..Len(c.order) : c.order[i] = c.order[j] => i = j
    BY DEF Sound, Consistent
  <2>3. Elements(c.order) = DOMAIN c.members
    BY DEF Sound, Consistent
  <2>4. c.order \in Seq(Clients)
    BY DEF Sound, IsCoordinator
  <2>5. /\ Without(c.order, x) \in Seq(Clients)
        /\ \A i, j \in 1..Len(Without(c.order, x)) :
              Without(c.order, x)[i] = Without(c.order, x)[j] => i = j
        /\ Elements(Without(c.order, x)) = Elements(c.order) \ {x}
    BY <2>1, <2>2, <2>4, WithoutOne
  <2> QED  BY <1>1, <2>3, <2>5
<1>3. IsCoordinator(d)
  <2>1. DOMAIN d = DOMAIN c
    BY DEF Remove
  <2>2. /\ d.available = c.available /\ d.checking = c.checking /\ d.wanted = c.wanted
        /\ d.nextProbe = c.nextProbe /\ d.lastProbe = c.lastProbe
        /\ d.failures = c.failures /\ d.inventory = c.inventory
    BY DEF Sound, IsCoordinator, Remove
  <2>3. IsMap(d.members, Clients, Member) /\ IsMap(d.sessions, Sessions, SessionRetry)
    BY <1>1 DEF Sound, IsCoordinator, IsMap
  <2> QED  BY <1>1, <1>2, <2>1, <2>2, <2>3 DEF Sound, IsCoordinator
<1>4. WithinCapacity(d)
  BY <1>1 DEF Sound, WithinCapacity, Pending
<1>5. DOMAIN d.sessions = {d.members[y].session : y \in DOMAIN d.members}
  <2>1. DOMAIN c.sessions = {c.members[y].session : y \in DOMAIN c.members}
    BY DEF Sound, Consistent
  <2>2. {c.members[y].session : y \in DOMAIN c.members}
          = {c.members[y].session : y \in others} \cup {m.session}
    OBVIOUS
  <2>3. kept = {c.members[y].session : y \in others}
    BY <2>1, <2>2
  <2>4. {d.members[y].session : y \in DOMAIN d.members}
          = {c.members[y].session : y \in others}
    BY <1>1
  <2> QED  BY <1>1, <2>3, <2>4
<1>6. Consistent(d)
  BY <1>1, <1>2, <1>5 DEF Consistent
<1> QED  BY <1>3, <1>4, <1>6 DEF Sound

\* A finite set of places can be counted in its order.
Increases(at) == \A i, j \in DOMAIN at : i < j => at[i] < at[j]

Counted(I) == IsFiniteSet(I) /\ \E at \in [1..Cardinality(I) -> I] : Increases(at)

LEMMA CountedFrom ==
    ASSUME NEW n \in Nat, NEW K \in SUBSET (1..(n - 1)), n # 0, Counted(K)
    PROVE  Counted(K \cup {n})
<1> DEFINE k == Cardinality(K)
           I == K \cup {n}
<1>1. k \in Nat /\ IsFiniteSet(I) /\ Cardinality(I) = k + 1
  BY FS_CardinalityType, FS_AddElement DEF Counted
<1>2. PICK at \in [1..k -> K] : Increases(at)
  BY DEF Counted
<1> HIDE DEF k
<1> DEFINE b == [i \in 1..(k + 1) |-> IF i <= k THEN at[i] ELSE n]
<1>3. \A i \in 1..k : at[i] \in 1..(n - 1)
  OBVIOUS
<1>4. b \in [1..(k + 1) -> I]
  BY <1>1
<1>5. ASSUME NEW i \in 1..(k + 1), NEW j \in 1..(k + 1), i < j PROVE b[i] < b[j]
  <2>1. i \in 1..k /\ b[i] = at[i]
    BY <1>1, <1>5
  <2>2. CASE j <= k
    BY <1>2, <1>5, <2>1, <2>2 DEF Increases
  <2>3. CASE j > k
    <3>1. b[j] = n
      BY <1>1, <2>3
    <3> QED  BY <1>3, <2>1, <3>1
  <2> QED  BY <1>1, <2>2, <2>3
<1>6. Increases(b)
  BY <1>4, <1>5 DEF Increases
<1> QED  BY <1>1, <1>4, <1>6 DEF Counted

LEMMA PlacesCounted == ASSUME NEW n \in Nat, NEW I \in SUBSET (1..n) PROVE Counted(I)
<1> DEFINE B == {m \in Nat : \E J \in SUBSET (1..m) : ~Counted(J)}
<1>1. ASSUME NEW m \in B PROVE FALSE
  <2>1. B \subseteq Nat
    OBVIOUS
  <2>2. PICK b \in B : \A j \in B : b <= j
    <3> HIDE DEF B
    <3> QED  BY <1>1, <2>1, FiniteMinimum DEF IsFirst
  <2>3. PICK J \in SUBSET (1..b) : ~Counted(J)
    OBVIOUS
  <2>4. J # {}
    <3> DEFINE f == [i \in 1..0 |-> 0]
    <3>1. f \in [1..0 -> {}] /\ Increases(f)
      BY DEF Increases
    <3>2. IsFiniteSet({}) /\ Cardinality({}) = 0
      BY FS_EmptySet
    <3> HIDE DEF f
    <3>3. f \in [1..Cardinality({}) -> {}]
      BY <3>1, <3>2
    <3>4. Counted({})
      BY <3>1, <3>2, <3>3 DEF Counted
    <3> QED  BY <2>3, <3>4
  <2>5. b \in Nat /\ b # 0
    <3>1. b \in Nat
      OBVIOUS
    <3>2. b = 0 => 1..b = {}
      BY SMT
    <3> QED  BY <2>4, <3>1, <3>2
  <2>6. b - 1 \in Nat /\ b - 1 \notin B
    <3>1. b - 1 \in Nat /\ ~(b <= b - 1)
      BY <2>5
    <3> HIDE DEF B
    <3> QED  BY <2>2, <3>1
  <2>7. \A K \in SUBSET (1..(b - 1)) : Counted(K)
    BY <2>6
  <2>8. CASE b \notin J
    <3>1. J \in SUBSET (1..(b - 1))
      BY <2>5, <2>8
    <3> QED  BY <2>3, <2>7, <3>1
  <2>9. CASE b \in J
    <3>1. J \ {b} \in SUBSET (1..(b - 1)) /\ J = (J \ {b}) \cup {b}
      BY <2>5, <2>9
    <3>2. Counted(J)
      BY <2>5, <2>7, <3>1, CountedFrom
    <3> QED  BY <2>3, <3>2
  <2> QED  BY <2>8, <2>9
<1> QED  BY <1>1

LEMMA InOrderIs ==
    ASSUME NEW n \in Nat, NEW I \in SUBSET (1..n)
    PROVE  LET k  == Cardinality(I)
               at == InOrder(I)
           IN /\ k \in Nat /\ at \in [1..k -> I]
              /\ \A i, j \in 1..k : at[i] = at[j] => i = j
              /\ \A e \in I : \E i \in 1..k : at[i] = e
<1> DEFINE k  == Cardinality(I)
           at == InOrder(I)
<1>1. IsFiniteSet(I) /\ \E f \in [1..k -> I] : Increases(f)
  BY PlacesCounted DEF Counted
<1>2. k \in Nat
  BY <1>1, FS_CardinalityType
<1>3. at \in [1..k -> I] /\ Increases(at)
  BY <1>1 DEF InOrder, Increases
<1> HIDE DEF at
<1>4. \A i, j \in 1..k : at[i] = at[j] => i = j
  <2> SUFFICES ASSUME NEW i \in 1..k, NEW j \in 1..k, at[i] = at[j], i # j PROVE FALSE
    OBVIOUS
  <2>1. at[i] \in 1..n /\ at[j] \in 1..n
    BY <1>3
  <2>2. i < j => at[i] < at[j]
    BY <1>3 DEF Increases
  <2>3. j < i => at[j] < at[i]
    BY <1>3 DEF Increases
  <2> HIDE DEF k
  <2> QED  BY <1>2, <2>1, <2>2, <2>3
<1>5. \A e \in I : \E i \in 1..k : at[i] = e
  <2>1. at \in Injection(1..k, I)
    BY <1>3, <1>4 DEF Injection, IsInjective
  <2>2. Cardinality(1..k) = k
    BY <1>2, FS_Interval
  <2>3. at \in Surjection(1..k, I)
    BY <1>1, <2>1, <2>2, FS_Injection
  <2> QED  BY <2>3 DEF Surjection
<1> QED  BY <1>2, <1>3, <1>4, <1>5 DEF at

\* The order of what is left when some leave.
LEMMA OrderOfKept ==
    ASSUME NEW o \in Seq(Clients), NEW kept \in SUBSET Elements(o),
           \A i, j \in 1..Len(o) : o[i] = o[j] => i = j
    PROVE  LET at == InOrder({i \in 1..Len(o) : o[i] \in kept})
               w  == [i \in DOMAIN at |-> o[at[i]]]
           IN /\ w \in Seq(Clients)
              /\ \A i, j \in 1..Len(w) : w[i] = w[j] => i = j
              /\ Elements(w) = kept
<1> DEFINE n  == Len(o)
           I  == {i \in 1..n : o[i] \in kept}
           k  == Cardinality(I)
           at == InOrder(I)
           w  == [i \in DOMAIN at |-> o[at[i]]]
<1>1. n \in Nat /\ I \in SUBSET (1..n)
  OBVIOUS
<1>2. /\ k \in Nat /\ at \in [1..k -> I]
      /\ \A i, j \in 1..k : at[i] = at[j] => i = j
      /\ \A e \in I : \E i \in 1..k : at[i] = e
  <2> HIDE DEF n, I
  <2> QED  BY <1>1, InOrderIs
<1> HIDE DEF at, k
<1>3. w = [i \in 1..k |-> o[at[i]]]
  BY <1>2
<1>4. \A i \in 1..k : at[i] \in 1..n /\ o[at[i]] \in kept
  BY <1>2
<1> HIDE DEF w, I
<1>5. w \in Seq(Clients) /\ Len(w) = k
  <2>1. w \in [1..k -> Clients]
    BY <1>3, <1>4
  <2> QED  BY <1>2, <1>3, <2>1
<1>6. \A i, j \in 1..k : w[i] = w[j] => i = j
  BY <1>2, <1>3, <1>4
<1>7. {w[i] : i \in 1..k} = kept
  <2>1. ASSUME NEW x \in kept PROVE \E i \in 1..k : w[i] = x
    <3>1. PICK e \in 1..n : o[e] = x
      BY DEF Elements
    <3>2. e \in I
      BY <2>1, <3>1 DEF I
    <3> QED  BY <1>2, <1>3, <3>1, <3>2
  <2> QED  BY <1>3, <1>4, <2>1
<1> QED  BY <1>5, <1>6, <1>7 DEF Elements, w, at, I

LEMMA RemoveAllSound ==
    ASSUME NEW c, Sound(c), NEW gone
    PROVE  /\ Sound(RemoveAll(c, gone))
           /\ RemoveAll(c, gone).members = [y \in DOMAIN c.members \ gone |-> c.members[y]]
<1> DEFINE kept == DOMAIN c.members \ gone
           at   == InOrder({i \in 1..Len(c.order) : c.order[i] \in kept})
           w    == [i \in DOMAIN at |-> c.order[at[i]]]
           X    == {c.members[x].session : x \in kept}
           d    == RemoveAll(c, gone)
<1>1. /\ d.members = [y \in kept |-> c.members[y]]
      /\ d.order = w
      /\ d.sessions = [y \in X |-> c.sessions[y]]
      /\ DOMAIN d = DOMAIN c
      /\ d.available = c.available /\ d.checking = c.checking /\ d.wanted = c.wanted
      /\ d.nextProbe = c.nextProbe /\ d.lastProbe = c.lastProbe
      /\ d.failures = c.failures /\ d.inventory = c.inventory
  BY DEF Sound, IsCoordinator, RemoveAll
<1>2. /\ w \in Seq(Clients)
      /\ \A i, j \in 1..Len(w) : w[i] = w[j] => i = j
      /\ Elements(w) = kept
  <2>1. c.order \in Seq(Clients) /\ Elements(c.order) = DOMAIN c.members
    BY DEF Sound, IsCoordinator, Consistent
  <2>2. \A i, j \in 1..Len(c.order) : c.order[i] = c.order[j] => i = j
    BY DEF Sound, Consistent
  <2>3. kept \in SUBSET Elements(c.order)
    BY <2>1
  <2> HIDE DEF kept
  <2> QED  BY <2>1, <2>2, <2>3, OrderOfKept
<1> HIDE DEF w, d
<1>3. X \subseteq DOMAIN c.sessions
  BY DEF Sound, Consistent
<1>4. IsCoordinator(d)
  <2>1. IsMap(d.members, Clients, Member) /\ IsMap(d.sessions, Sessions, SessionRetry)
    BY <1>1, <1>3 DEF Sound, IsCoordinator, IsMap
  <2> QED  BY <1>1, <1>2, <2>1 DEF Sound, IsCoordinator
<1>5. WithinCapacity(d)
  BY <1>1 DEF Sound, WithinCapacity, Pending
<1>6. Consistent(d)
  <2>1. X = {d.members[x].session : x \in DOMAIN d.members}
    BY <1>1
  <2> QED  BY <1>1, <1>2, <2>1 DEF Consistent
<1> QED  BY <1>1, <1>4, <1>5, <1>6 DEF Sound, d

-----------------------------------------------------------------------------
(* The theorems.  Types, bookkeeping and capacity hold of each other's     *)
(* premises (a grant dereferences the order, the order lists the members,  *)
(* the capacity counts them), so one invariant carries the three.          *)

RecoveryInv == TypeOK /\ Bookkeeping /\ PendingBound

LEMMA InitInv == Init => RecoveryInv
<1> SUFFICES ASSUME Init PROVE RecoveryInv
  OBVIOUS
<1> DEFINE c == NewSessionRecovery
<1>1. IsCoordinator(c)
  <2>1. <<>> \in Seq(Clients) /\ 0 \in 0..FailureCap
    BY RecoveryConstants
  <2>2. IsMap(c.members, Clients, Member) /\ IsMap(c.sessions, Sessions, SessionRetry)
    BY DEF NewSessionRecovery, IsMap
  <2> QED  BY <2>1, <2>2 DEF NewSessionRecovery, IsCoordinator
<1>2. Consistent(c) /\ WithinCapacity(c)
  BY DEF NewSessionRecovery, Consistent, Elements, WithinCapacity, Pending
<1>3. s = c /\ host \in [Sessions -> Status] /\ probes \in SUBSET [Sessions -> Status]
  BY DEF Init, Status
<1> QED  BY <1>1, <1>2, <1>3 DEF RecoveryInv, TypeOK, Bookkeeping, PendingBound

LEMMA TimesAreNat == Times \subseteq Nat
BY RecoveryConstants

LEMMA StepInv == RecoveryInv /\ [Next]_vars => RecoveryInv'
<1> SUFFICES ASSUME RecoveryInv, [Next]_vars PROVE RecoveryInv'
  OBVIOUS
<1> USE TimesAreNat
<1>1. /\ Sound(s)
      /\ host \in [Sessions -> Status] /\ probes \in SUBSET [Sessions -> Status]
  BY DEF RecoveryInv, TypeOK, Bookkeeping, PendingBound, Sound
<1>2. SUFFICES /\ Sound(s')
               /\ host' \in [Sessions -> Status] /\ probes' \in SUBSET [Sessions -> Status]
  BY DEF RecoveryInv, TypeOK, Bookkeeping, PendingBound, Sound
<1>3. CASE UNCHANGED vars
  BY <1>1, <1>3 DEF vars
<1>4. ASSUME NEW r \in Requests, NEW now \in Times, HandleRequest(r, now)
      PROVE  Sound(s') /\ UNCHANGED <<host, probes>>
  BY <1>1, <1>4, ExchangeSound DEF HandleRequest
<1>5. ASSUME NEW x \in Clients, RemoveClient(x)
      PROVE  Sound(s') /\ UNCHANGED <<host, probes>>
  BY <1>1, <1>5, RemoveSound DEF RemoveClient
<1>6. ASSUME NEW now \in Times, Tick(now)
      PROVE  Sound(s') /\ host' = host /\ probes' \subseteq probes \cup {host}
  <2> DEFINE c == Admit(s, now)
  <2>1. Sound(c)
    BY <1>1, AdmitSound
  <2>2. s' = IF CanProbe(c, now) THEN BeginProbe(c, now) ELSE c
    BY <1>6 DEF Tick
  <2>3. host' = host /\ probes' \subseteq probes \cup {host}
    BY <1>6 DEF Tick
  <2> HIDE DEF c
  <2> QED  BY <2>1, <2>2, <2>3, BeginProbeSound
<1>7. ASSUME NEW began \in probes, NEW now \in Times, ProbeSucceeds(began, now)
      PROVE  Sound(s') /\ host' = host /\ probes' \subseteq probes
  <2>1. PICK inventory \in Listings(began, host) : s' = FinishProbe(s, now, inventory)
    BY <1>7 DEF ProbeSucceeds
  <2>2. inventory \in SUBSET Sessions
    BY DEF Listings
  <2>3. host' = host /\ probes' \subseteq probes
    BY <1>7 DEF ProbeSucceeds
  <2> QED  BY <1>1, <2>1, <2>2, <2>3, FinishProbeSound
<1>8. ASSUME NEW began \in probes, NEW now \in Times, ProbeFails(began, now)
      PROVE  Sound(s') /\ host' = host /\ probes' \subseteq probes
  BY <1>1, <1>8, FailProbeSound DEF ProbeFails
<1>9. ASSUME NEW x \in Mortal, HostStep(x)
      PROVE  s' = s /\ host' \in [Sessions -> Status] /\ probes' = probes
  BY <1>1, <1>9 DEF HostStep
<1> QED  BY <1>1, <1>3, <1>4, <1>5, <1>6, <1>7, <1>8, <1>9 DEF Next

LEMMA InvAlways == Spec => []RecoveryInv
<1>1. Init => RecoveryInv
  BY InitInv
<1>2. RecoveryInv /\ [Next]_vars => RecoveryInv'
  BY StepInv
<1> QED  BY <1>1, <1>2, PTL DEF Spec

\* The coordinator's state keeps its types, whatever requests arrive.
THEOREM TypeCorrect == Spec => []TypeOK
<1>1. RecoveryInv => TypeOK
  BY DEF RecoveryInv
<1> QED  BY <1>1, InvAlways, PTL

\* Every member is in the rotation exactly once and its session's backoff
\* exists, for any number of clients: the code's maps are never dereferenced
\* at a missing key.
THEOREM BookkeepingHolds == Spec => []Bookkeeping
<1>1. RecoveryInv => Bookkeeping
  BY DEF RecoveryInv
<1> QED  BY <1>1, InvAlways, PTL

\* At most two attachments wait for readiness, at most one of a session, for
\* any number of clients and any order of requests, losses and clocks.
THEOREM CapacityHolds == Spec => []PendingBound
<1>1. RecoveryInv => PendingBound
  BY DEF RecoveryInv
<1> QED  BY <1>1, InvAlways, PTL

-----------------------------------------------------------------------------
(* What the coordinator concludes from a probe: a listing is read while    *)
(* sessions come and go and arrives after members came and left.  Only     *)
(* FinishProbe, FailProbe, BeginProbe and Register decide anything about   *)
(* it; every other method is shown to leave it alone.                      *)


-----------------------------------------------------------------------------
(* The methods that decide nothing about the host.                         *)

SameFate(n, m) ==
    n.session = m.session /\ n.ended = m.ended /\ n.observed = m.observed

\* d knows of the host what c does, and wants a probe if c does.
Quiet(d, c) ==
    /\ d.available = c.available /\ d.checking = c.checking /\ d.inventory = c.inventory
    /\ c.wanted => d.wanted
    /\ DOMAIN d.members = DOMAIN c.members
    /\ \A x \in DOMAIN c.members : SameFate(d.members[x], c.members[x])

LEMMA QuietComposes ==
    ASSUME NEW b, NEW c, NEW d, Quiet(c, b), Quiet(d, c)
    PROVE  Quiet(d, b)
BY DEF Quiet, SameFate

LEMMA QuietReflexive == ASSUME NEW c PROVE Quiet(c, c)
BY DEF Quiet, SameFate

LEMMA SetMemberQuiet ==
    ASSUME NEW c, Sound(c), NEW x \in DOMAIN c.members, NEW m, SameFate(m, c.members[x])
    PROVE  Quiet(SetMember(c, x, m), c)
<1> DEFINE f == [y \in DOMAIN c.members |-> IF y = x THEN m ELSE c.members[y]]
<1>1. DOMAIN c.members \cup {x} = DOMAIN c.members
  OBVIOUS
<1>2. SetMember(c, x, m) = [c EXCEPT !.members = f]
  BY <1>1 DEF SetMember
<1>3. \A y \in DOMAIN c.members : SameFate(f[y], c.members[y])
  BY DEF SameFate
<1>4. DOMAIN f = DOMAIN c.members
  OBVIOUS
<1> HIDE DEF f
<1> QED  BY <1>2, <1>3, <1>4 DEF Quiet, Sound, IsCoordinator

LEMMA SetRetryQuiet ==
    ASSUME NEW c, Sound(c), NEW x, NEW retry
    PROVE  Quiet(SetRetry(c, x, retry), c)
BY DEF Quiet, SameFate, SetRetry, Sound, IsCoordinator

LEMMA RequestProbeQuiet ==
    ASSUME NEW c, Sound(c), NEW now
    PROVE  /\ Quiet(RequestProbe(c, now), c)
           /\ RequestProbe(c, now).checking \/ RequestProbe(c, now).wanted
<1>1. CASE c.checking
  BY <1>1, QuietReflexive DEF RequestProbe
<1>2. CASE ~c.checking
  BY <1>2 DEF RequestProbe, Quiet, SameFate, Sound, IsCoordinator
<1> QED  BY <1>1, <1>2

LEMMA ExpireQuiet ==
    ASSUME NEW c, Sound(c), NEW now
    PROVE  Quiet(Expire(c, now), c)
<1> DEFINE f == [x \in DOMAIN c.members |->
                    LET m == c.members[x] IN
                    IF IsPending(m) /\ now >= m.deadline
                    THEN [m EXCEPT !.reset = TRUE] ELSE m]
<1>1. \A x \in DOMAIN c.members : c.members[x] \in Member
  BY DEF Sound, IsCoordinator, IsMap
<1>2. \A x \in DOMAIN c.members : SameFate(f[x], c.members[x])
  BY <1>1 DEF Member, SameFate
<1>3. Expire(c, now) = [c EXCEPT !.members = f] /\ DOMAIN f = DOMAIN c.members
  BY DEF Expire
<1> HIDE DEF f
<1> QED  BY <1>2, <1>3 DEF Quiet, Sound, IsCoordinator

LEMMA GrantQuiet ==
    ASSUME NEW c, Sound(c), NEW now \in Nat
    PROVE  Quiet(Grant(c, now, NextAdmitted(c, now)), c)
<1> DEFINE i == NextAdmitted(c, now)
           x == c.order[i]
           n == c.members[x]
           m == [n EXCEPT !.active = n.proposed, !.deadline = now + Lease]
<1>1. CASE i = 0
  BY <1>1, QuietReflexive DEF Grant
<1>2. CASE i # 0
  <2>1. i \in 1..Len(c.order)
    BY <1>2, NextAdmittedIsCandidate
  <2>2. x \in DOMAIN c.members /\ n \in Member
    BY <2>1, OrderedAreMembers
  <2>3. SameFate(m, n)
    BY <2>2 DEF Member, SameFate
  <2>4. Grant(c, now, i) = SetMember(c, x, m)
    BY <1>2 DEF Grant
  <2> HIDE DEF i, m
  <2> QED  BY <2>2, <2>3, <2>4, SetMemberQuiet DEF i
<1> QED  BY <1>1, <1>2

LEMMA RotateOrderQuiet ==
    ASSUME NEW c, Sound(c), NEW i
    PROVE  Quiet(RotateOrder(c, i), c)
BY DEF RotateOrder, Quiet, SameFate, Sound, IsCoordinator

LEMMA AdmitQuiet ==
    ASSUME NEW c, Sound(c), NEW now \in Nat
    PROVE  Quiet(Admit(c, now), c)
<1> DEFINE c0 == Expire(c, now)
           i  == NextAdmitted(c0, now)
           c1 == Grant(c0, now, i)
           j  == NextAdmitted(c1, now)
           c2 == Grant(c1, now, j)
           k  == IF j = 0 THEN i ELSE j
<1>1. Sound(c0) /\ Quiet(c0, c)
  BY ExpireSound, ExpireQuiet
<1>2. Sound(c1) /\ Quiet(c1, c0)
  BY <1>1, GrantSound, GrantQuiet
<1>3. Sound(c2) /\ Quiet(c2, c1)
  BY <1>2, GrantSound, GrantQuiet
<1>4. Admit(c, now) = IF ~c.available THEN c0 ELSE RotateOrder(c2, k)
  BY DEF Admit
<1> HIDE DEF c0, c1, c2, i, j, k
<1>5. Quiet(RotateOrder(c2, k), c2)
  BY <1>3, RotateOrderQuiet
<1>6. Quiet(c1, c)
  BY <1>1, <1>2, QuietComposes
<1>7. Quiet(c2, c)
  BY <1>3, <1>6, QuietComposes
<1>8. Quiet(RotateOrder(c2, k), c)
  BY <1>5, <1>7, QuietComposes
<1> QED  BY <1>1, <1>4, <1>8

-----------------------------------------------------------------------------
(* The exchange with a helper.                                             *)

LEMMA FailQuiet ==
    ASSUME NEW c, Sound(c), NEW x \in DOMAIN c.members, NEW now \in Nat
    PROVE  Quiet(Fail(c, x, now), c)
<1> DEFINE m == c.members[x]
           retry == c.sessions[m.session]
           n == [m EXCEPT !.retired = m.active, !.active = None,
                          !.ready = FALSE, !.reset = FALSE]
           c1 == SetMember(c, x, n)
           later == [failures |-> Saturate(retry.failures),
                     at |-> now + RecoveryDelay(retry.failures)]
<1>1. m \in Member
  BY DEF Sound, IsCoordinator, IsMap
<1>2. SameFate(n, m) /\ n.session = m.session /\ n \in Member /\ ~IsPending(n)
  BY <1>1 DEF Member, SameFate, IsPending
<1>3. Fail(c, x, now) = SetRetry(c1, m.session, later)
  BY DEF Fail
<1> HIDE DEF n, later
<1>4. Quiet(c1, c) /\ Sound(c1)
  BY <1>2, SetMemberQuiet, SetMemberInPlace
<1> HIDE DEF c1
<1>5. Quiet(SetRetry(c1, m.session, later), c1)
  BY <1>4, SetRetryQuiet
<1> QED  BY <1>3, <1>4, <1>5, QuietComposes

LEMMA ApplyEventQuiet ==
    ASSUME NEW c, Sound(c), NEW r \in Requests, NEW now \in Nat,
           r.client \in DOMAIN c.members
    PROVE  Quiet(ApplyEvent(c, r, now), c)
<1> DEFINE x == r.client
           m == c.members[x]
           d == ApplyEvent(c, r, now)
<1>1. m \in Member
  BY DEF Sound, IsCoordinator, IsMap
<1>2. CASE Releases(m, r)
  <2> DEFINE n == [m EXCEPT !.reset = m.reset /\ m.active # None]
  <2>1. SameFate(n, m)
    BY <1>1 DEF Member, SameFate
  <2>2. d = SetMember(c, x, n)
    BY <1>2, RecoveryConstants DEF ApplyEvent, Releases
  <2> HIDE DEF n
  <2> QED  BY <2>1, <2>2, SetMemberQuiet
<1>3. CASE r.event = "ready"
  <2> DEFINE n == [m EXCEPT !.ready = TRUE]
             e == SetMember(c, x, n)
  <2>1. /\ SameFate(n, m) /\ n.session = m.session
        /\ n \in Member /\ ~IsPending(n)
    BY <1>1 DEF Member, SameFate, IsPending
  <2>2. d = SetRetry(e, m.session, Fresh)
    BY <1>3, RecoveryConstants DEF ApplyEvent, Releases
  <2> HIDE DEF n
  <2>3. Quiet(e, c) /\ Sound(e)
    BY <2>1, SetMemberQuiet, SetMemberInPlace
  <2> HIDE DEF e
  <2>4. Quiet(SetRetry(e, m.session, Fresh), e)
    BY <2>3, SetRetryQuiet
  <2> QED  BY <2>2, <2>3, <2>4, QuietComposes
<1>4. CASE r.event = "lost" /\ ~Releases(m, r)
  <2> DEFINE e == Fail(c, x, now)
  <2>1. d = RequestProbe(e, now)
    BY <1>4, RecoveryConstants DEF ApplyEvent, Releases
  <2>2. Quiet(e, c) /\ Sound(e)
    BY FailQuiet, FailSound
  <2> HIDE DEF e
  <2>3. Quiet(RequestProbe(e, now), e)
    BY <2>2, RequestProbeQuiet
  <2> QED  BY <2>1, <2>2, <2>3, QuietComposes
<1>5. CASE r.event = None /\ ~Releases(m, r) /\ r.event # "ready" /\ r.event # "lost"
  <2> DEFINE n == [m EXCEPT !.proposed = r.attempt]
  <2>1. SameFate(n, m)
    BY <1>1 DEF Member, SameFate
  <2>2. d = c \/ d = SetMember(c, x, n)
    BY <1>5 DEF ApplyEvent
  <2> HIDE DEF n
  <2> QED  BY <2>1, <2>2, SetMemberQuiet, QuietReflexive
<1>6. Releases(m, r) => r.event = "lost"
  BY DEF Releases
<1> QED  BY <1>2, <1>3, <1>4, <1>5, <1>6, RequestFields

LEMMA CheckChildQuiet ==
    ASSUME NEW c, Sound(c), NEW r \in Requests, r.client \in DOMAIN c.members
    PROVE  Quiet(CheckChild(c, r), c)
<1> DEFINE m == c.members[r.client]
           n == [m EXCEPT !.reset = TRUE]
<1>1. SameFate(n, m)
  <2>1. m \in Member
    BY DEF Sound, IsCoordinator, IsMap
  <2> QED  BY <2>1 DEF Member, SameFate
<1>2. CheckChild(c, r) = c \/ CheckChild(c, r) = SetMember(c, r.client, n)
  BY DEF CheckChild
<1> HIDE DEF n
<1> QED  BY <1>1, <1>2, SetMemberQuiet, QuietReflexive

-----------------------------------------------------------------------------
(* What the coordinator knows of the host.                                 *)

\* One probe at a time, and checking tells whether there is one.
Single(c, P) == FewerThanTwo(P) /\ (c.checking <=> P # {})

\* What holds of every member: its session was created, it ended only with
\* its session, and no probe in flight observes it that began before its
\* session was created.
Fated(c, h, P) ==
    \A x \in DOMAIN c.members :
        LET m == c.members[x] IN
        /\ h[m.session] # "unborn"
        /\ m.ended => h[m.session] = "gone"
        /\ m.observed => \A began \in P : began[m.session] # "unborn"

\* A probe began with a host the present one has grown out of.
Grown(h, P) ==
    \A began \in P, x \in Sessions :
        /\ began[x] # "unborn" => h[x] # "unborn"
        /\ began[x] = "gone" => h[x] = "gone"

Unknown(c) == {x \in DOMAIN c.members : ~c.members[x].ended
                                        /\ c.members[x].session \notin c.inventory}

\* An unknown member is being looked for.
Sought(c) == c.available /\ Unknown(c) # {} => c.checking \/ c.wanted

Informed(c, h, P) == Single(c, P) /\ Fated(c, h, P) /\ Grown(h, P) /\ Sought(c)

LEMMA QuietInformed ==
    ASSUME NEW c, NEW d, NEW h, NEW P, Informed(c, h, P), Quiet(d, c)
    PROVE  Informed(d, h, P)
<1>1. Single(d, P)
  BY DEF Informed, Single, Quiet
<1>2. Fated(d, h, P)
  BY DEF Informed, Fated, Quiet, SameFate
<1>3. Sought(d)
  <2>1. Unknown(d) = Unknown(c)
    BY DEF Unknown, Quiet, SameFate
  <2> QED  BY <2>1 DEF Informed, Sought, Quiet
<1> QED  BY <1>1, <1>2, <1>3 DEF Informed

\* A member that registers may be one the inventory does not know; it has
\* another probe requested, unless the one in flight will.
LEMMA RegisterInformed ==
    ASSUME NEW c, Sound(c), NEW r \in Requests, NEW now \in Nat, NEW h, NEW P,
           r.client \notin DOMAIN c.members, h[r.session] # "unborn", Informed(c, h, P)
    PROVE  Informed(Register(c, r, now), h, P)
<1> DEFINE x == r.client
           m == NewMember(r)
           c1 == SetMember(c, x, m)
           c2 == IF r.session \in DOMAIN c.sessions THEN c1
                 ELSE SetRetry(c1, r.session, Fresh)
           d == [c2 EXCEPT !.order = Append(c2.order, x)]
           e == RequestProbe(d, now)
<1>1. m.session = r.session /\ m.ended = FALSE /\ m.observed = FALSE
  BY DEF NewMember, MemberOf
<1>2. Register(c, r, now) = e
  BY DEF Register
<1> HIDE DEF m
<1>3. /\ d.members = [y \in DOMAIN c.members \cup {x} |-> IF y = x THEN m ELSE c.members[y]]
      /\ d.checking = c.checking
  BY DEF Sound, IsCoordinator, SetMember, SetRetry
<1> HIDE DEF d
<1>4. /\ e.checking = d.checking /\ e.members = d.members
      /\ e.checking \/ e.wanted
  BY DEF RequestProbe
<1> HIDE DEF e
<1>5. Single(e, P)
  BY <1>3, <1>4 DEF Informed, Single
<1>6. Fated(e, h, P)
  BY <1>1, <1>3, <1>4 DEF Informed, Fated
<1>7. Sought(e)
  BY <1>4 DEF Sought
<1> QED  BY <1>2, <1>5, <1>6, <1>7 DEF Informed

LEMMA EnterInformed ==
    ASSUME NEW c, Sound(c), NEW r \in Requests, NEW now \in Nat, NEW h, NEW P,
           h[r.session] # "unborn", Informed(c, h, P)
    PROVE  Informed(Enter(c, r, now), h, P)
<1> DEFINE c1 == IF r.client \in DOMAIN c.members THEN c ELSE Register(c, r, now)
           c2 == IF r.retry THEN RequestProbe(c1, now) ELSE c1
<1>1. Sound(c1) /\ Informed(c1, h, P)
  BY RegisterSound, RegisterInformed
<1>2. Enter(c, r, now) = Expire(c2, now)
  BY DEF Enter
<1> HIDE DEF c1
<1>3. Sound(c2) /\ Informed(c2, h, P)
  BY <1>1, RequestProbeSound, RequestProbeQuiet, QuietInformed
<1> HIDE DEF c2
<1> QED  BY <1>2, <1>3, ExpireQuiet, QuietInformed

LEMMA ExchangeInformed ==
    ASSUME NEW c, Sound(c), NEW r \in Requests, NEW now \in Nat, NEW h, NEW P,
           h[r.session] # "unborn", Informed(c, h, P)
    PROVE  Informed(Exchange(c, r, now).state, h, P)
<1> DEFINE c1 == Enter(c, r, now)
           c2 == ApplyEvent(c1, r, now)
           c3 == CheckChild(c2, r)
           c4 == Admit(c3, now)
<1>1. Sound(c1) /\ r.client \in DOMAIN c1.members /\ Informed(c1, h, P)
  BY EnterSound, EnterInformed
<1>2. Exchange(c, r, now).state = c1 \/ Exchange(c, r, now).state = c4
  BY DEF Exchange
<1> HIDE DEF c1
<1>3. Sound(c2) /\ r.client \in DOMAIN c2.members /\ Informed(c2, h, P)
  BY <1>1, ApplyEventSound, ApplyEventQuiet, QuietInformed
<1> HIDE DEF c2
<1>4. Sound(c3) /\ Informed(c3, h, P)
  BY <1>3, CheckChildSound, CheckChildQuiet, QuietInformed
<1> HIDE DEF c3
<1>5. Informed(c4, h, P)
  BY <1>4, AdmitQuiet, QuietInformed
<1> HIDE DEF c4
<1> QED  BY <1>1, <1>2, <1>5

-----------------------------------------------------------------------------
(* Probes.                                                                 *)

LEMMA BeginProbeInformed ==
    ASSUME NEW c, Sound(c), NEW now, NEW h, NEW P, Informed(c, h, P), ~c.checking
    PROVE  Informed(BeginProbe(c, now), h, P \cup {h})
<1> DEFINE d == BeginProbe(c, now)
<1>1. P = {}
  BY DEF Informed, Single
<1>2. /\ d.checking = TRUE
      /\ d.members = [x \in DOMAIN c.members |-> [c.members[x] EXCEPT !.observed = TRUE]]
  BY DEF Sound, IsCoordinator, BeginProbe
<1>3. \A x \in DOMAIN c.members : c.members[x] \in Member
  BY DEF Sound, IsCoordinator, IsMap
<1>4. \A x \in DOMAIN c.members : /\ d.members[x].session = c.members[x].session
                                  /\ d.members[x].ended = c.members[x].ended
  BY <1>2, <1>3 DEF Member
<1> HIDE DEF d
<1>5. Fated(d, h, {h})
  BY <1>2, <1>4 DEF Informed, Fated
<1>6. Single(d, {h}) /\ Grown(h, {h}) /\ Sought(d)
  BY <1>2 DEF Single, FewerThanTwo, Grown, Sought
<1>7. P \cup {h} = {h}
  BY <1>1
<1>8. Informed(d, h, P \cup {h})
  BY <1>5, <1>6, <1>7 DEF Informed
<1> QED  BY <1>8 DEF d

LEMMA FailProbeInformed ==
    ASSUME NEW c, Sound(c), NEW now, NEW h, NEW P, NEW began \in P, Informed(c, h, P)
    PROVE  Informed(FailProbe(c, now), h, P \ {began})
<1> DEFINE d == FailProbe(c, now)
<1>1. P \ {began} = {}
  BY DEF Informed, Single, FewerThanTwo
<1>2. /\ d.checking = FALSE /\ d.available = FALSE
      /\ d.members = [x \in DOMAIN c.members |-> [c.members[x] EXCEPT !.observed = FALSE]]
  BY DEF Sound, IsCoordinator, FailProbe
<1>3. \A x \in DOMAIN c.members : c.members[x] \in Member
  BY DEF Sound, IsCoordinator, IsMap
<1>4. \A x \in DOMAIN c.members : /\ d.members[x].session = c.members[x].session
                                  /\ d.members[x].ended = c.members[x].ended
  BY <1>2, <1>3 DEF Member
<1> HIDE DEF d
<1>5. Fated(d, h, {})
  BY <1>2, <1>4 DEF Informed, Fated
<1>6. Single(d, {}) /\ Grown(h, {}) /\ Sought(d)
  BY <1>2 DEF Single, FewerThanTwo, Grown, Sought
<1>7. Informed(d, h, P \ {began})
  BY <1>1, <1>5, <1>6 DEF Informed
<1> QED  BY <1>7 DEF d

\* A member is ended by a listing that lacks it only if it was observed:
\* its session existed when the probe began, so that a session the listing
\* lacks has ended since, or had before.
LEMMA FinishProbeInformed ==
    ASSUME NEW c, Sound(c), NEW now \in Nat, NEW h \in [Sessions -> Status],
           NEW P \in SUBSET [Sessions -> Status], NEW began \in P, Informed(c, h, P),
           NEW inventory \in Listings(began, h)
    PROVE  Informed(FinishProbe(c, now, inventory), h, P \ {began})
<1> DEFINE f == [x \in DOMAIN c.members |-> EndMember(c.members[x], inventory)]
           c1 == [c EXCEPT !.checking = FALSE, !.available = TRUE, !.failures = 0,
                           !.inventory = inventory, !.nextProbe = now + ProbePeriod,
                           !.members = f]
           missed == \E x \in DOMAIN c1.members :
                        ~c1.members[x].ended /\ c1.members[x].session \notin inventory
           c2 == IF missed THEN RequestProbe(c1, now) ELSE c1
<1>1. P \ {began} = {}
  BY DEF Informed, Single, FewerThanTwo
<1>2. FinishProbe(c, now, inventory) = Admit(c2, now)
  BY DEF FinishProbe
<1>3. \A x \in DOMAIN c.members : c.members[x] \in Member
  BY DEF Sound, IsCoordinator, IsMap
<1>4. \A x \in DOMAIN c.members :
         LET m == c.members[x] IN
         /\ f[x] \in Member /\ f[x].session = m.session
         /\ IsPending(f[x]) => IsPending(m)
         /\ f[x].ended => m.ended \/ (m.observed /\ m.session \notin inventory)
  BY <1>3 DEF EndMember, Member, IsPending
<1>5. ASSUME NEW x \in DOMAIN c.members, f[x].ended PROVE h[c.members[x].session] = "gone"
  <2> DEFINE session == c.members[x].session
  <2>1. CASE c.members[x].ended
    BY <2>1 DEF Informed, Fated
  <2>2. CASE c.members[x].observed /\ session \notin inventory
    <3>1. session \in Sessions /\ h[session] \in Status /\ began[session] \in Status
      BY <1>3 DEF Member
    <3>2. h[session] # "unborn" /\ began[session] # "unborn"
      BY <2>2 DEF Informed, Fated
    <3>3. began[session] = "gone" => h[session] = "gone"
      BY <3>1 DEF Informed, Grown
    <3>4. ~(began[session] = "live" /\ h[session] = "live")
      BY <2>2, <3>1 DEF Listings
    <3> QED  BY <3>1, <3>2, <3>3, <3>4 DEF Status
  <2> QED  BY <1>4, <1>5, <2>1, <2>2
<1>6. inventory \in SUBSET Sessions
  BY DEF Listings
<1>7. /\ c1.checking = FALSE /\ c1.inventory = inventory /\ c1.members = f
      /\ c1.order = c.order /\ c1.sessions = c.sessions
      /\ DOMAIN f = DOMAIN c.members
  BY DEF Sound, IsCoordinator
<1>8. Sound(c1)
  <2>0. f \in [DOMAIN c.members -> Member]
    BY <1>4
  <2> HIDE DEF f
  <2>1. IsCoordinator(c1)
    BY <1>6, <2>0, RecoveryConstants DEF Sound, IsCoordinator, IsMap
  <2> HIDE DEF c1
  <2>2. Eases(c1, c)
    BY <1>4, <1>7 DEF Eases, Pending
  <2> QED  BY <2>1, <2>2, EasesIsSound
<1> HIDE DEF f, c1
<1>9. Sound(c2) /\ Quiet(c2, c1)
  BY <1>8, RequestProbeSound, RequestProbeQuiet, QuietReflexive DEF missed
<1>10. Sought(c2)
  <2>1. CASE missed
    BY <1>8, <2>1, RequestProbeQuiet DEF Sought
  <2>2. CASE ~missed
    BY <1>7, <2>2 DEF Sought, Unknown
  <2> QED  BY <2>1, <2>2
<1> HIDE DEF missed, c2
<1>11. Fated(c2, h, {})
  BY <1>4, <1>5, <1>7, <1>9 DEF Informed, Fated, Quiet, SameFate
<1>12. Single(c2, {}) /\ Grown(h, {})
  BY <1>7, <1>9 DEF Single, FewerThanTwo, Grown, Quiet
<1>13. Informed(c2, h, {})
  BY <1>10, <1>11, <1>12 DEF Informed
<1>14. Informed(Admit(c2, now), h, {})
  BY <1>9, <1>13, AdmitQuiet, QuietInformed
<1> QED  BY <1>1, <1>2, <1>14

LEMMA RemoveInformed ==
    ASSUME NEW c, Sound(c), NEW x \in DOMAIN c.members, NEW h, NEW P, Informed(c, h, P)
    PROVE  Informed(Remove(c, x), h, P)
<1> DEFINE d == Remove(c, x)
<1>1. /\ d.members = [y \in DOMAIN c.members \ {x} |-> c.members[y]]
      /\ d.checking = c.checking /\ d.wanted = c.wanted
      /\ d.available = c.available /\ d.inventory = c.inventory
  BY DEF Sound, IsCoordinator, Remove
<1> HIDE DEF d
<1>2. Single(d, P) /\ Fated(d, h, P)
  BY <1>1 DEF Informed, Single, Fated
<1>3. Sought(d)
  <2>1. Unknown(d) \subseteq Unknown(c)
    BY <1>1 DEF Unknown
  <2> QED  BY <1>1, <2>1 DEF Informed, Sought
<1>4. Informed(d, h, P)
  BY <1>2, <1>3 DEF Informed
<1> QED  BY <1>4 DEF d

LEMMA RemoveAllInformed ==
    ASSUME NEW c, Sound(c), NEW gone, NEW h, NEW P, Informed(c, h, P)
    PROVE  Informed(RemoveAll(c, gone), h, P)
<1> DEFINE d == RemoveAll(c, gone)
<1>1. /\ d.members = [y \in DOMAIN c.members \ gone |-> c.members[y]]
      /\ d.checking = c.checking /\ d.wanted = c.wanted
      /\ d.available = c.available /\ d.inventory = c.inventory
  BY DEF Sound, IsCoordinator, RemoveAll
<1> HIDE DEF d
<1>2. Single(d, P) /\ Fated(d, h, P)
  BY <1>1 DEF Informed, Single, Fated
<1>3. Sought(d)
  <2>1. Unknown(d) \subseteq Unknown(c)
    BY <1>1 DEF Unknown
  <2> QED  BY <1>1, <2>1 DEF Informed, Sought
<1>4. Informed(d, h, P)
  BY <1>2, <1>3 DEF Informed
<1> QED  BY <1>4 DEF d

LEMMA HostStepInformed ==
    ASSUME NEW c, Sound(c), NEW h \in [Sessions -> Status], NEW P, Informed(c, h, P),
           NEW x \in Sessions, NEW status, <<h[x], status>> \in HostSteps
    PROVE  Informed(c, [h EXCEPT ![x] = status], P)
<1> DEFINE g == [h EXCEPT ![x] = status]
<1>1. \A y \in Sessions : /\ h[y] # "unborn" => g[y] # "unborn"
                          /\ h[y] = "gone" => g[y] = "gone"
  BY DEF HostSteps
<1>2. \A y \in DOMAIN c.members : c.members[y].session \in Sessions
  BY DEF Sound, IsCoordinator, IsMap, Member
<1> HIDE DEF g
<1>3. Fated(c, g, P)
  BY <1>1, <1>2 DEF Informed, Fated
<1>4. Grown(g, P)
  BY <1>1 DEF Informed, Grown
<1>5. Informed(c, g, P)
  BY <1>3, <1>4 DEF Informed
<1> QED  BY <1>5 DEF g

-----------------------------------------------------------------------------
(* The theorems.                                                           *)

ProbeInv == RecoveryInv /\ Informed(s, host, probes)

LEMMA ProbeInit == Init => Informed(s, host, probes)
<1> SUFFICES ASSUME Init PROVE Informed(s, host, probes)
  OBVIOUS
<1>1. /\ s.checking = FALSE /\ s.available = FALSE /\ probes = {}
      /\ DOMAIN s.members = {}
  BY DEF Init, NewSessionRecovery
<1> QED  BY <1>1 DEF Informed, Single, FewerThanTwo, Fated, Grown, Sought

LEMMA ProbeStep == ProbeInv /\ [Next]_vars => Informed(s, host, probes)'
<1> SUFFICES ASSUME ProbeInv, [Next]_vars PROVE Informed(s', host', probes')
  BY DEF Informed, Single, FewerThanTwo, Fated, Grown, Sought, Unknown
<1> USE TimesAreNat
<1>1. /\ Sound(s) /\ Informed(s, host, probes)
      /\ host \in [Sessions -> Status] /\ probes \in SUBSET [Sessions -> Status]
  BY DEF ProbeInv, RecoveryInv, TypeOK, Bookkeeping, PendingBound, Sound
<1>2. CASE UNCHANGED vars
  BY <1>1, <1>2 DEF vars
<1>3. ASSUME NEW r \in Requests, NEW now \in Times, HandleRequest(r, now)
      PROVE  Informed(s', host', probes')
  BY <1>1, <1>3, ExchangeInformed DEF HandleRequest
<1>4. ASSUME NEW x \in Clients, RemoveClient(x)
      PROVE  Informed(s', host', probes')
  BY <1>1, <1>4, RemoveInformed DEF RemoveClient
<1>5. ASSUME NEW now \in Times, Tick(now)
      PROVE  Informed(s', host', probes')
  <2> DEFINE c == Admit(s, now)
  <2>1. Sound(c) /\ Informed(c, host, probes)
    BY <1>1, AdmitSound, AdmitQuiet, QuietInformed
  <2>2. /\ s' = IF CanProbe(c, now) THEN BeginProbe(c, now) ELSE c
        /\ probes' = IF CanProbe(c, now) THEN probes \cup {host} ELSE probes
        /\ host' = host
    BY <1>5 DEF Tick
  <2> HIDE DEF c
  <2>3. CASE CanProbe(c, now)
    <3>1. ~c.checking
      BY <2>3 DEF CanProbe
    <3> QED  BY <2>1, <2>2, <2>3, <3>1, BeginProbeInformed
  <2>4. CASE ~CanProbe(c, now)
    BY <2>1, <2>2, <2>4
  <2> QED  BY <2>3, <2>4
<1>6. ASSUME NEW began \in probes, NEW now \in Times, ProbeSucceeds(began, now)
      PROVE  Informed(s', host', probes')
  BY <1>1, <1>6, FinishProbeInformed DEF ProbeSucceeds
<1>7. ASSUME NEW began \in probes, NEW now \in Times, ProbeFails(began, now)
      PROVE  Informed(s', host', probes')
  BY <1>1, <1>7, FailProbeInformed DEF ProbeFails
<1>8. ASSUME NEW x \in Mortal, HostStep(x)
      PROVE  Informed(s', host', probes')
  <2>1. PICK status \in Status : /\ <<host[x], status>> \in HostSteps
                                 /\ host' = [host EXCEPT ![x] = status]
    BY <1>8 DEF HostStep
  <2>2. x \in Sessions /\ s' = s /\ probes' = probes
    BY <1>8, RecoveryConstants DEF HostStep
  <2> QED  BY <1>1, <2>1, <2>2, HostStepInformed
<1> QED  BY <1>2, <1>3, <1>4, <1>5, <1>6, <1>7, <1>8 DEF Next

LEMMA ProbeInvAlways == Spec => []ProbeInv
<1>1. Init => ProbeInv
  BY InitInv, ProbeInit DEF ProbeInv
<1>2. ProbeInv /\ [Next]_vars => ProbeInv'
  BY StepInv, ProbeStep DEF ProbeInv
<1> QED  BY <1>1, <1>2, PTL DEF Spec

\* No helper is told that a session ended which still exists, for any number
\* of members and sessions: neither a listing that is older than the session
\* or than its member's registration, nor one read while sessions come and go,
\* nor a failed probe ends a member wrongly (finishProbe).
THEOREM EndedOnlyIfGoneHolds == Spec => []EndedOnlyIfGone
<1>1. ProbeInv => EndedOnlyIfGone
  BY DEF ProbeInv, Informed, Fated, EndedOnlyIfGone
<1> QED  BY <1>1, ProbeInvAlways, PTL

\* At most one probe is in flight, and a member the inventory does not know
\* has one in flight or requested, for any number of members and any order of
\* registrations, results and departures (requestProbe, finishProbe).
THEOREM UnknownMemberIsProbedHolds == Spec => []UnknownMemberIsProbed
<1>1. ProbeInv => UnknownMemberIsProbed
  <2> SUFFICES ASSUME ProbeInv PROVE UnknownMemberIsProbed
    OBVIOUS
  <2>1. Single(s, probes) /\ Sought(s)
    BY DEF ProbeInv, Informed
  <2>2. FewerThanTwo(probes)
    BY <2>1 DEF Single
  <2>3. Unknown(s) # {} <=> \E x \in DOMAIN s.members :
                               ~s.members[x].ended /\ s.members[x].session \notin s.inventory
    BY DEF Unknown
  <2> QED  BY <2>1, <2>2, <2>3 DEF Single, Sought, UnknownMemberIsProbed
<1> QED  BY <1>1, ProbeInvAlways, PTL


-----------------------------------------------------------------------------
(***************************************************************************)
(* Leases.  An attempt that was told to stop is never taken for a ready    *)
(* one, and never admitted anew, for every number of clients and clocks    *)
(* that go back.  The argument follows such a member through each method   *)
(* of the coordinator: until its loss is reported it is Held; afterwards   *)
(* it is Over, and an admission needs another proposal first.              *)
(*                                                                         *)
(* Then what an exchange does to the one member it serves (Concludes), how *)
(* far the others drift meanwhile, and what the coordinator may go on      *)
(* believing of a helper: the facts MirrorRecoveryProofs composes.         *)
(***************************************************************************)

(* What becomes of a member that was told to stop attempt a.               *)

Held(n, a) == n.active = a /\ n.proposed = a /\ ~n.ready /\ n.reset

Over(n, a) == n.active = None /\ (n.ended \/ (n.retired = a /\ n.proposed = a))

Stopped(n, a) == Held(n, a) \/ Over(n, a)

\* What a member holds is what it proposed last.
Tied(n) == n.active # None => n.proposed = n.active

Follows(n, m) ==
    /\ Tied(n)
    /\ \A a \in Attempts : (Held(m, a) => Held(n, a)) /\ (Over(m, a) => Over(n, a))

AllTied(c) == \A x \in DOMAIN c.members : Tied(c.members[x])

\* d keeps every member of c, stopped as it was.
Obeys(d, c) ==
    /\ AllTied(d)
    /\ DOMAIN c.members \subseteq DOMAIN d.members
    /\ \A x \in DOMAIN c.members, a \in Attempts :
          /\ Held(c.members[x], a) => Held(d.members[x], a)
          /\ Over(c.members[x], a) => Over(d.members[x], a)

\* d may take note that what a member of c holds is lost, or has ended.
Ends(d, c) ==
    /\ AllTied(d)
    /\ DOMAIN d.members = DOMAIN c.members
    /\ \A x \in DOMAIN c.members, a \in Attempts :
          Held(c.members[x], a) => Stopped(d.members[x], a)

LEMMA ObeysComposes ==
    ASSUME NEW b, NEW c, NEW d, Obeys(c, b), Obeys(d, c)
    PROVE  Obeys(d, b)
BY DEF Obeys

LEMMA SameMembersObey ==
    ASSUME NEW c, NEW d, AllTied(c), d.members = c.members
    PROVE  Obeys(d, c)
BY DEF Obeys, AllTied

LEMMA MembersObey ==
    ASSUME NEW c, NEW d, DOMAIN d.members = DOMAIN c.members,
           \A x \in DOMAIN c.members : Follows(d.members[x], c.members[x])
    PROVE  Obeys(d, c)
BY DEF Obeys, AllTied, Follows

LEMMA SetMemberObeys ==
    ASSUME NEW c, Sound(c), AllTied(c), NEW x \in DOMAIN c.members, NEW m,
           Follows(m, c.members[x])
    PROVE  Obeys(SetMember(c, x, m), c)
<1> DEFINE f == [y \in DOMAIN c.members |-> IF y = x THEN m ELSE c.members[y]]
           d == SetMember(c, x, m)
<1>1. DOMAIN c.members \cup {x} = DOMAIN c.members
  OBVIOUS
<1>2. d.members = f
  BY <1>1 DEF SetMember, Sound, IsCoordinator
<1>3. \A y \in DOMAIN c.members : Follows(f[y], c.members[y])
  BY DEF AllTied, Follows
<1>4. DOMAIN f = DOMAIN c.members
  OBVIOUS
<1> HIDE DEF f, d
<1>5. Obeys(d, c)
  BY <1>2, <1>3, <1>4, MembersObey
<1> QED  BY <1>5 DEF d

LEMMA SetRetryObeys ==
    ASSUME NEW c, Sound(c), AllTied(c), NEW x, NEW retry
    PROVE  Obeys(SetRetry(c, x, retry), c)
BY SameMembersObey DEF SetRetry, Sound, IsCoordinator

LEMMA RequestProbeObeys ==
    ASSUME NEW c, Sound(c), AllTied(c), NEW now \in Nat
    PROVE  Obeys(RequestProbe(c, now), c)
BY RequestProbeSound, SameMembersObey

-----------------------------------------------------------------------------
(* Admission.                                                              *)

LEMMA ExpireObeys ==
    ASSUME NEW c, Sound(c), AllTied(c), NEW now
    PROVE  Obeys(Expire(c, now), c)
<1> DEFINE d == Expire(c, now)
           late(m) == IsPending(m) /\ now >= m.deadline
<1>1. /\ DOMAIN d.members = DOMAIN c.members
      /\ \A x \in DOMAIN c.members :
            d.members[x] = IF late(c.members[x]) THEN [c.members[x] EXCEPT !.reset = TRUE]
                           ELSE c.members[x]
  BY DEF Expire, Sound, IsCoordinator
<1>2. \A x \in DOMAIN c.members : c.members[x] \in Member
  BY DEF Sound, IsCoordinator, IsMap
<1>3. ASSUME NEW m \in Member, Tied(m)
      PROVE  Follows([m EXCEPT !.reset = TRUE], m) /\ Follows(m, m)
  BY <1>3 DEF Member, Tied, Follows, Held, Over
<1> HIDE DEF late, d
<1>4. \A x \in DOMAIN c.members : Follows(d.members[x], c.members[x])
  BY <1>1, <1>2, <1>3 DEF AllTied
<1>5. Obeys(d, c)
  BY <1>1, <1>4, MembersObey
<1> QED  BY <1>5 DEF d

\* An admission never goes to a stopped member.
LEMMA GrantObeys ==
    ASSUME NEW c, Sound(c), AllTied(c), NEW now \in Nat
    PROVE  Obeys(Grant(c, now, NextAdmitted(c, now)), c)
<1> DEFINE i == NextAdmitted(c, now)
           x == c.order[i]
           n == c.members[x]
           m == [n EXCEPT !.active = n.proposed, !.deadline = now + Lease]
<1>1. CASE i = 0
  BY <1>1, SameMembersObey DEF Grant
<1>2. CASE i # 0
  <2>1. i \in 1..Len(c.order) /\ Admissible(c, now, x)
    BY <1>2, NextAdmittedIsCandidate
  <2>2. x \in DOMAIN c.members /\ n \in Member
    BY <2>1, OrderedAreMembers
  <2>3. Follows(m, n)
    <3>1. ~n.ended /\ n.active = None /\ n.proposed # n.retired
      BY <2>1 DEF Admissible
    <3>2. \A a \in Attempts : ~Held(n, a) /\ ~Over(n, a)
      BY <3>1, RecoveryConstants DEF Held, Over
    <3>3. Tied(m)
      BY <2>2 DEF Member, Tied
    <3> QED  BY <3>2, <3>3 DEF Follows
  <2>4. Grant(c, now, i) = SetMember(c, x, m)
    BY <1>2 DEF Grant
  <2> HIDE DEF i, m
  <2> QED  BY <2>2, <2>3, <2>4, SetMemberObeys DEF i
<1> QED  BY <1>1, <1>2

LEMMA AdmitObeys ==
    ASSUME NEW c, Sound(c), AllTied(c), NEW now \in Nat
    PROVE  Obeys(Admit(c, now), c)
<1> DEFINE c0 == Expire(c, now)
           i  == NextAdmitted(c0, now)
           c1 == Grant(c0, now, i)
           j  == NextAdmitted(c1, now)
           c2 == Grant(c1, now, j)
           k  == IF j = 0 THEN i ELSE j
<1>1. Sound(c0) /\ Obeys(c0, c)
  BY ExpireSound, ExpireObeys
<1>2. Sound(c1) /\ Obeys(c1, c0)
  BY <1>1, GrantSound, GrantObeys DEF Obeys
<1>3. Sound(c2) /\ Obeys(c2, c1)
  BY <1>2, GrantSound, GrantObeys DEF Obeys
<1>4. Admit(c, now) = IF ~c.available THEN c0 ELSE RotateOrder(c2, k)
  BY DEF Admit
<1> HIDE DEF c0, c1, c2, i, j, k
<1>5. RotateOrder(c2, k).members = c2.members
  BY <1>3 DEF RotateOrder, Sound, IsCoordinator
<1>6. Obeys(RotateOrder(c2, k), c2)
  BY <1>3, <1>5, SameMembersObey DEF Obeys
<1>7. Obeys(c2, c)
  BY <1>1, <1>2, <1>3, ObeysComposes
<1> QED  BY <1>1, <1>4, <1>6, <1>7, ObeysComposes

-----------------------------------------------------------------------------
(* The exchange with a helper.                                             *)

LEMMA RegisterObeys ==
    ASSUME NEW c, Sound(c), AllTied(c), NEW r \in Requests, NEW now \in Nat,
           r.client \notin DOMAIN c.members
    PROVE  Obeys(Register(c, r, now), c)
<1> DEFINE x == r.client
           m == NewMember(r)
           c1 == SetMember(c, x, m)
           c2 == IF r.session \in DOMAIN c.sessions THEN c1
                 ELSE SetRetry(c1, r.session, Fresh)
           d == [c2 EXCEPT !.order = Append(c2.order, x)]
           e == RequestProbe(d, now)
<1>1. Tied(m)
  BY DEF NewMember, MemberOf, Tied
<1>2. Register(c, r, now) = e
  BY DEF Register
<1> HIDE DEF m
<1>3. d.members = [y \in DOMAIN c.members \cup {x} |-> IF y = x THEN m ELSE c.members[y]]
  BY DEF Sound, IsCoordinator, SetMember, SetRetry
<1> HIDE DEF d
<1>4. e.members = d.members
  BY DEF RequestProbe
<1> HIDE DEF e
<1>5. Obeys(e, c)
  BY <1>1, <1>3, <1>4 DEF Obeys, AllTied
<1> QED  BY <1>2, <1>5

LEMMA EnterObeys ==
    ASSUME NEW c, Sound(c), AllTied(c), NEW r \in Requests, NEW now \in Nat
    PROVE  Obeys(Enter(c, r, now), c)
<1> DEFINE c1 == IF r.client \in DOMAIN c.members THEN c ELSE Register(c, r, now)
           c2 == IF r.retry THEN RequestProbe(c1, now) ELSE c1
<1>1. Sound(c1) /\ Obeys(c1, c)
  BY RegisterSound, RegisterObeys, SameMembersObey
<1>2. Enter(c, r, now) = Expire(c2, now)
  BY DEF Enter
<1> HIDE DEF c1
<1>3. Sound(c2) /\ Obeys(c2, c1)
  BY <1>1, RequestProbeSound, RequestProbeObeys, SameMembersObey DEF Obeys
<1> HIDE DEF c2
<1>4. Obeys(Expire(c2, now), c2)
  BY <1>3, ExpireObeys DEF Obeys
<1> QED  BY <1>1, <1>2, <1>3, <1>4, ObeysComposes

\* A loss ends what is held; readiness of what is held and stopped is stale.
LEMMA ApplyEventEnds ==
    ASSUME NEW c, Sound(c), AllTied(c), NEW r \in Requests, NEW now \in Nat,
           r.client \in DOMAIN c.members, ~Stale(c.members[r.client], r, now)
    PROVE  Ends(ApplyEvent(c, r, now), c)
<1> DEFINE x == r.client
           m == c.members[x]
           d == ApplyEvent(c, r, now)
<1>1. m \in Member /\ Tied(m)
  BY DEF Sound, IsCoordinator, IsMap, AllTied
<1>2. ASSUME NEW e, DOMAIN e.members = DOMAIN c.members,
             Tied(e.members[x]), \A a \in Attempts : Held(m, a) => Stopped(e.members[x], a),
             \A y \in DOMAIN c.members \ {x} : e.members[y] = c.members[y]
      PROVE  Ends(e, c)
  BY <1>2 DEF Ends, AllTied, Stopped
<1>3. ASSUME NEW n
      PROVE  LET e == SetMember(c, x, n) IN
             /\ DOMAIN e.members = DOMAIN c.members /\ e.members[x] = n
             /\ \A y \in DOMAIN c.members \ {x} : e.members[y] = c.members[y]
  BY DEF SetMember, Sound, IsCoordinator
<1>4. CASE Releases(m, r)
  <2> DEFINE n == [m EXCEPT !.reset = m.reset /\ m.active # None]
  <2>1. Tied(n) /\ \A a \in Attempts : Held(m, a) => Held(n, a)
    BY <1>1, RecoveryConstants DEF Member, Tied, Held
  <2>2. d = SetMember(c, x, n)
    BY <1>4, RecoveryConstants DEF ApplyEvent, Releases
  <2> HIDE DEF n, d
  <2>3. Ends(d, c)
    BY <1>2, <1>3, <2>1, <2>2 DEF Stopped
  <2> QED  BY <2>3 DEF d
<1>5. CASE r.event = "ready"
  <2> DEFINE n == [m EXCEPT !.ready = TRUE]
             e == SetMember(c, x, n)
  <2>1. \A a \in Attempts : ~Held(m, a)
    BY <1>5, RequestFields, RecoveryConstants DEF Stale, Releases, Held
  <2>2. Tied(n)
    BY <1>1 DEF Member, Tied
  <2>3. d = SetRetry(e, m.session, Fresh)
    BY <1>5, RecoveryConstants DEF ApplyEvent, Releases
  <2>4. d.members = e.members
    BY <2>3 DEF SetRetry, SetMember, Sound, IsCoordinator
  <2> HIDE DEF n, e, d
  <2>5. Ends(d, c)
    BY <1>2, <1>3, <2>1, <2>2, <2>4 DEF e
  <2> QED  BY <2>5 DEF d
<1>6. CASE r.event = "lost" /\ ~Releases(m, r)
  <2> DEFINE n == [m EXCEPT !.retired = m.active, !.active = None,
                            !.ready = FALSE, !.reset = FALSE]
             e == SetMember(c, x, n)
  <2>1. Tied(n) /\ \A a \in Attempts : Held(m, a) => Over(n, a)
    BY <1>1 DEF Member, Tied, Held, Over
  <2>2. d = RequestProbe(Fail(c, x, now), now)
    BY <1>6, RecoveryConstants DEF ApplyEvent, Releases
  <2>3. d.members = Fail(c, x, now).members
    BY <2>2, FailSound, RequestProbeSound
  <2>4. Fail(c, x, now).members = e.members
    BY DEF Fail, SetRetry, SetMember, Sound, IsCoordinator
  <2> HIDE DEF n, e, d
  <2>5. Ends(d, c)
    BY <1>2, <1>3, <2>1, <2>3, <2>4 DEF e, Stopped
  <2> QED  BY <2>5 DEF d
<1>7. CASE r.event = None /\ ~Releases(m, r) /\ r.event # "ready" /\ r.event # "lost"
  <2> DEFINE n == [m EXCEPT !.proposed = r.attempt]
  <2>1. CASE m.active = None /\ ~m.reset /\ r.attempt # m.retired
    <3>1. Tied(n) /\ \A a \in Attempts : ~Held(m, a)
      BY <1>1, <2>1, RecoveryConstants DEF Member, Tied, Held
    <3>2. d = SetMember(c, x, n)
      BY <1>7, <2>1 DEF ApplyEvent
    <3> HIDE DEF n, d
    <3>3. Ends(d, c)
      BY <1>2, <1>3, <3>1, <3>2
    <3> QED  BY <3>3 DEF d
  <2>2. CASE ~(m.active = None /\ ~m.reset /\ r.attempt # m.retired)
    <3>1. d = c
      BY <1>7, <2>2 DEF ApplyEvent
    <3> QED  BY <3>1 DEF Ends, Stopped
  <2> QED  BY <2>1, <2>2
<1>8. Releases(m, r) => r.event = "lost"
  BY DEF Releases
<1> QED  BY <1>4, <1>5, <1>6, <1>7, <1>8, RequestFields

LEMMA CheckChildObeys ==
    ASSUME NEW c, Sound(c), AllTied(c), NEW r \in Requests, r.client \in DOMAIN c.members
    PROVE  Obeys(CheckChild(c, r), c)
<1> DEFINE m == c.members[r.client]
           n == [m EXCEPT !.reset = TRUE]
<1>1. Follows(n, m)
  <2>1. m \in Member /\ Tied(m)
    BY DEF Sound, IsCoordinator, IsMap, AllTied
  <2> QED  BY <2>1 DEF Member, Tied, Follows, Held, Over
<1>2. CheckChild(c, r) = c \/ CheckChild(c, r) = SetMember(c, r.client, n)
  BY DEF CheckChild
<1> HIDE DEF n
<1> QED  BY <1>1, <1>2, SetMemberObeys, SameMembersObey

\* What was held is held or over after the call, whatever the request says.
LEMMA ExchangeStops ==
    ASSUME NEW c, Sound(c), AllTied(c), NEW r \in Requests, NEW now \in Nat
    PROVE  LET d == Exchange(c, r, now).state IN
           /\ AllTied(d)
           /\ \A x \in DOMAIN c.members, a \in Attempts :
                 Held(c.members[x], a) => Stopped(d.members[x], a)
<1> DEFINE c1 == Enter(c, r, now)
           c2 == ApplyEvent(c1, r, now)
           c3 == CheckChild(c2, r)
           c4 == Admit(c3, now)
           stale == Stale(c1.members[r.client], r, now)
<1>1. Sound(c1) /\ r.client \in DOMAIN c1.members /\ Obeys(c1, c)
  BY EnterSound, EnterObeys
<1>2. Exchange(c, r, now).state = IF stale THEN c1 ELSE c4
  BY DEF Exchange
<1>3. CASE stale
  <2> HIDE DEF c1, c4, stale
  <2> QED  BY <1>1, <1>2, <1>3 DEF Obeys, Stopped
<1>4. CASE ~stale
  <2>1. ~Stale(c1.members[r.client], r, now)
    BY <1>4
  <2> HIDE DEF c1, stale
  <2>2. Sound(c2) /\ r.client \in DOMAIN c2.members /\ Ends(c2, c1)
    BY <1>1, <2>1, ApplyEventSound, ApplyEventEnds DEF Obeys
  <2> HIDE DEF c2
  <2>3. Sound(c3) /\ Obeys(c3, c2)
    BY <2>2, CheckChildSound, CheckChildObeys DEF Ends
  <2> HIDE DEF c3
  <2>4. Obeys(c4, c3)
    BY <2>3, AdmitObeys DEF Obeys
  <2> HIDE DEF c4
  <2>5. AllTied(c4) /\ \A x \in DOMAIN c.members, a \in Attempts :
                          Held(c.members[x], a) => Stopped(c4.members[x], a)
    BY <1>1, <2>2, <2>3, <2>4 DEF Obeys, Ends, Stopped
  <2> QED  BY <1>2, <1>4, <2>5
<1> QED  BY <1>3, <1>4

-----------------------------------------------------------------------------
(* Probes, and the end of a member.                                        *)

LEMMA ObservedObeys ==
    ASSUME NEW c, Sound(c), AllTied(c), NEW d, NEW v,
           DOMAIN d.members = DOMAIN c.members,
           \A x \in DOMAIN c.members : d.members[x] = [c.members[x] EXCEPT !.observed = v]
    PROVE  Obeys(d, c)
<1>1. \A x \in DOMAIN c.members : c.members[x] \in Member /\ Tied(c.members[x])
  BY DEF Sound, IsCoordinator, IsMap, AllTied
<1>2. \A x \in DOMAIN c.members : Follows(d.members[x], c.members[x])
  BY <1>1 DEF Member, Tied, Follows, Held, Over
<1> QED  BY <1>2, MembersObey

LEMMA EndMemberStops ==
    ASSUME NEW m \in Member, Tied(m), NEW inventory
    PROVE  LET n == EndMember(m, inventory) IN
           /\ n \in Member /\ n.session = m.session
           /\ IsPending(n) => IsPending(m)
           /\ Tied(n)
           /\ \A a \in Attempts : Held(m, a) => Stopped(n, a)
<1> DEFINE n == EndMember(m, inventory)
<1>1. CASE m.observed /\ m.session \notin inventory
  <2>1. /\ n \in Member /\ n.session = m.session
        /\ n.active = None /\ n.ended = TRUE
    BY <1>1 DEF EndMember, Member
  <2> HIDE DEF n
  <2>2. Tied(n) /\ ~IsPending(n) /\ \A a \in Attempts : Over(n, a)
    BY <2>1 DEF Tied, IsPending, Over
  <2>3. /\ n \in Member /\ n.session = m.session
        /\ IsPending(n) => IsPending(m)
        /\ Tied(n)
        /\ \A a \in Attempts : Held(m, a) => Stopped(n, a)
    BY <2>1, <2>2 DEF Stopped
  <2> QED  BY <2>3 DEF n
<1>2. CASE ~(m.observed /\ m.session \notin inventory)
  <2>1. /\ n \in Member /\ n.session = m.session
        /\ n.active = m.active /\ n.proposed = m.proposed
        /\ n.ready = m.ready /\ n.reset = m.reset
    BY <1>2 DEF EndMember, Member
  <2> HIDE DEF n
  <2>2. /\ n \in Member /\ n.session = m.session
        /\ IsPending(n) => IsPending(m)
        /\ Tied(n)
        /\ \A a \in Attempts : Held(m, a) => Stopped(n, a)
    BY <2>1 DEF Tied, IsPending, Stopped, Held
  <2> QED  BY <2>2 DEF n
<1> QED  BY <1>1, <1>2

LEMMA FinishProbeStops ==
    ASSUME NEW c, Sound(c), AllTied(c), NEW now \in Nat, NEW inventory \in SUBSET Sessions
    PROVE  LET d == FinishProbe(c, now, inventory) IN
           /\ AllTied(d)
           /\ \A x \in DOMAIN c.members, a \in Attempts :
                 Held(c.members[x], a) => Stopped(d.members[x], a)
<1> DEFINE f == [x \in DOMAIN c.members |-> EndMember(c.members[x], inventory)]
           c1 == [c EXCEPT !.checking = FALSE, !.available = TRUE, !.failures = 0,
                           !.inventory = inventory, !.nextProbe = now + ProbePeriod,
                           !.members = f]
           missed == \E x \in DOMAIN c1.members :
                        ~c1.members[x].ended /\ c1.members[x].session \notin inventory
           c2 == IF missed THEN RequestProbe(c1, now) ELSE c1
           d  == Admit(c2, now)
<1>1. \A x \in DOMAIN c.members : c.members[x] \in Member /\ Tied(c.members[x])
  BY DEF Sound, IsCoordinator, IsMap, AllTied
<1>2. \A x \in DOMAIN c.members :
         LET m == c.members[x] IN
         /\ f[x] \in Member /\ f[x].session = m.session
         /\ IsPending(f[x]) => IsPending(m)
         /\ Tied(f[x])
         /\ \A a \in Attempts : Held(m, a) => Stopped(f[x], a)
  BY <1>1, EndMemberStops
<1>3. /\ c1.members = f /\ c1.order = c.order /\ c1.sessions = c.sessions
      /\ DOMAIN f = DOMAIN c.members
  BY DEF Sound, IsCoordinator
<1>4. Sound(c1)
  <2>1. f \in [DOMAIN c.members -> Member]
    BY <1>2
  <2> HIDE DEF f
  <2>2. IsCoordinator(c1)
    BY <2>1, RecoveryConstants DEF Sound, IsCoordinator, IsMap
  <2> HIDE DEF c1
  <2>3. Eases(c1, c)
    BY <1>2, <1>3 DEF Eases, Pending
  <2> QED  BY <2>2, <2>3, EasesIsSound
<1>5. Ends(c1, c)
  <2> HIDE DEF f, c1
  <2> QED  BY <1>2, <1>3 DEF Ends, AllTied
<1>6. FinishProbe(c, now, inventory) = d
  BY DEF FinishProbe
<1> HIDE DEF missed, c1
<1>7. Sound(c2) /\ Obeys(c2, c1)
  BY <1>4, <1>5, RequestProbeSound, RequestProbeObeys, SameMembersObey DEF Ends
<1> HIDE DEF c2
<1>8. Obeys(d, c2)
  BY <1>7, AdmitObeys DEF Obeys
<1> HIDE DEF d
<1>9. AllTied(d) /\ \A x \in DOMAIN c.members, a \in Attempts :
                       Held(c.members[x], a) => Stopped(d.members[x], a)
  BY <1>5, <1>7, <1>8 DEF Ends, Obeys, Stopped
<1> QED  BY <1>6, <1>9

-----------------------------------------------------------------------------
(* What the steps that are not about it leave of a member: probes, the     *)
(* ticker and the requests of others may admit, expire or end it, and      *)
(* nothing else.                                                           *)

\* n may be told to stop, or have been admitted, or have ended.
Drifts(n, m) ==
    /\ n.token = m.token /\ n.session = m.session
    /\ n.proposed = m.proposed /\ n.retired = m.retired
    /\ m.ended => n.ended
    /\ \/ n.ended /\ n.active = None
       \/ /\ n.ended = m.ended /\ n.active = m.active /\ n.ready = m.ready
          /\ n.reset = m.reset \/ (n.reset /\ IsPending(m))
       \/ /\ ~m.ended /\ ~n.ended /\ ~m.reset
          /\ m.active = None /\ m.proposed # m.retired /\ n.active = m.proposed

AllDrift(d, c) ==
    /\ DOMAIN d.members = DOMAIN c.members
    /\ \A x \in DOMAIN c.members : Drifts(d.members[x], c.members[x])

LEMMA DriftsReflexive == ASSUME NEW m \in Member PROVE Drifts(m, m)
BY DEF Drifts

LEMMA DriftsComposes ==
    ASSUME NEW m \in Member, NEW n \in Member, NEW o, Drifts(n, m), Drifts(o, n)
    PROVE  Drifts(o, m)
<1>1. m.proposed # None /\ n.proposed # None
  BY RecoveryConstants DEF Member
<1>2. /\ o.token = m.token /\ o.session = m.session
      /\ o.proposed = m.proposed /\ o.retired = m.retired /\ (m.ended => o.ended)
  BY DEF Drifts
<1>3. CASE n.ended /\ n.active = None
  BY <1>1, <1>2, <1>3 DEF Drifts
<1>4. CASE /\ n.ended = m.ended /\ n.active = m.active /\ n.ready = m.ready
           /\ n.reset = m.reset \/ (n.reset /\ IsPending(m))
  BY <1>1, <1>2, <1>4 DEF Drifts, IsPending, Member
<1>5. CASE /\ ~m.ended /\ ~n.ended /\ ~m.reset
           /\ m.active = None /\ m.proposed # m.retired /\ n.active = m.proposed
  BY <1>1, <1>2, <1>5 DEF Drifts, Member
<1> QED  BY <1>3, <1>4, <1>5 DEF Drifts

LEMMA AllDriftComposes ==
    ASSUME NEW b, NEW c, NEW d, Sound(b), Sound(c), AllDrift(c, b), AllDrift(d, c)
    PROVE  AllDrift(d, b)
<1>1. \A x \in DOMAIN b.members : b.members[x] \in Member /\ c.members[x] \in Member
  BY DEF Sound, IsCoordinator, IsMap, AllDrift
<1> QED  BY <1>1, DriftsComposes DEF AllDrift

LEMMA SameMembersDrift ==
    ASSUME NEW c, NEW d, Sound(c), d.members = c.members
    PROVE  AllDrift(d, c)
BY DriftsReflexive DEF AllDrift, Sound, IsCoordinator, IsMap

LEMMA SetMemberDrifts ==
    ASSUME NEW c, Sound(c), NEW x \in DOMAIN c.members, NEW m, Drifts(m, c.members[x])
    PROVE  AllDrift(SetMember(c, x, m), c)
<1>1. \A y \in DOMAIN c.members : Drifts(c.members[y], c.members[y])
  BY DriftsReflexive DEF Sound, IsCoordinator, IsMap
<1>2. DOMAIN c.members \cup {x} = DOMAIN c.members
  OBVIOUS
<1>3. SetMember(c, x, m).members = [y \in DOMAIN c.members |-> IF y = x THEN m ELSE c.members[y]]
  BY <1>2 DEF SetMember, Sound, IsCoordinator
<1> QED  BY <1>1, <1>3 DEF AllDrift

\* What the deadline makes of a member.
Expired(m, now) == IF IsPending(m) /\ now >= m.deadline THEN [m EXCEPT !.reset = TRUE] ELSE m

LEMMA ExpireMembers ==
    ASSUME NEW c, Sound(c), NEW now
    PROVE  LET d == Expire(c, now) IN
           /\ DOMAIN d.members = DOMAIN c.members
           /\ \A x \in DOMAIN c.members : d.members[x] = Expired(c.members[x], now)
BY DEF Expire, Expired, Sound, IsCoordinator

LEMMA ExpireDrifts ==
    ASSUME NEW c, Sound(c), NEW now
    PROVE  AllDrift(Expire(c, now), c)
<1>1. \A x \in DOMAIN c.members : c.members[x] \in Member
  BY DEF Sound, IsCoordinator, IsMap
<1>2. ASSUME NEW m \in Member PROVE Drifts(Expired(m, now), m)
  BY DEF Expired, Drifts, Member, IsPending
<1> QED  BY <1>1, <1>2, ExpireMembers DEF AllDrift

LEMMA GrantDrifts ==
    ASSUME NEW c, Sound(c), NEW now \in Nat
    PROVE  AllDrift(Grant(c, now, NextAdmitted(c, now)), c)
<1> DEFINE i == NextAdmitted(c, now)
           x == c.order[i]
           n == c.members[x]
           m == [n EXCEPT !.active = n.proposed, !.deadline = now + Lease]
<1>1. CASE i = 0
  BY <1>1, SameMembersDrift DEF Grant
<1>2. CASE i # 0
  <2>1. i \in 1..Len(c.order) /\ Admissible(c, now, x)
    BY <1>2, NextAdmittedIsCandidate
  <2>2. x \in DOMAIN c.members /\ n \in Member
    BY <2>1, OrderedAreMembers
  <2>3. Drifts(m, n)
    BY <2>1, <2>2 DEF Admissible, Drifts, Member
  <2>4. Grant(c, now, i) = SetMember(c, x, m)
    BY <1>2 DEF Grant
  <2> HIDE DEF i, m
  <2> QED  BY <2>2, <2>3, <2>4, SetMemberDrifts DEF i
<1> QED  BY <1>1, <1>2

LEMMA AdmitDrifts ==
    ASSUME NEW c, Sound(c), NEW now \in Nat
    PROVE  AllDrift(Admit(c, now), c)
<1> DEFINE c0 == Expire(c, now)
           i  == NextAdmitted(c0, now)
           c1 == Grant(c0, now, i)
           j  == NextAdmitted(c1, now)
           c2 == Grant(c1, now, j)
           k  == IF j = 0 THEN i ELSE j
<1>1. Sound(c0) /\ AllDrift(c0, c)
  BY ExpireSound, ExpireDrifts
<1>2. Sound(c1) /\ AllDrift(c1, c0)
  BY <1>1, GrantSound, GrantDrifts
<1>3. Sound(c2) /\ AllDrift(c2, c1)
  BY <1>2, GrantSound, GrantDrifts
<1>4. Admit(c, now) = IF ~c.available THEN c0 ELSE RotateOrder(c2, k)
  BY DEF Admit
<1> HIDE DEF c0, c1, c2, i, j, k
<1>5. RotateOrder(c2, k).members = c2.members
  BY <1>3 DEF RotateOrder, Sound, IsCoordinator
<1>6. AllDrift(c2, c)
  BY <1>1, <1>2, <1>3, AllDriftComposes
<1> QED  BY <1>1, <1>4, <1>5, <1>6 DEF AllDrift

LEMMA BeginProbeDrifts ==
    ASSUME NEW c, Sound(c), NEW now
    PROVE  AllDrift(BeginProbe(c, now), c)
<1>1. \A x \in DOMAIN c.members : c.members[x] \in Member
  BY DEF Sound, IsCoordinator, IsMap
<1>2. ASSUME NEW m \in Member PROVE Drifts([m EXCEPT !.observed = TRUE], m)
  BY DEF Drifts, Member
<1>3. BeginProbe(c, now).members
        = [x \in DOMAIN c.members |-> [c.members[x] EXCEPT !.observed = TRUE]]
  BY DEF BeginProbe, Sound, IsCoordinator
<1> QED  BY <1>1, <1>2, <1>3 DEF AllDrift

LEMMA FailProbeDrifts ==
    ASSUME NEW c, Sound(c), NEW now
    PROVE  AllDrift(FailProbe(c, now), c)
<1>1. \A x \in DOMAIN c.members : c.members[x] \in Member
  BY DEF Sound, IsCoordinator, IsMap
<1>2. ASSUME NEW m \in Member PROVE Drifts([m EXCEPT !.observed = FALSE], m)
  BY DEF Drifts, Member
<1>3. FailProbe(c, now).members
        = [x \in DOMAIN c.members |-> [c.members[x] EXCEPT !.observed = FALSE]]
  BY DEF FailProbe, Sound, IsCoordinator
<1> QED  BY <1>1, <1>2, <1>3 DEF AllDrift

LEMMA FinishProbeDrifts ==
    ASSUME NEW c, Sound(c), NEW now \in Nat, NEW inventory \in SUBSET Sessions
    PROVE  AllDrift(FinishProbe(c, now, inventory), c)
<1> DEFINE f == [x \in DOMAIN c.members |-> EndMember(c.members[x], inventory)]
           c1 == [c EXCEPT !.checking = FALSE, !.available = TRUE, !.failures = 0,
                           !.inventory = inventory, !.nextProbe = now + ProbePeriod,
                           !.members = f]
           missed == \E x \in DOMAIN c1.members :
                        ~c1.members[x].ended /\ c1.members[x].session \notin inventory
           c2 == IF missed THEN RequestProbe(c1, now) ELSE c1
           d  == Admit(c2, now)
<1>1. ASSUME NEW x \in DOMAIN c.members
      PROVE  /\ f[x] \in Member /\ f[x].session = c.members[x].session
             /\ IsPending(f[x]) => IsPending(c.members[x])
             /\ Drifts(f[x], c.members[x])
  BY DEF Sound, IsCoordinator, IsMap, EndMember, Member, Drifts, IsPending
<1>2. /\ c1.members = f /\ c1.order = c.order /\ c1.sessions = c.sessions
      /\ DOMAIN f = DOMAIN c.members
  BY DEF Sound, IsCoordinator
<1>3. Sound(c1)
  <2>1. f \in [DOMAIN c.members -> Member]
    BY <1>1
  <2> HIDE DEF f
  <2>2. IsCoordinator(c1)
    BY <2>1, RecoveryConstants DEF Sound, IsCoordinator, IsMap
  <2> HIDE DEF c1
  <2>3. Eases(c1, c)
    BY <1>1, <1>2 DEF Eases, Pending
  <2> QED  BY <2>2, <2>3, EasesIsSound
<1>4. AllDrift(c1, c)
  <2> HIDE DEF f, c1
  <2> QED  BY <1>1, <1>2 DEF AllDrift
<1>5. FinishProbe(c, now, inventory) = d
  BY DEF FinishProbe
<1> HIDE DEF missed, c1
<1>6. Sound(c2) /\ AllDrift(c2, c1)
  BY <1>3, RequestProbeSound, SameMembersDrift
<1> HIDE DEF c2
<1>7. AllDrift(d, c2)
  BY <1>6, AdmitDrifts
<1> HIDE DEF d
<1> QED  BY <1>3, <1>4, <1>5, <1>6, <1>7, AllDriftComposes

-----------------------------------------------------------------------------
(* The exchange, as the member it is about sees it.                        *)

\* What the request's event makes of a member that it is not stale for.
AppliedTo(m, r) ==
    CASE Releases(m, r) -> [m EXCEPT !.reset = m.reset /\ m.active # None]
      [] r.event = "ready" -> [m EXCEPT !.ready = TRUE]
      [] r.event = "lost" /\ ~Releases(m, r) ->
           [m EXCEPT !.retired = m.active, !.active = None, !.ready = FALSE, !.reset = FALSE]
      [] r.event = None ->
           IF m.active = None /\ ~m.reset /\ r.attempt # m.retired
           THEN [m EXCEPT !.proposed = r.attempt] ELSE m

CheckedFor(m, r) ==
    IF r.state = "connecting" /\ m.active # r.attempt /\ r.attempt # m.retired
    THEN [m EXCEPT !.reset = TRUE] ELSE m

\* d is c but for member x, which is m.
Replaces(d, c, x, m) ==
    /\ DOMAIN d.members = DOMAIN c.members
    /\ d.members[x] = m
    /\ \A y \in DOMAIN c.members \ {x} : d.members[y] = c.members[y]

LEMMA SetMemberReplaces ==
    ASSUME NEW c, Sound(c), NEW x \in DOMAIN c.members, NEW m
    PROVE  Replaces(SetMember(c, x, m), c, x, m)
BY DEF Replaces, SetMember, Sound, IsCoordinator

LEMMA ApplyEventReplaces ==
    ASSUME NEW c, Sound(c), NEW r \in Requests, NEW now \in Nat, r.client \in DOMAIN c.members,
           ~Stale(c.members[r.client], r, now)
    PROVE  Replaces(ApplyEvent(c, r, now), c, r.client, AppliedTo(c.members[r.client], r))
<1> DEFINE x == r.client
           m == c.members[x]
           n == AppliedTo(m, r)
           d == ApplyEvent(c, r, now)
<1>1. ASSUME NEW e, e.members = SetMember(c, x, n).members PROVE Replaces(e, c, x, n)
  BY <1>1, SetMemberReplaces DEF Replaces
<1>2. r.event \in {None, "ready", "lost"} /\ None \notin {"ready", "lost"}
  BY RequestFields, RecoveryConstants
<1>3. CASE Releases(m, r)
  <2>1. d = SetMember(c, x, n)
    BY <1>2, <1>3 DEF ApplyEvent, AppliedTo, Releases
  <2> HIDE DEF d, n
  <2> QED  BY <1>1, <2>1 DEF d, n
<1>4. CASE r.event = "ready"
  <2>1. d = SetRetry(SetMember(c, x, n), m.session, Fresh)
    BY <1>2, <1>4 DEF ApplyEvent, AppliedTo, Releases
  <2>2. d.members = SetMember(c, x, n).members
    BY <2>1 DEF SetRetry, SetMember, Sound, IsCoordinator
  <2> HIDE DEF d, n
  <2> QED  BY <1>1, <2>2 DEF d, n
<1>5. CASE r.event = "lost" /\ ~Releases(m, r)
  <2>1. d = RequestProbe(Fail(c, x, now), now)
    BY <1>2, <1>5 DEF ApplyEvent, Releases
  <2>2. Sound(Fail(c, x, now))
    BY FailSound
  <2>3. d.members = Fail(c, x, now).members
    BY <2>1, <2>2, RequestProbeSound
  <2>4. n = [m EXCEPT !.retired = m.active, !.active = None, !.ready = FALSE, !.reset = FALSE]
    BY <1>2, <1>5 DEF AppliedTo
  <2>5. Fail(c, x, now).members = SetMember(c, x, n).members
    BY <2>4 DEF Fail, SetRetry, SetMember, Sound, IsCoordinator
  <2> HIDE DEF d, n
  <2> QED  BY <1>1, <2>3, <2>5 DEF d, n
<1>6. CASE r.event = None
  <2>1. ~Releases(m, r)
    BY <1>2, <1>6 DEF Releases
  <2>2. CASE m.active = None /\ ~m.reset /\ r.attempt # m.retired
    <3>1. d = SetMember(c, x, n)
      BY <1>2, <1>6, <2>1, <2>2 DEF ApplyEvent, AppliedTo
    <3> HIDE DEF d, n
    <3> QED  BY <1>1, <3>1 DEF d, n
  <2>3. CASE ~(m.active = None /\ ~m.reset /\ r.attempt # m.retired)
    <3>1. d = c /\ n = m
      BY <1>2, <1>6, <2>1, <2>3 DEF ApplyEvent, AppliedTo
    <3> HIDE DEF d, n
    <3> QED  BY <3>1 DEF Replaces, d, n
  <2> QED  BY <2>2, <2>3
<1> QED  BY <1>2, <1>3, <1>4, <1>5, <1>6

LEMMA CheckChildReplaces ==
    ASSUME NEW c, Sound(c), NEW r \in Requests, r.client \in DOMAIN c.members
    PROVE  Replaces(CheckChild(c, r), c, r.client, CheckedFor(c.members[r.client], r))
<1> DEFINE x == r.client
           m == c.members[x]
<1>1. CASE r.state = "connecting" /\ m.active # r.attempt /\ r.attempt # m.retired
  <2>1. CheckChild(c, r) = SetMember(c, x, CheckedFor(m, r))
    BY <1>1 DEF CheckChild, CheckedFor
  <2> QED  BY <2>1, SetMemberReplaces
<1>2. CASE ~(r.state = "connecting" /\ m.active # r.attempt /\ r.attempt # m.retired)
  <2>1. CheckChild(c, r) = c /\ CheckedFor(m, r) = m
    BY <1>2 DEF CheckChild, CheckedFor
  <2> QED  BY <2>1 DEF Replaces
<1> QED  BY <1>1, <1>2

\* The member a request is about, before the coordinator looks at it.
Addressed(c, r) ==
    IF r.client \in DOMAIN c.members THEN c.members[r.client] ELSE NewMember(r)

LEMMA NewMemberTyped ==
    ASSUME NEW r \in Requests
    PROVE  NewMember(r) \in Member /\ ~IsPending(NewMember(r))
BY RequestFields, RecoveryConstants DEF NewMember, MemberOf, Member, IsPending

LEMMA EnterMembers ==
    ASSUME NEW c, Sound(c), NEW r \in Requests, NEW now \in Nat
    PROVE  LET d == Enter(c, r, now) IN
           /\ DOMAIN d.members = DOMAIN c.members \cup {r.client}
           /\ d.members[r.client] = Expired(Addressed(c, r), now)
           /\ \A y \in DOMAIN c.members \ {r.client} : d.members[y] = Expired(c.members[y], now)
<1> DEFINE x == r.client
           c1 == IF x \in DOMAIN c.members THEN c ELSE Register(c, r, now)
           c2 == IF r.retry THEN RequestProbe(c1, now) ELSE c1
           d  == Enter(c, r, now)
<1>1. /\ Sound(c1)
      /\ DOMAIN c1.members = DOMAIN c.members \cup {x}
      /\ c1.members[x] = Addressed(c, r)
      /\ \A y \in DOMAIN c.members \ {x} : c1.members[y] = c.members[y]
  <2>1. CASE x \in DOMAIN c.members
    BY <2>1 DEF Addressed
  <2>2. CASE x \notin DOMAIN c.members
    <3> DEFINE b1 == SetMember(c, x, NewMember(r))
               b2 == IF r.session \in DOMAIN c.sessions THEN b1
                     ELSE SetRetry(b1, r.session, Fresh)
               b3 == [b2 EXCEPT !.order = Append(b2.order, x)]
               e  == RequestProbe(b3, now)
    <3>1. Sound(e)
      BY <2>2, RegisterSound DEF Register
    <3>2. Register(c, r, now) = e
      BY DEF Register
    <3>3. b3.members = [y \in DOMAIN c.members \cup {x} |->
                          IF y = x THEN NewMember(r) ELSE c.members[y]]
      BY DEF Sound, IsCoordinator, SetMember, SetRetry
    <3> HIDE DEF b3
    <3>4. e.members = b3.members
      BY DEF RequestProbe
    <3> HIDE DEF e
    <3> QED  BY <2>2, <3>1, <3>2, <3>3, <3>4 DEF Addressed
  <2> QED  BY <2>1, <2>2
<1>2. Enter(c, r, now) = Expire(c2, now)
  BY DEF Enter
<1> HIDE DEF c1
<1>3. Sound(c2) /\ c2.members = c1.members
  BY <1>1, RequestProbeSound
<1> HIDE DEF c2
<1> QED  BY <1>1, <1>2, <1>3, ExpireMembers

\* What the exchange makes of the member m it is about, and of its reply.
Concludes(n, reply, m, r, now) ==
    LET m1 == Expired(m, now)
        m2 == CheckedFor(AppliedTo(m1, r), r)
        resets == Stale(m1, r, now) \/ n.reset \/ r.attempt = n.retired
    IN /\ n \in Member
       /\ IF Stale(m1, r, now) THEN n = m1 ELSE Drifts(n, m2)
       /\ reply.ended = n.ended
       /\ reply.cancel = IF n.reset /\ IsPending(n) THEN n.active ELSE None
       /\ reply.grant = IF ~resets /\ ~n.ended /\ IsPending(n) THEN n.active ELSE None

LEMMA ExchangeConcludes ==
    ASSUME NEW c, Sound(c), NEW r \in Requests, NEW now \in Nat
    PROVE  LET e == Exchange(c, r, now)
               d == e.state
           IN /\ DOMAIN d.members = DOMAIN c.members \cup {r.client}
              /\ Concludes(d.members[r.client], e.reply, Addressed(c, r), r, now)
              /\ \A y \in DOMAIN c.members \ {r.client} : Drifts(d.members[y], c.members[y])
<1> DEFINE x  == r.client
           c1 == Enter(c, r, now)
           m1 == c1.members[x]
           c2 == ApplyEvent(c1, r, now)
           c3 == CheckChild(c2, r)
           c4 == Admit(c3, now)
           n  == c4.members[x]
           e  == Exchange(c, r, now)
           stale == Stale(m1, r, now)
<1>1. /\ Sound(c1)
      /\ DOMAIN c1.members = DOMAIN c.members \cup {x}
      /\ m1 = Expired(Addressed(c, r), now)
      /\ \A y \in DOMAIN c.members \ {x} : c1.members[y] = Expired(c.members[y], now)
  BY EnterSound, EnterMembers
<1>2. \A y \in DOMAIN c.members : c.members[y] \in Member
  BY DEF Sound, IsCoordinator, IsMap
<1>3. \A y \in DOMAIN c.members \ {x} : Drifts(c1.members[y], c.members[y])
  <2>1. AllDrift(Expire(c, now), c)
    BY ExpireDrifts
  <2> QED  BY <1>1, <2>1, ExpireMembers DEF AllDrift
<1>4. m1 \in Member /\ x \in DOMAIN c1.members
  BY <1>1 DEF Sound, IsCoordinator, IsMap
<1>5. CASE stale
  <2>1. e = [state |-> c1, reply |-> Reply(c1, x, TRUE)]
    BY <1>5 DEF Exchange
  <2>2. Concludes(m1, e.reply, Addressed(c, r), r, now)
    BY <1>1, <1>4, <1>5, <2>1 DEF Concludes, Reply
  <2>3. e.state = c1
    BY <2>1
  <2> HIDE DEF c1, stale
  <2> QED  BY <1>1, <1>3, <2>2, <2>3
<1>6. CASE ~stale
  <2>1. e = [state |-> c4, reply |-> Reply(c4, x, n.reset \/ r.attempt = n.retired)]
    BY <1>6 DEF Exchange
  <2>2. Sound(c2) /\ Replaces(c2, c1, x, AppliedTo(m1, r))
    BY <1>1, <1>4, <1>6, ApplyEventSound, ApplyEventReplaces
  <2>3. x \in DOMAIN c2.members
    BY <1>4, <2>2 DEF Replaces
  <2>4. Sound(c3) /\ Replaces(c3, c2, x, CheckedFor(AppliedTo(m1, r), r))
    <3> HIDE DEF c2, m1
    <3>1. CheckChild(c2, r) = c3
      OBVIOUS
    <3> HIDE DEF c3
    <3> QED  BY <2>2, <2>3, <3>1, CheckChildSound, CheckChildReplaces DEF Replaces
  <2> HIDE DEF c1, c2, c3, m1, stale
  <2>5. Sound(c4) /\ AllDrift(c4, c3)
    BY <2>4, AdmitSound, AdmitDrifts
  <2>6. n \in Member
    BY <2>3, <2>4, <2>5 DEF Replaces, AllDrift, Sound, IsCoordinator, IsMap
  <2>7. Drifts(n, CheckedFor(AppliedTo(m1, r), r))
    BY <2>3, <2>4, <2>5 DEF Replaces, AllDrift
  <2>8. Concludes(n, e.reply, Addressed(c, r), r, now)
    <3> DEFINE reset == n.reset \/ r.attempt = n.retired
    <3>1. e.reply = Reply(c4, x, reset)
      BY <2>1
    <3>2. /\ e.reply.ended = n.ended
          /\ e.reply.cancel = IF n.reset /\ IsPending(n) THEN n.active ELSE None
          /\ e.reply.grant = IF ~reset /\ ~n.ended /\ IsPending(n) THEN n.active ELSE None
      BY <3>1 DEF Reply
    <3>3. ~Stale(m1, r, now)
      BY <1>6 DEF stale
    <3> HIDE DEF n, e
    <3> QED  BY <1>1, <2>6, <2>7, <3>2, <3>3 DEF Concludes
  <2>9. \A y \in DOMAIN c.members \ {x} : Drifts(c4.members[y], c.members[y])
    <3> SUFFICES ASSUME NEW y \in DOMAIN c.members \ {x}
                 PROVE  Drifts(c4.members[y], c.members[y])
      OBVIOUS
    <3>1. c3.members[y] = c1.members[y] /\ y \in DOMAIN c1.members /\ y \in DOMAIN c3.members
      BY <1>1, <2>2, <2>4 DEF Replaces
    <3>2. c1.members[y] \in Member /\ c.members[y] \in Member
      BY <1>1, <1>2, <3>1 DEF Sound, IsCoordinator, IsMap
    <3>3. Drifts(c4.members[y], c1.members[y])
      BY <2>5, <3>1 DEF AllDrift
    <3> QED  BY <1>3, <3>2, <3>3, DriftsComposes
  <2>10. DOMAIN c4.members = DOMAIN c.members \cup {x}
    BY <1>1, <2>2, <2>4, <2>5 DEF Replaces, AllDrift
  <2>11. e.state = c4
    BY <2>1
  <2> HIDE DEF c4
  <2> QED  BY <2>8, <2>9, <2>10, <2>11
<1> QED  BY <1>5, <1>6

-----------------------------------------------------------------------------
(* What a coordinator may believe of a helper whose attempt is a.  A       *)
(* helper that holds the attempt, or has its loss to report, tells so in   *)
(* every request; every coordinator that hears of it accounts for it.      *)

Agrees(m, a) ==
    /\ m.active # None => m.active = a /\ m.proposed = a /\ m.retired # a
    /\ m.ended => m.active = None
    /\ ~m.ended /\ m.active = None /\ m.reset => m.retired = a
    /\ ~m.ended /\ m.proposed # m.retired => m.proposed = a

Accounts(m, a) == m.ended \/ m.active = a \/ m.retired = a

\* A child that was not announced is admitted or has to be reaped.
Covers(m, a) == m.ended \/ m.active = a \/ (m.active = None /\ m.reset)

\* Nothing of the last attempt is left.
Settled(m) == m.ended \/ (m.active = None /\ ~m.reset /\ m.retired = m.proposed)

Tells(r) == r.state # "offline" \/ r.event # None

\* What holds of n if it held of m.
Carries(n, m, a) ==
    /\ Agrees(n, a)
    /\ Accounts(m, a) => Accounts(n, a)
    /\ Accounts(m, a) /\ ~IsPending(m) => ~IsPending(n)
    /\ Covers(m, a) => Covers(n, a)
    /\ Settled(m) => Settled(n)
    /\ m.active # None => n.ended \/ n.active = m.active
    /\ IsPending(m) => n.ended \/ IsPending(n)

LEMMA DriftCarries ==
    ASSUME NEW m \in Member, NEW n \in Member, Drifts(n, m),
           NEW a \in Attempts, Agrees(m, a)
    PROVE  Carries(n, m, a)
<1>1. m.proposed # None /\ a # None /\ n.proposed = m.proposed /\ n.retired = m.retired
  BY RecoveryConstants DEF Member, Drifts
<1>2. /\ n.ended \in BOOLEAN /\ m.ended \in BOOLEAN /\ n.reset \in BOOLEAN /\ m.reset \in BOOLEAN
      /\ n.ready \in BOOLEAN /\ m.ready \in BOOLEAN
  BY DEF Member
<1>3. CASE n.ended /\ n.active = None
  BY <1>1, <1>3 DEF Carries, Agrees, Accounts, Covers, Settled, IsPending
<1>4. CASE /\ n.ended = m.ended /\ n.active = m.active /\ n.ready = m.ready
           /\ n.reset = m.reset \/ (n.reset /\ IsPending(m))
  BY <1>1, <1>2, <1>4 DEF Carries, Agrees, Accounts, Covers, Settled, IsPending
<1>5. CASE /\ ~m.ended /\ ~n.ended /\ ~m.reset
           /\ m.active = None /\ m.proposed # m.retired /\ n.active = m.proposed
  BY <1>1, <1>2, <1>5 DEF Carries, Agrees, Accounts, Covers, Settled, IsPending
<1> QED  BY <1>3, <1>4, <1>5 DEF Drifts

LEMMA NewMemberAgrees ==
    ASSUME NEW r \in Requests
    PROVE  LET m == NewMember(r) IN
           /\ m.session = r.session /\ Agrees(m, r.attempt)
           /\ Tells(r) => Accounts(m, r.attempt)
           /\ r.state = "connecting" => Covers(m, r.attempt)
<1>1. r.attempt # None /\ r.state \in {"offline", "connecting", "ready"}
  BY RequestFields, RecoveryConstants DEF Requests, RequestsOf
<1> QED  BY <1>1 DEF NewMember, MemberOf, Agrees, Tells, Accounts, Covers

LEMMA ExpiredDrifts ==
    ASSUME NEW m \in Member, NEW now
    PROVE  /\ Expired(m, now) \in Member /\ Drifts(Expired(m, now), m)
           /\ IsPending(Expired(m, now)) <=> IsPending(m)
           /\ IsPending(m) /\ now >= m.deadline => Expired(m, now).reset
           /\ Expired(m, now).deadline = m.deadline
           /\ Expired(m, now).session = m.session
BY DEF Expired, Drifts, Member, IsPending

\* The event of a request that the member's attempt is not stale for.
LEMMA AppliedKeeps ==
    ASSUME NEW r \in Requests, NEW m \in Member, NEW now, ~Stale(m, r, now),
           Agrees(m, r.attempt), Tells(r) => Accounts(m, r.attempt)
    PROVE  LET n == AppliedTo(m, r)
               a == r.attempt
           IN /\ n \in Member /\ n.session = m.session /\ Agrees(n, a)
              /\ Tells(r) => Accounts(n, a)
              /\ r.event = None /\ Covers(m, a) => Covers(n, a)
              /\ r.event = None => (IsPending(n) <=> IsPending(m))
              /\ r.event = "lost" => Settled(n)
              /\ r.event = "ready" => ~IsPending(n)
<1> DEFINE a == r.attempt
           n == AppliedTo(m, r)
<1>1. /\ a \in Attempts /\ a # None /\ r.event \in {None, "ready", "lost"}
      /\ None \notin {"ready", "lost"}
  BY RequestFields, RecoveryConstants
<1>2. CASE Releases(m, r)
  <2>1. /\ n = [m EXCEPT !.reset = m.reset /\ m.active # None]
        /\ r.event = "lost" /\ m.retired = a
    BY <1>1, <1>2 DEF AppliedTo, Releases
  <2> HIDE DEF n
  <2>2. /\ n \in Member /\ n.active = m.active /\ n.proposed = m.proposed
        /\ n.retired = m.retired /\ n.ended = m.ended /\ n.ready = m.ready
        /\ n.reset = (m.reset /\ m.active # None) /\ n.session = m.session
    BY <2>1 DEF Member
  <2>3. m.ended \/ m.active = None
    BY <2>1 DEF Agrees
  <2>4. Settled(n)
    BY <2>1, <2>2, <2>3 DEF Agrees, Settled
  <2>5. Agrees(n, a) /\ Accounts(n, a)
    BY <2>1, <2>2 DEF Agrees, Accounts
  <2> QED  BY <1>1, <2>1, <2>2, <2>4, <2>5 DEF n
<1>3. CASE r.event = "ready"
  <2>1. n = [m EXCEPT !.ready = TRUE]
    BY <1>1, <1>3 DEF AppliedTo, Releases
  <2> HIDE DEF n
  <2>2. /\ n \in Member /\ n.active = m.active /\ n.proposed = m.proposed
        /\ n.retired = m.retired /\ n.ended = m.ended /\ n.ready = TRUE
        /\ n.reset = m.reset /\ n.session = m.session
    BY <2>1 DEF Member
  <2>3. Agrees(n, a) /\ (Tells(r) => Accounts(n, a)) /\ ~IsPending(n)
    BY <2>2 DEF Agrees, Accounts, IsPending
  <2> QED  BY <1>1, <1>3, <2>2, <2>3 DEF n
<1>4. CASE r.event = "lost" /\ ~Releases(m, r)
  <2>1. n = [m EXCEPT !.retired = m.active, !.active = None, !.ready = FALSE, !.reset = FALSE]
    BY <1>1, <1>4 DEF AppliedTo
  <2> HIDE DEF n
  <2>2. m.active = a
    BY <1>1, <1>4 DEF Stale
  <2>3. /\ n \in Member /\ n.active = None /\ n.proposed = m.proposed
        /\ n.retired = a /\ n.ended = m.ended /\ n.reset = FALSE /\ n.session = m.session
    BY <2>1, <2>2 DEF Member
  <2>4. Agrees(n, a) /\ Accounts(n, a) /\ Settled(n)
    BY <1>1, <2>2, <2>3 DEF Agrees, Accounts, Settled
  <2> QED  BY <1>1, <1>4, <2>3, <2>4 DEF n
<1>5. CASE r.event = None
  <2>1. ~Releases(m, r)
    BY <1>1, <1>5 DEF Releases
  <2>2. CASE m.active = None /\ ~m.reset /\ a # m.retired
    <3>1. n = [m EXCEPT !.proposed = a]
      BY <1>1, <1>5, <2>1, <2>2 DEF AppliedTo
    <3> HIDE DEF n
    <3>2. /\ n \in Member /\ n.active = None /\ n.proposed = a
          /\ n.retired = m.retired /\ n.ended = m.ended /\ n.reset = m.reset
          /\ n.ready = m.ready /\ n.session = m.session
      BY <1>1, <2>2, <3>1 DEF Member
    <3>3. Agrees(n, a) /\ (Tells(r) => Accounts(n, a))
      BY <1>1, <2>2, <3>2 DEF Agrees, Accounts
    <3>4. (Covers(m, a) => Covers(n, a)) /\ (IsPending(n) <=> IsPending(m))
      BY <2>2, <3>2 DEF Covers, IsPending
    <3> QED  BY <1>1, <1>5, <3>2, <3>3, <3>4 DEF n
  <2>3. CASE ~(m.active = None /\ ~m.reset /\ a # m.retired)
    <3>1. n = m
      BY <1>1, <1>5, <2>1, <2>3 DEF AppliedTo
    <3> HIDE DEF n
    <3> QED  BY <1>1, <1>5, <3>1 DEF n
  <2> QED  BY <2>2, <2>3
<1> QED  BY <1>1, <1>2, <1>3, <1>4, <1>5

LEMMA CheckedKeeps ==
    ASSUME NEW r \in Requests, NEW m \in Member,
           Agrees(m, r.attempt), Tells(r) => Accounts(m, r.attempt)
    PROVE  LET n == CheckedFor(m, r) IN
           /\ n \in Member /\ n.session = m.session /\ Agrees(n, r.attempt)
           /\ n = m \/ (r.state = "connecting" /\ n.ended)
           /\ m.ended => n.ended
           /\ IsPending(n) <=> IsPending(m)
<1> DEFINE a == r.attempt
           n == CheckedFor(m, r)
<1>1. CASE ~(r.state = "connecting" /\ m.active # a /\ a # m.retired)
  BY <1>1 DEF CheckedFor
<1>2. CASE r.state = "connecting" /\ m.active # a /\ a # m.retired
  <2>1. n = [m EXCEPT !.reset = TRUE] /\ m.ended
    BY <1>2 DEF CheckedFor, Tells, Accounts
  <2> HIDE DEF n
  <2>2. /\ n \in Member /\ n.active = m.active /\ n.proposed = m.proposed
        /\ n.retired = m.retired /\ n.ended = m.ended /\ n.ready = m.ready
        /\ n.session = m.session
    BY <2>1 DEF Member
  <2>3. Agrees(n, a) /\ (IsPending(n) <=> IsPending(m))
    BY <2>1, <2>2 DEF Agrees, IsPending
  <2> QED  BY <1>2, <2>1, <2>2, <2>3 DEF n
<1> QED  BY <1>1, <1>2

\* The exchange and its reply.
LEMMA ConcludesKeeps ==
    ASSUME NEW r \in Requests, NEW m \in Member, NEW n, NEW reply, NEW now \in Nat,
           Concludes(n, reply, m, r, now), r.event = "lost" => r.state = "offline",
           Agrees(m, r.attempt), Tells(r) => Accounts(m, r.attempt)
    PROVE  LET a == r.attempt IN
           /\ n.session = m.session /\ Agrees(n, a)
           /\ Tells(r) => Accounts(n, a)
           /\ r.state = "connecting" /\ r.event = None =>
                 /\ Covers(m, a) => Covers(n, a)
                 /\ IsPending(m) => n.ended \/ IsPending(n)
           /\ r.event = "lost" => Settled(n)
           /\ r.event = "ready" => n.ended \/ reply.cancel = a \/ ~IsPending(n)
           /\ Tells(r) /\ r.event = None /\ ~IsPending(m) => ~IsPending(n)
           /\ reply.ended = n.ended
           /\ reply.grant # None => ~n.ended /\ n.active = reply.grant /\ reply.grant = a
           /\ reply.cancel # None => n.active = reply.cancel /\ reply.cancel = a /\ IsPending(n)
<1> DEFINE a  == r.attempt
           m1 == Expired(m, now)
           m2 == AppliedTo(m1, r)
           m3 == CheckedFor(m2, r)
           stale == Stale(m1, r, now)
<1>1. /\ a \in Attempts /\ a # None /\ r.event \in {None, "ready", "lost"}
      /\ None \notin {"ready", "lost"} /\ n \in Member
  BY RequestFields, RecoveryConstants DEF Concludes
<1>2. /\ m1 \in Member /\ Carries(m1, m, a)
      /\ IsPending(m1) <=> IsPending(m)
      /\ IsPending(m1) /\ now >= m1.deadline => m1.reset
  <2>1. Drifts(m1, m) /\ m1 \in Member
    BY ExpiredDrifts
  <2>2. Carries(m1, m, a)
    BY <1>1, <2>1, DriftCarries
  <2> QED  BY <2>1, <2>2, ExpiredDrifts
<1>3. /\ reply.ended = n.ended
      /\ reply.cancel = IF n.reset /\ IsPending(n) THEN n.active ELSE None
      /\ reply.grant # None => ~n.ended /\ n.active = reply.grant
  BY DEF Concludes
<1>4. Tells(r) => Accounts(m1, a)
  BY <1>2 DEF Carries
<1>5. CASE stale
  <2>1. n = m1 /\ m1.session = m.session
    BY <1>5, ExpiredDrifts DEF Concludes
  <2> HIDE DEF m1
  <2>2. r.event # None => m1.active # a \/ (m1.reset /\ IsPending(m1))
    BY <1>1, <1>2, <1>5 DEF Stale, IsPending, Carries, Agrees
  <2>3. Agrees(n, a) /\ (Tells(r) => Accounts(n, a))
    BY <1>2, <1>4, <2>1 DEF Carries
  <2>4. r.event = "lost" => Settled(n)
    <3>1. SUFFICES ASSUME r.event = "lost", ~m1.ended PROVE FALSE
      BY <2>1 DEF Settled
    <3>2. m1.active = a \/ m1.retired = a
      BY <1>1, <1>4, <3>1 DEF Tells, Accounts
    <3> QED  BY <1>1, <1>2, <1>5, <3>1, <3>2 DEF Stale, Releases, Carries, Agrees
  <2>5. r.event = "ready" => n.ended \/ reply.cancel = a \/ ~IsPending(n)
    BY <1>1, <1>2, <1>3, <2>1, <2>2 DEF Carries, Agrees, IsPending
  <2>6. n.active # None => n.active = a
    BY <2>3 DEF Agrees
  <2> QED  BY <1>1, <1>2, <1>3, <2>1, <2>3, <2>4, <2>5, <2>6 DEF Carries
<1>6. CASE ~stale
  <2>1. Drifts(n, m3)
    BY <1>6 DEF Concludes
  <2>2. Agrees(m1, a)
    BY <1>2 DEF Carries
  <2> HIDE DEF m1
  <2>3. /\ m2 \in Member /\ m2.session = m1.session /\ Agrees(m2, a)
        /\ Tells(r) => Accounts(m2, a)
        /\ r.event = None /\ Covers(m1, a) => Covers(m2, a)
        /\ r.event = None => (IsPending(m2) <=> IsPending(m1))
        /\ r.event = "lost" => Settled(m2)
        /\ r.event = "ready" => ~IsPending(m2)
    BY <1>2, <1>4, <1>6, <2>2, AppliedKeeps
  <2> HIDE DEF m2
  <2>4. /\ m3 \in Member /\ m3.session = m2.session /\ Agrees(m3, a)
        /\ m3 = m2 \/ (r.state = "connecting" /\ m3.ended)
        /\ m2.ended => m3.ended
        /\ IsPending(m3) <=> IsPending(m2)
    BY <2>3, CheckedKeeps
  <2> HIDE DEF m3
  <2>5. Carries(n, m3, a)
    BY <1>1, <2>1, <2>4, DriftCarries
  <2>6. Tells(r) => Accounts(m3, a)
    BY <2>3, <2>4 DEF Accounts
  <2>7. ASSUME r.event = None, Covers(m1, a) PROVE Covers(m3, a)
    BY <2>3, <2>4, <2>7 DEF Covers
  <2>8. r.event = "lost" => Settled(n)
    BY <2>3, <2>4, <2>5 DEF Carries, Settled
  <2>9. Tells(r) /\ ~IsPending(m3) => ~IsPending(n)
    BY <2>5, <2>6 DEF Carries
  <2>10. r.event = "ready" => Tells(r)
    BY <1>1 DEF Tells
  <2>11. n.active # None => n.active = a
    BY <2>5 DEF Carries, Agrees
  <2>12. IsPending(n) => n.active # None
    BY DEF IsPending
  <2>13. m1.session = m.session /\ n.session = m3.session
    BY <2>1, ExpiredDrifts DEF Drifts, m1
  <2> QED  BY <1>1, <1>2, <1>3, <2>3, <2>4, <2>5, <2>6, <2>7, <2>8, <2>9, <2>10, <2>11, <2>12, <2>13 DEF Carries
<1> QED  BY <1>5, <1>6

-----------------------------------------------------------------------------
(* The theorem.                                                            *)

LeaseInv == RecoveryInv /\ AllTied(s)

\* d is a next state of c in which what was stopped is stopped or over.
Stops(d, c) ==
    /\ AllTied(d)
    /\ \A x \in DOMAIN c.members \cap DOMAIN d.members, a \in Attempts :
          Held(c.members[x], a) => Stopped(d.members[x], a)

LEMMA LeaseInit == Init => AllTied(s)
BY DEF Init, NewSessionRecovery, AllTied

LEMMA LeaseStep == LeaseInv /\ [Next]_vars => Stops(s', s)
<1> SUFFICES ASSUME LeaseInv, [Next]_vars PROVE Stops(s', s)
  OBVIOUS
<1> USE TimesAreNat
<1>1. Sound(s) /\ AllTied(s)
  BY DEF LeaseInv, RecoveryInv, TypeOK, Bookkeeping, PendingBound, Sound
<1>2. ASSUME NEW d, Obeys(d, s) PROVE Stops(d, s)
  BY <1>2 DEF Obeys, Stops, Stopped
<1>3. CASE UNCHANGED vars
  BY <1>1, <1>3 DEF vars, Stops, Stopped
<1>4. ASSUME NEW r \in Requests, NEW now \in Times, HandleRequest(r, now)
      PROVE  Stops(s', s)
  BY <1>1, <1>4, ExchangeStops DEF HandleRequest, Stops
<1>5. ASSUME NEW x \in Clients, RemoveClient(x)
      PROVE  Stops(s', s)
  <2>1. s'.members = [y \in DOMAIN s.members \ {x} |-> s.members[y]]
    BY <1>1, <1>5 DEF RemoveClient, Remove, Sound, IsCoordinator
  <2> QED  BY <1>1, <2>1 DEF Stops, Stopped, AllTied
<1>6. ASSUME NEW now \in Times, Tick(now)
      PROVE  Stops(s', s)
  <2> DEFINE c == Admit(s, now)
  <2>1. Sound(c) /\ Obeys(c, s)
    BY <1>1, AdmitSound, AdmitObeys
  <2>2. s' = IF CanProbe(c, now) THEN BeginProbe(c, now) ELSE c
    BY <1>6 DEF Tick
  <2> HIDE DEF c
  <2>3. Obeys(BeginProbe(c, now), c)
    <3> DEFINE d == BeginProbe(c, now)
    <3>1. /\ DOMAIN d.members = DOMAIN c.members
          /\ \A x \in DOMAIN c.members : d.members[x] = [c.members[x] EXCEPT !.observed = TRUE]
      BY <2>1 DEF BeginProbe, Sound, IsCoordinator
    <3> HIDE DEF d
    <3>2. Obeys(d, c)
      BY <2>1, <3>1, ObservedObeys DEF Obeys
    <3> QED  BY <3>2 DEF d
  <2>4. Obeys(BeginProbe(c, now), s)
    BY <2>1, <2>3, ObeysComposes
  <2> QED  BY <1>2, <2>1, <2>2, <2>4
<1>7. ASSUME NEW began \in probes, NEW now \in Times, ProbeSucceeds(began, now)
      PROVE  Stops(s', s)
  <2>1. PICK inventory \in Listings(began, host) : s' = FinishProbe(s, now, inventory)
    BY <1>7 DEF ProbeSucceeds
  <2>2. inventory \in SUBSET Sessions
    BY DEF Listings
  <2> QED  BY <1>1, <2>1, <2>2, FinishProbeStops DEF Stops
<1>8. ASSUME NEW began \in probes, NEW now \in Times, ProbeFails(began, now)
      PROVE  Stops(s', s)
  <2>1. /\ DOMAIN s'.members = DOMAIN s.members
        /\ \A x \in DOMAIN s.members : s'.members[x] = [s.members[x] EXCEPT !.observed = FALSE]
    BY <1>1, <1>8 DEF ProbeFails, FailProbe, Sound, IsCoordinator
  <2> QED  BY <1>1, <1>2, <2>1, ObservedObeys
<1>9. ASSUME NEW x \in Mortal, HostStep(x)
      PROVE  Stops(s', s)
  <2>1. s' = s
    BY <1>9 DEF HostStep
  <2> QED  BY <1>1, <2>1 DEF Stops, Stopped
<1> QED  BY <1>3, <1>4, <1>5, <1>6, <1>7, <1>8, <1>9 DEF Next

LEMMA LeaseInvAlways == Spec => []LeaseInv
<1>1. Init => LeaseInv
  BY InitInv, LeaseInit DEF LeaseInv
<1>2. LeaseInv /\ [Next]_vars => LeaseInv'
  <2> SUFFICES ASSUME LeaseInv, [Next]_vars PROVE RecoveryInv' /\ AllTied(s')
    BY DEF LeaseInv, AllTied, Tied
  <2> QED  BY StepInv, LeaseStep DEF LeaseInv, Stops
<1> QED  BY <1>1, <1>2, PTL DEF Spec

\* A pending attempt that was told to stop stays pending and stopped, whatever
\* the clock does and whatever its helper still reports, until its loss is
\* reported, its session ends or its member leaves: for any number of
\* helpers, requests and clocks a late readiness never revives an expired lease.
THEOREM ExpiredStaysExpiredHolds == Spec => ExpiredStaysExpired
<1> DEFINE A == \A x \in DOMAIN s.members :
                   LET m == s.members[x] IN
                   IsPending(m) /\ m.reset /\ x \in DOMAIN s'.members
                      => LET n == s'.members[x] IN
                         \/ n.active = m.active /\ ~n.ready /\ n.reset
                         \/ n.active = None /\ (n.retired = m.active \/ n.ended)
<1>1. LeaseInv /\ [Next]_vars => A
  <2> SUFFICES ASSUME LeaseInv, [Next]_vars,
                      NEW x \in DOMAIN s.members, x \in DOMAIN s'.members,
                      IsPending(s.members[x]), s.members[x].reset
               PROVE  LET m == s.members[x]
                          n == s'.members[x]
                      IN \/ n.active = m.active /\ ~n.ready /\ n.reset
                         \/ n.active = None /\ (n.retired = m.active \/ n.ended)
    OBVIOUS
  <2> DEFINE m == s.members[x]
             n == s'.members[x]
  <2>1. m \in Member /\ Tied(m)
    BY DEF LeaseInv, RecoveryInv, TypeOK, IsCoordinator, IsMap, AllTied
  <2>2. m.active \in Attempts /\ Held(m, m.active)
    BY <2>1 DEF Member, IsPending, Tied, Held
  <2>3. Stopped(n, m.active)
    BY <2>2, LeaseStep DEF Stops
  <2> QED  BY <2>3 DEF Stopped, Held, Over
<1>2. LeaseInv /\ [Next]_vars => [A]_vars
  BY <1>1
<1> QED  BY <1>2, LeaseInvAlways, PTL DEF Spec, ExpiredStaysExpired

=============================================================================
