------------------------ MODULE CheckpointStoreProofs ------------------------
(***************************************************************************)
(* Proofs about the checkpoint store for every number of boots, captures,  *)
(* processes and sessions: no crash leaves a torn checkpoint, a capture    *)
(* that reported success is never lost, pruning changes nothing a resume   *)
(* selects, and a session's placement is retained while the clock does not *)
(* go back.                                                                *)
(***************************************************************************)
EXTENDS CheckpointStore, WellFoundedInduction, TLAPS

\* The checkpoints that may be published.
Synced == {f \in Files : f.synced}

-----------------------------------------------------------------------------
(* Lemmas about the operators.                                             *)

LEMMA Constants ==
    /\ MaxBoots \in Nat \ {0} /\ MaxTime \in Nat \ {0}
    /\ None \notin Files /\ None # Torn /\ Torn \notin Files
BY StoreConstants DEF Torn, Files, Times

LEMMA BootsInOrder == Boots \subseteq Nat /\ Times \subseteq Nat \ {0}
BY Constants DEF Boots, Times

\* A set of usable checkpoints has a newest one.
LEMMA NewestExists ==
    ASSUME NEW dir, NEW S \in SUBSET Boots, NEW k \in S,
           \A b \in S : dir[b].at \in Times
    PROVE  \E b \in S : IsNewest(dir, b, S)
<1> DEFINE R == OpToRel(<, Nat)
           Age(b) == MaxTime - dir[b].at
           Ages == {Age(b) : b \in S}
<1>1. \A b \in S : Age(b) \in Nat
  BY Constants DEF Times
<1>2. Ages \subseteq Nat /\ Age(k) \in Ages
  BY <1>1
<1>3. \E a \in Ages : \A d \in Ages : ~(<<d, a>> \in R)
  <2> HIDE DEF R, Ages, Age
  <2>1. IsWellFoundedOn(R, Nat)
    BY NatLessThanWellFounded DEF R
  <2> QED  BY <1>2, <2>1, WFMin
<1>4. \A i, j \in Nat : <<j, i>> \in R <=> j < i
  BY DEF OpToRel
<1> HIDE DEF R
<1>5. PICK b \in S : \A d \in Ages : ~(<<d, Age(b)>> \in R)
  BY <1>3
<1>6. \A c \in S : dir[c].at <= dir[b].at
  <2> TAKE c \in S
  <2>1. ~(Age(c) < Age(b))
    BY <1>1, <1>4, <1>5
  <2> QED  BY <2>1, Constants DEF Times
<1> QED  BY <1>6 DEF IsNewest

\* What is carried over to a new checkpoint is a reading, or 0.
LEMMA CarriedIsReading ==
    ASSUME NEW dir \in [Boots -> Files \cup {Torn, None}], NEW x
    PROVE  Carried(dir, x) \in 0..MaxTime
<1>1. CASE Placing(dir, x) = {}
  BY <1>1, Constants DEF Carried
<1>2. CASE Placing(dir, x) # {}
  <2> DEFINE S == Placing(dir, x)
  <2>1. \A b \in S : b \in Boots /\ dir[b] \in Files /\ x \in DOMAIN dir[b].placed
    BY DEF Placing, Valid, Usable
  <2>2. \A b \in S : dir[b].at \in Times
    BY <2>1 DEF Files
  <2>3. S \in SUBSET Boots
    BY <2>1
  <2>4. PICK k \in S : TRUE
    BY <1>2
  <2>5. \E b \in Boots : IsNewest(dir, b, S)
    <3> HIDE DEF S
    <3> QED  BY <2>2, <2>3, <2>4, NewestExists
  <2> DEFINE n == CHOOSE b \in Boots : IsNewest(dir, b, S)
  <2>6. n \in S
    <3>1. IsNewest(dir, n, S)
      BY <2>5
    <3> QED  BY <3>1 DEF IsNewest
  <2>7. dir[n].placed[x] \in 0..MaxTime
    <3> HIDE DEF n
    <3>1. PICK active \in SUBSET Sessions : dir[n].placed \in [active -> 0..MaxTime]
      BY <2>1, <2>6 DEF Files
    <3> QED  BY <2>1, <2>6, <3>1
  <2> QED  BY <1>2, <2>7 DEF Carried
<1> QED  BY <1>1, <1>2

\* What Prune lists is older than a checkpoint of an earlier boot it keeps.
LEMMA ExpiredIsSuperseded ==
    ASSUME NEW dir \in [Boots -> Synced \cup {None}], NEW now \in Boots, NEW cutoff \in Nat,
           \A b \in Boots : b > now => dir[b] = None,
           NEW b \in Expired(dir, now, cutoff)
    PROVE  /\ b \in 1..(now - 1) /\ dir[b] # None
           /\ \E c \in (1..(now - 1)) \ Expired(dir, now, cutoff) :
                 dir[c] # None /\ dir[b].at < dir[c].at
<1> DEFINE S == Prior(dir, now)
<1>1. \A c \in S : c \in 1..(now - 1) /\ dir[c] # None /\ dir[c].at \in Times
  BY Constants DEF Prior, Valid, Usable, Boots, Synced, Files
<1>2. b \in S
  BY DEF Expired
<1>3. S \in SUBSET Boots
  BY DEF Prior, Valid
<1>4. PICK c \in S : IsNewest(dir, c, S)
  <2> HIDE DEF S
  <2> QED  BY <1>1, <1>2, <1>3, NewestExists
<1>5. c \notin Expired(dir, now, cutoff)
  BY <1>4 DEF Expired
<1>6. ~IsNewest(dir, b, S)
  BY DEF Expired
<1>7. \A d \in S : dir[d].at \in Nat
  BY <1>1, BootsInOrder
<1> HIDE DEF S
<1>8. PICK d \in S : dir[b].at < dir[d].at
  BY <1>2, <1>6, <1>7 DEF IsNewest
<1>9. dir[b].at < dir[c].at
  <2>1. dir[d].at <= dir[c].at
    BY <1>4 DEF IsNewest
  <2> QED  BY <1>2, <1>7, <1>8, <2>1
<1> QED  BY <1>1, <1>2, <1>5, <1>9

-----------------------------------------------------------------------------
(* The inductive invariant.  That a capture survives depends on the lock   *)
(* (one process is at work, so what it read stays true), on what that      *)
(* process is about to do, and on the files of earlier boots being settled *)
(* on the disk before pruning counts on them.                              *)

\* Nothing torn or unsynced is ever published.
AllSynced ==
    /\ files \in [Boots -> Synced \cup {None}]
    /\ durable \in [Boots -> SUBSET (Synced \cup {None})]

\* The lock is held by one process at a time.
Alone == \A p, q \in Procs : ~At(p, "idle") /\ ~At(q, "idle") => p = q

\* Later boots have no file, and what is seen of an earlier boot is settled.
Settled ==
    \A b \in Boots :
       /\ b > boot => files[b] = None /\ durable[b] = {None}
       /\ b < boot /\ files[b] # None => durable[b] = {files[b]}

Writing == {"written", "synced", "renamed"}

Monotonic == ClockMayGoBack = FALSE

\* A checkpoint being written was observed last, and is synced before it is
\* published; what is to be removed is superseded by what is not.
Fit(x) ==
    /\ x.pc \in Writing => /\ x.checkpoint \in Files
                           /\ x.checkpoint.at \in taken
                           /\ Monotonic => \A t \in taken : t <= x.checkpoint.at
    /\ x.pc \in {"synced", "renamed"} => x.checkpoint.synced
    /\ x.pc = "renamed" => files[boot] = x.checkpoint
    /\ x.pc = "pruning" =>
          \A b \in x.doomed :
             /\ files[b] # None
             /\ \E c \in (1..(boot - 1)) \ x.doomed :
                   files[c] # None /\ files[b].at < files[c].at

AllFit == \A p \in Procs : Fit(proc[p])

AckedTaken == \A b \in Boots : acked[b] \in taken \cup {0}

\* Without a monotonic clock a later capture may hide an earlier one.
NoneLost == Monotonic => AckedSurvives

StoreInv ==
    TypeOK /\ AllSynced /\ Alone /\ Settled /\ AllFit /\ AckedTaken /\ NoneLost

LEMMA InitInv == Init => StoreInv
<1> SUFFICES ASSUME Init PROVE StoreInv
  OBVIOUS
<1> USE DEF Init
<1>1. TypeOK
  BY Constants DEF TypeOK, Boots, Times, Idle, Process
<1>2. AllSynced /\ Settled /\ AckedTaken /\ NoneLost
  BY DEF AllSynced, Settled, AckedTaken, NoneLost, AckedSurvives
<1>3. Alone /\ AllFit
  BY DEF Alone, AllFit, At, Idle, Fit, Writing
<1> QED  BY <1>1, <1>2, <1>3 DEF StoreInv

\* A process goes on, or stops, and nothing else changes.
LEMMA MoveKeepsInv ==
    ASSUME StoreInv, NEW p \in Procs, NEW x \in Process, Goes(p, x), Fit(x),
           x.pc = "idle" \/ \A q \in Procs : At(q, "idle") \/ q = p,
           UNCHANGED <<boot, taken, files, durable, acked>>
    PROVE  StoreInv'
<1>1. /\ proc \in [Procs -> Process] /\ proc' = [proc EXCEPT ![p] = x]
      /\ Process' = Process
  BY DEF StoreInv, TypeOK, Goes, Process
<1>2. TypeOK'
  BY <1>1 DEF StoreInv, TypeOK
<1>3. AllSynced' /\ Settled' /\ AckedTaken' /\ NoneLost'
  BY DEF StoreInv, AllSynced, Settled, AckedTaken, NoneLost, AckedSurvives
<1>4. Alone'
  BY <1>1 DEF StoreInv, Alone, At
<1>5. AllFit'
  <2>1. \A y : Fit(y)' <=> Fit(y)
    BY DEF Fit
  <2>2. \A q \in Procs : proc'[q] = IF q = p THEN x ELSE proc[q]
    BY <1>1
  <2> QED  BY <2>1, <2>2 DEF StoreInv, AllFit, Fit, Writing
<1> QED  BY <1>2, <1>3, <1>4, <1>5 DEF StoreInv

-----------------------------------------------------------------------------
(* One lemma per step.                                                     *)

LEMMA AcquireKeepsInv ==
    ASSUME StoreInv, NEW p \in Procs, NEW command \in {"capture", "prune"}, Acquire(p, command)
    PROVE  StoreInv'
<1> DEFINE x == [Idle EXCEPT !.pc = command]
<1>1. x \in Process /\ Fit(x)
  BY DEF Idle, Process, Fit, Writing
<1> HIDE DEF x
<1>2. Goes(p, x) /\ \A q \in Procs : At(q, "idle")
  BY DEF Acquire, x
<1>3. UNCHANGED <<boot, taken, files, durable, acked>>
  BY DEF Acquire
<1> QED  BY <1>1, <1>2, <1>3, MoveKeepsInv

LEMMA StopKeepsInv ==
    ASSUME StoreInv, NEW p \in Procs, Stop(p)
    PROVE  StoreInv'
<1>1. Idle \in Process /\ Fit(Idle) /\ Idle.pc = "idle"
  BY DEF Idle, Process, Fit, Writing
<1>2. Goes(p, Idle) /\ UNCHANGED <<boot, taken, files, durable, acked>>
  BY DEF Stop
<1> QED  BY <1>1, <1>2, MoveKeepsInv

LEMMA SyncFileKeepsInv ==
    ASSUME StoreInv, NEW p \in Procs, SyncFile(p)
    PROVE  StoreInv'
<1> DEFINE x == [proc[p] EXCEPT !.pc = "synced", !.checkpoint.synced = TRUE]
           old == proc[p]
<1>1. old \in Process /\ Fit(old) /\ old.pc = "written"
  BY DEF StoreInv, TypeOK, AllFit, SyncFile, At
<1>2. old.checkpoint \in Files
  BY <1>1 DEF Fit, Writing
<1>3. /\ x.pc = "synced" /\ x.checkpoint \in Files /\ x.checkpoint.synced
      /\ x.checkpoint.at = old.checkpoint.at
      /\ x \in Process
  BY <1>1, <1>2 DEF Process, Files
<1>4. Fit(x)
  <2> HIDE DEF x
  <2> QED  BY <1>1, <1>3 DEF Fit, Writing
<1>5. Goes(p, x) /\ UNCHANGED <<boot, taken, files, durable, acked>>
  BY DEF SyncFile
<1>6. \A q \in Procs : At(q, "idle") \/ q = p
  BY <1>1 DEF StoreInv, Alone, At
<1> HIDE DEF x
<1> QED  BY <1>3, <1>4, <1>5, <1>6, MoveKeepsInv

LEMMA ListExpiredKeepsInv ==
    ASSUME StoreInv, NEW p \in Procs, ListExpired(p)
    PROVE  StoreInv'
<1>1. PICK cutoff \in 1..(MaxTime + 1) :
         Goes(p, [Idle EXCEPT !.pc = "pruning", !.doomed = Expired(files, boot, cutoff)])
  BY DEF ListExpired
<1> DEFINE doomed == Expired(files, boot, cutoff)
           x == [Idle EXCEPT !.pc = "pruning", !.doomed = doomed]
<1>2. /\ boot \in Boots /\ cutoff \in Nat
      /\ files \in [Boots -> Synced \cup {None}]
      /\ \A b \in Boots : b > boot => files[b] = None
  BY Constants DEF StoreInv, TypeOK, AllSynced, Settled
<1>3. \A b \in doomed :
         /\ b \in 1..(boot - 1) /\ files[b] # None
         /\ \E c \in (1..(boot - 1)) \ doomed :
               files[c] # None /\ files[b].at < files[c].at
  BY <1>2, ExpiredIsSuperseded
<1> HIDE DEF doomed
<1>4. x \in Process /\ Fit(x)
  BY <1>3 DEF Idle, Process, Fit, Writing
<1>5. Goes(p, x) /\ UNCHANGED <<boot, taken, files, durable, acked>>
  BY <1>1 DEF ListExpired, doomed
<1>6. \A q \in Procs : At(q, "idle") \/ q = p
  BY DEF ListExpired, StoreInv, Alone, At
<1> HIDE DEF x
<1> QED  BY <1>4, <1>5, <1>6, MoveKeepsInv

LEMMA SyncRemovedKeepsInv ==
    ASSUME StoreInv, NEW p \in Procs, SyncRemoved(p)
    PROVE  StoreInv'
<1>1. /\ proc' = [proc EXCEPT ![p] = Idle] /\ proc \in [Procs -> Process]
      /\ UNCHANGED <<boot, taken, files, acked>>
      /\ durable' = durable \/ durable' = [b \in Boots |-> {files[b]}]
  BY DEF SyncRemoved, Goes, StoreInv, TypeOK
<1>2. CASE durable' = durable
  <2>1. Idle \in Process /\ Fit(Idle) /\ Idle.pc = "idle"
    BY DEF Idle, Process, Fit, Writing
  <2> QED  BY <1>1, <1>2, <2>1, MoveKeepsInv DEF Goes
<1>3. CASE durable' = [b \in Boots |-> {files[b]}]
  <2>1. Idle \in Process /\ Process' = Process
    BY <1>1 DEF Idle, Process
  <2>2. TypeOK'
    BY <1>1, <1>3, <2>1 DEF StoreInv, TypeOK
  <2>3. AllSynced' /\ Settled' /\ AckedTaken'
    BY <1>1, <1>3 DEF StoreInv, AllSynced, Settled, AckedTaken, TypeOK
  <2>4. NoneLost'
    BY <1>1, <1>3 DEF StoreInv, TypeOK, NoneLost, AckedSurvives
  <2>5. Alone'
    BY <1>1 DEF StoreInv, Alone, At, Idle
  <2>6. AllFit'
    <3>1. \A y : Fit(y)' <=> Fit(y)
      BY <1>1 DEF Fit
    <3>2. \A q \in Procs : proc'[q] = IF q = p THEN Idle ELSE proc[q]
      BY <1>1
    <3> QED  BY <3>1, <3>2 DEF StoreInv, AllFit, Fit, Writing, Idle
  <2> QED  BY <2>2, <2>3, <2>4, <2>5, <2>6 DEF StoreInv
<1> QED  BY <1>1, <1>2, <1>3

LEMMA SucceedKeepsInv ==
    ASSUME StoreInv, NEW p \in Procs, Succeed(p)
    PROVE  StoreInv'
<1> DEFINE old == proc[p]
<1>1. /\ proc' = [proc EXCEPT ![p] = Idle] /\ proc \in [Procs -> Process]
      /\ UNCHANGED <<boot, taken, files>>
      /\ durable' = [b \in Boots |-> {files[b]}]
      /\ acked' = [acked EXCEPT ![boot] = old.checkpoint.at]
  BY DEF Succeed, Acknowledge, Goes, StoreInv, TypeOK
<1>2. old \in Process /\ Fit(old) /\ old.pc = "renamed"
  BY DEF StoreInv, TypeOK, AllFit, Succeed, At
<1>3. /\ old.checkpoint \in Files /\ files[boot] = old.checkpoint
      /\ old.checkpoint.at \in taken /\ old.checkpoint.at \in Times
  BY <1>2 DEF Fit, Writing, Files
<1> HIDE DEF old
<1>4. TypeOK'
  <2>1. Idle \in Process /\ Process' = Process
    BY <1>1 DEF Idle, Process
  <2>2. acked' \in [Boots -> 0..MaxTime]
    BY <1>1, <1>3, Constants DEF StoreInv, TypeOK, Times
  <2> QED  BY <1>1, <2>1, <2>2 DEF StoreInv, TypeOK
<1>5. AllSynced' /\ Settled'
  BY <1>1 DEF StoreInv, AllSynced, Settled, TypeOK
<1>6. AckedTaken'
  BY <1>1, <1>3 DEF StoreInv, AckedTaken, TypeOK
<1>7. NoneLost'
  <2> SUFFICES ASSUME Monotonic, NEW b \in Boots, acked'[b] # 0
               PROVE  \E c \in Boots : \A f \in durable'[c] : f # None /\ f.at >= acked'[b]
    BY DEF NoneLost, AckedSurvives
  <2>1. CASE b = boot
    <3>1. acked'[b] = files[boot].at /\ files[boot] # None /\ files[boot].at \in Nat
      BY <1>1, <1>3, <2>1, Constants, BootsInOrder DEF StoreInv, TypeOK
    <3> QED  BY <1>1, <2>1, <3>1
  <2>2. CASE b # boot
    BY <1>1, <2>2 DEF StoreInv, TypeOK, NoneLost, AckedSurvives
  <2> QED  BY <2>1, <2>2
<1>8. Alone'
  BY <1>1 DEF StoreInv, Alone, At, Idle
<1>9. AllFit'
  <2>1. \A y : Fit(y)' <=> Fit(y)
    BY <1>1 DEF Fit
  <2>2. \A q \in Procs : proc'[q] = IF q = p THEN Idle ELSE proc[q]
    BY <1>1
  <2> QED  BY <2>1, <2>2 DEF StoreInv, AllFit, Fit, Writing, Idle
<1> QED  BY <1>4, <1>5, <1>6, <1>7, <1>8, <1>9 DEF StoreInv

LEMMA RenameKeepsInv ==
    ASSUME StoreInv, NEW p \in Procs, Rename(p)
    PROVE  StoreInv'
<1> DEFINE old == proc[p]
           new == old.checkpoint
           x == [old EXCEPT !.pc = "renamed"]
<1>1. /\ proc' = [proc EXCEPT ![p] = x] /\ proc \in [Procs -> Process]
      /\ UNCHANGED <<boot, taken, acked>>
      /\ files' = [files EXCEPT ![boot] = new]
      /\ durable' = [durable EXCEPT ![boot] = durable[boot] \cup {new}]
  BY DEF Rename, Publish, Goes, StoreInv, TypeOK
<1>2. old \in Process /\ Fit(old) /\ old.pc = "synced"
  BY DEF StoreInv, TypeOK, AllFit, Rename, At
<1>3. /\ new \in Synced /\ new \in Files /\ new # None
      /\ new.at \in taken /\ new.at \in Times
      /\ Monotonic => \A t \in taken : t <= new.at
  BY <1>2, Constants DEF Fit, Writing, Files, Synced
<1>4. x \in Process /\ x.pc = "renamed" /\ x.checkpoint = new
  BY <1>2 DEF Process
<1>5. boot \in Boots /\ Process' = Process
  BY <1>1 DEF StoreInv, TypeOK, Process
<1> HIDE DEF new, x
<1>6. TypeOK'
  BY <1>1, <1>3, <1>4, <1>5 DEF StoreInv, TypeOK
<1>7. AllSynced'
  BY <1>1, <1>3, <1>5 DEF StoreInv, AllSynced
<1>8. Settled'
  BY <1>1, <1>5, BootsInOrder DEF StoreInv, TypeOK, Settled
<1>9. AckedTaken'
  BY <1>1 DEF StoreInv, AckedTaken
<1>10. NoneLost'
  <2> SUFFICES ASSUME Monotonic, NEW b \in Boots, acked[b] # 0
               PROVE  \E c \in Boots : \A f \in durable'[c] : f # None /\ f.at >= acked[b]
    BY <1>1 DEF NoneLost, AckedSurvives
  <2>1. PICK c \in Boots : \A f \in durable[c] : f # None /\ f.at >= acked[b]
    BY DEF StoreInv, NoneLost, AckedSurvives
  <2>2. new.at >= acked[b]
    BY <1>3, BootsInOrder DEF StoreInv, AckedTaken, TypeOK
  <2>3. \A f \in durable'[c] : f # None /\ f.at >= acked[b]
    BY <1>1, <1>3, <1>5, <2>1, <2>2 DEF StoreInv, TypeOK
  <2> QED  BY <2>3
<1>11. Alone'
  <2>1. ~At(p, "idle")
    BY <1>2 DEF At
  <2> QED  BY <1>1, <2>1 DEF StoreInv, Alone, At
<1>12. AllFit'
  <2>1. \A q \in Procs : proc'[q] = IF q = p THEN x ELSE proc[q]
    BY <1>1
  <2>2. \A q \in Procs : q # p => proc[q].pc = "idle"
    BY <1>2 DEF StoreInv, Alone, At
  <2> SUFFICES ASSUME NEW q \in Procs PROVE Fit(proc[q])'
    BY DEF AllFit
  <2>3. CASE q = p
    <3>1. files'[boot] = new /\ proc'[q] = x
      BY <1>1, <1>5, <2>1, <2>3 DEF StoreInv, TypeOK
    <3> QED  BY <1>1, <1>3, <1>4, <3>1 DEF Fit, Writing, Synced
  <2>4. CASE q # p
    BY <2>1, <2>2, <2>4 DEF Fit, Writing
  <2> QED  BY <2>3, <2>4
<1> QED  BY <1>6, <1>7, <1>8, <1>9, <1>10, <1>11, <1>12 DEF StoreInv

LEMMA ObserveKeepsInv ==
    ASSUME StoreInv, NEW p \in Procs, Observe(p)
    PROVE  StoreInv'
<1>1. PICK now \in Readings, active \in SUBSET Sessions : \E visible \in SUBSET active :
         /\ taken' = taken \cup {now}
         /\ Goes(p, [Idle EXCEPT !.pc = "written",
                                 !.checkpoint = [at |-> now, synced |-> FALSE,
                                                 placed |-> Inventory(files, now, active, visible)]])
  BY DEF Observe
<1>2. PICK visible \in SUBSET active :
         /\ taken' = taken \cup {now}
         /\ Goes(p, [Idle EXCEPT !.pc = "written",
                                 !.checkpoint = [at |-> now, synced |-> FALSE,
                                                 placed |-> Inventory(files, now, active, visible)]])
  BY <1>1
<1> DEFINE placed == Inventory(files, now, active, visible)
           new == [at |-> now, synced |-> FALSE, placed |-> placed]
           x == [Idle EXCEPT !.pc = "written", !.checkpoint = new]
<1>3. now \in Times /\ (Monotonic => taken = 1..(now - 1))
  BY <1>1 DEF Readings, Monotonic
<1>4. new \in Files
  <2>1. placed \in [active -> 0..MaxTime]
    <3>1. \A y \in active : (IF y \in visible THEN now ELSE Carried(files, y)) \in 0..MaxTime
      BY <1>3, Constants, CarriedIsReading DEF Times, StoreInv, TypeOK
    <3> QED  BY <3>1 DEF Inventory
  <2> HIDE DEF placed
  <2> QED  BY <1>3, <2>1 DEF Files
<1> HIDE DEF placed
<1>5. new.at = now
  OBVIOUS
<1> HIDE DEF new
<1>6. x \in Process /\ x.pc = "written" /\ x.checkpoint = new
  BY <1>4 DEF Idle, Process
<1>7. /\ proc' = [proc EXCEPT ![p] = x] /\ proc \in [Procs -> Process]
      /\ taken' = taken \cup {now}
      /\ UNCHANGED <<boot, files, durable, acked>>
      /\ Process' = Process
  BY <1>2 DEF Observe, Goes, StoreInv, TypeOK, Process, x, new, placed
<1> HIDE DEF x
<1>8. TypeOK'
  BY <1>3, <1>6, <1>7 DEF StoreInv, TypeOK
<1>9. AllSynced' /\ Settled' /\ AckedTaken' /\ NoneLost'
  BY <1>7 DEF StoreInv, AllSynced, Settled, AckedTaken, NoneLost, AckedSurvives
<1>10. \A q \in Procs : q # p => proc[q].pc = "idle"
  BY DEF Observe, StoreInv, Alone, At
<1>11. Alone'
  BY <1>7, <1>10 DEF Alone, At
<1>12. AllFit'
  <2> SUFFICES ASSUME NEW q \in Procs PROVE Fit(proc[q])'
    BY DEF AllFit
  <2>1. proc'[q] = IF q = p THEN x ELSE proc[q]
    BY <1>7
  <2>2. CASE q = p
    <3>1. now \in taken' /\ (Monotonic => \A t \in taken' : t <= now)
      BY <1>3, <1>7, BootsInOrder
    <3> QED  BY <1>4, <1>5, <1>6, <2>1, <2>2, <3>1 DEF Fit, Writing
  <2>3. CASE q # p
    BY <1>10, <2>1, <2>3 DEF Fit, Writing
  <2> QED  BY <2>2, <2>3
<1> QED  BY <1>8, <1>9, <1>11, <1>12 DEF StoreInv

LEMMA RemoveKeepsInv ==
    ASSUME StoreInv, NEW p \in Procs, Remove(p)
    PROVE  StoreInv'
<1> DEFINE old == proc[p]
<1>1. PICK r \in old.doomed :
         /\ Publish(r, None)
         /\ Goes(p, [old EXCEPT !.doomed = @ \ {r}, !.removed = TRUE])
  BY DEF Remove
<1> DEFINE x == [old EXCEPT !.doomed = @ \ {r}, !.removed = TRUE]
<1>2. old \in Process /\ Fit(old) /\ old.pc = "pruning"
  BY DEF StoreInv, TypeOK, AllFit, Remove, At
<1>3. /\ proc' = [proc EXCEPT ![p] = x] /\ proc \in [Procs -> Process]
      /\ files' = [files EXCEPT ![r] = None]
      /\ durable' = [durable EXCEPT ![r] = durable[r] \cup {None}]
      /\ UNCHANGED <<boot, taken, acked>>
      /\ Process' = Process
  BY <1>1 DEF Remove, Publish, Goes, StoreInv, TypeOK, Process
<1>4. x \in Process /\ x.pc = "pruning" /\ x.doomed = old.doomed \ {r}
  BY <1>2 DEF Process
<1>5. boot \in Boots /\ r \in 1..(boot - 1) /\ 1..(boot - 1) \subseteq Boots
      /\ old.doomed \subseteq 1..(boot - 1)
  BY <1>2, Constants DEF StoreInv, TypeOK, Process, Boots
<1>6. PICK s \in (1..(boot - 1)) \ old.doomed :
         files[r] # None /\ files[s] # None /\ files[r].at < files[s].at
  BY <1>2 DEF Fit
<1> HIDE DEF old, x
<1>7. /\ \A b \in Boots : files'[b] = IF b = r THEN None ELSE files[b]
      /\ \A b \in Boots : durable'[b] = IF b = r THEN durable[r] \cup {None} ELSE durable[b]
  BY <1>3, <1>5 DEF StoreInv, TypeOK
<1>8. TypeOK'
  BY <1>3, <1>4, <1>5, <1>7 DEF StoreInv, TypeOK
<1>9. AllSynced'
  BY <1>3, <1>5 DEF StoreInv, AllSynced
<1>10. Settled'
  BY <1>3, <1>5, <1>7, BootsInOrder DEF StoreInv, Settled
<1>11. AckedTaken'
  BY <1>3 DEF StoreInv, AckedTaken
<1>12. NoneLost'
  <2> SUFFICES ASSUME Monotonic, NEW b \in Boots, acked[b] # 0
               PROVE  \E c \in Boots : \A f \in durable'[c] : f # None /\ f.at >= acked[b]
    BY <1>3 DEF NoneLost, AckedSurvives
  <2>1. PICK c \in Boots : \A f \in durable[c] : f # None /\ f.at >= acked[b]
    BY DEF StoreInv, NoneLost, AckedSurvives
  <2>2. CASE c # r
    BY <1>7, <2>1, <2>2
  <2>3. CASE c = r
    <3>1. files[r].at >= acked[b]
      BY <1>5, <2>1, <2>3 DEF StoreInv, TypeOK
    <3>2. s \in Boots /\ s # r /\ durable[s] = {files[s]}
      BY <1>1, <1>5, <1>6, BootsInOrder DEF StoreInv, Settled
    <3>3. files[s] \in Synced /\ files[r] \in Synced
      BY <1>5, <1>6, <3>2 DEF StoreInv, AllSynced
    <3>4. files[s].at \in Nat /\ files[r].at \in Nat
      BY <3>3, BootsInOrder DEF Synced, Files
    <3>5. acked[b] \in Nat
      BY Constants DEF StoreInv, TypeOK
    <3>6. durable'[s] = {files[s]}
      BY <1>7, <3>2
    <3> QED  BY <1>6, <3>1, <3>2, <3>4, <3>5, <3>6
  <2> QED  BY <2>2, <2>3
<1>13. \A q \in Procs : q # p => proc[q].pc = "idle"
  BY <1>2 DEF StoreInv, Alone, At, old
<1>14. Alone'
  BY <1>3, <1>13 DEF Alone, At
<1>15. AllFit'
  <2> SUFFICES ASSUME NEW q \in Procs PROVE Fit(proc[q])'
    BY DEF AllFit
  <2>1. proc'[q] = IF q = p THEN x ELSE proc[q]
    BY <1>3
  <2>2. CASE q = p
    <3>1. ASSUME NEW b \in x.doomed
          PROVE  /\ files'[b] # None
                 /\ \E c \in (1..(boot - 1)) \ x.doomed :
                       files'[c] # None /\ files'[b].at < files'[c].at
      <4>1. b \in old.doomed /\ b # r /\ b \in Boots
        BY <1>4, <1>5, <3>1
      <4>2. PICK c \in (1..(boot - 1)) \ old.doomed :
               files[b] # None /\ files[c] # None /\ files[b].at < files[c].at
        BY <1>2, <4>1 DEF Fit
      <4>3. c \in (1..(boot - 1)) \ x.doomed /\ c # r /\ c \in Boots
        BY <1>1, <1>4, <1>5, <4>2
      <4> QED  BY <1>7, <4>1, <4>2, <4>3
    <3> QED  BY <1>3, <1>4, <2>1, <2>2, <3>1 DEF Fit, Writing
  <2>3. CASE q # p
    BY <1>13, <2>1, <2>3 DEF Fit, Writing
  <2> QED  BY <2>2, <2>3
<1> QED  BY <1>8, <1>9, <1>10, <1>11, <1>12, <1>14, <1>15 DEF StoreInv

\* A crash undoes what was not settled, and tears nothing.
LEMMA RebootKeepsInv ==
    ASSUME StoreInv, Reboot
    PROVE  StoreInv'
<1>1. PICK left \in [Boots -> UNION {durable[b] : b \in Boots} \cup {Torn}] :
         /\ \A b \in Boots : \/ left[b] \in durable[b] /\ (left[b] # None => left[b].synced)
                             \/ left[b] = Torn /\ \E f \in durable[b] \ {None} : ~f.synced
         /\ files' = left
         /\ durable' = [b \in Boots |-> {left[b]}]
  BY DEF Reboot
<1>2. \A b \in Boots : left[b] \in durable[b]
  BY <1>1 DEF StoreInv, AllSynced, Synced
<1>3. /\ boot \in Boots /\ boot' = boot + 1 /\ boot' \in Boots
      /\ proc' = [p \in Procs |-> Idle] /\ UNCHANGED <<taken, acked>>
  BY Constants DEF StoreInv, TypeOK, Reboot, Boots
<1>4. \A b \in Boots : files'[b] = left[b] /\ durable'[b] = {left[b]}
  BY <1>1
<1>5. AllSynced'
  <2>1. \A b \in Boots : left[b] \in Synced \cup {None}
    BY <1>2 DEF StoreInv, AllSynced
  <2> QED  BY <1>1, <2>1 DEF AllSynced
<1>6. TypeOK'
  <2>1. Idle \in Process'
    BY DEF Idle, Process
  <2>2. \A b \in Boots : left[b] \in Files \cup {Torn, None}
    BY <1>2 DEF StoreInv, TypeOK
  <2> QED  BY <1>1, <1>3, <1>4, <2>1, <2>2 DEF StoreInv, TypeOK
<1>7. Settled'
  <2>1. ASSUME NEW b \in Boots, b > boot' PROVE left[b] = None
    BY <1>2, <1>3, <2>1, BootsInOrder DEF StoreInv, Settled
  <2> QED  BY <1>4, <2>1 DEF Settled
<1>8. AckedTaken' /\ NoneLost'
  BY <1>2, <1>3, <1>4 DEF StoreInv, AckedTaken, NoneLost, AckedSurvives
<1>9. Alone' /\ AllFit'
  BY <1>3 DEF Alone, AllFit, At, Idle, Fit, Writing
<1> QED  BY <1>5, <1>6, <1>7, <1>8, <1>9 DEF StoreInv

LEMMA NextKeepsInv ==
    ASSUME StoreInv, [Next]_vars
    PROVE  StoreInv'
<1>1. CASE UNCHANGED vars
  <2>1. \A y : Fit(y)' <=> Fit(y)
    BY <1>1 DEF vars, Fit
  <2>2. TypeOK'
    BY <1>1 DEF vars, StoreInv, TypeOK, Process
  <2> QED  BY <1>1, <2>1, <2>2
           DEF vars, StoreInv, AllSynced, Alone, At, Settled, AllFit, Fit, Writing,
               AckedTaken, NoneLost, AckedSurvives
<1>2. ASSUME NEW p \in Procs, NEW command \in {"capture", "prune"}, Acquire(p, command)
      PROVE  StoreInv'
  BY <1>2, AcquireKeepsInv
<1>3. ASSUME NEW p \in Procs,
             \/ Observe(p) \/ SyncFile(p) \/ Rename(p) \/ Succeed(p)
             \/ ListExpired(p) \/ Remove(p) \/ SyncRemoved(p)
             \/ Stop(p)
      PROVE  StoreInv'
  BY <1>3, ObserveKeepsInv, SyncFileKeepsInv, RenameKeepsInv, SucceedKeepsInv,
     ListExpiredKeepsInv, RemoveKeepsInv, SyncRemovedKeepsInv, StopKeepsInv
<1>4. CASE Reboot
  BY <1>4, RebootKeepsInv
<1> QED  BY <1>1, <1>2, <1>3, <1>4 DEF Next

-----------------------------------------------------------------------------
(* The theorems.                                                           *)

\* The store's inductive invariant: every step of captures, pruning and
\* crashes keeps it, whatever the clock does.
THEOREM StoreSafe == Spec => []StoreInv
<1>1. StoreInv /\ [Next]_vars => StoreInv'
  BY NextKeepsInv
<1> QED  BY InitInv, <1>1, PTL DEF Spec

\* The variables keep their types, and only files of earlier boots are ever
\* listed for removal (Prune, lines 340-372).
THEOREM StoreTypeCorrect == Spec => []TypeOK
<1>1. StoreInv => TypeOK
  BY DEF StoreInv
<1>2. Spec => []StoreInv
  BY StoreSafe
<1> QED  BY <1>1, <1>2, PTL

\* Whatever is done by however many processes, and whenever the machine
\* crashes, no checkpoint is ever torn (Write, lines 247-262).
THEOREM StoreNeverTorn == Spec => []NeverTorn
<1>1. StoreInv => NeverTorn
  BY Constants DEF StoreInv, AllSynced, Synced, NeverTorn
<1>2. Spec => []StoreInv
  BY StoreSafe
<1> QED  BY <1>1, <1>2, PTL

\* Where the clock never goes back, a capture that reported success is
\* superseded, never lost, by whatever crashes, captures and pruning follow
\* (Write, Prune).
THEOREM StoreAckedSurvives ==
    ASSUME ClockMayGoBack = FALSE
    PROVE  Spec => []AckedSurvives
<1>1. StoreInv => AckedSurvives
  BY DEF StoreInv, NoneLost, Monotonic
<1>2. Spec => []StoreInv
  BY StoreSafe
<1> QED  BY <1>1, <1>2, PTL

\* A checkpoint that is not the newest of those that count is removed without
\* effect on what is selected.
LEMMA RemovalKeepsSelected ==
    ASSUME NEW dir \in [Boots -> Synced \cup {None}], NEW now \in Nat,
           NEW r \in Boots, NEW s \in Boots, r # now, s # now,
           dir[r] # None, dir[s] # None, dir[r].at < dir[s].at
    PROVE  Selected([dir EXCEPT ![r] = None], now) = Selected(dir, now)
<1> DEFINE new == [dir EXCEPT ![r] = None]
<1>1. \A b \in Boots : new[b] = IF b = r THEN None ELSE dir[b]
  OBVIOUS
<1> HIDE DEF new
<1>2. \A b \in Valid(dir) : b \in Boots /\ dir[b].at \in Nat
  BY Constants, BootsInOrder DEF Valid, Usable, Synced, Files
<1>3. Valid(new) = Valid(dir) \ {r} /\ r \in Valid(dir) /\ s \in Valid(dir) /\ r # s
  <2>1. r \in Valid(dir) /\ s \in Valid(dir)
    BY Constants DEF Valid, Usable, Synced
  <2>2. r # s
    BY <1>2, <2>1
  <2>3. \A b \in Boots : Usable(new, b) <=> Usable(dir, b) /\ b # r
    BY <1>1 DEF Usable
  <2> QED  BY <2>1, <2>2, <2>3 DEF Valid
<1>4. ASSUME NEW b \in Boots
      PROVE  IsNewest(new, b, Valid(new) \ {now}) <=> IsNewest(dir, b, Valid(dir) \ {now})
  BY <1>1, <1>2, <1>3 DEF IsNewest
<1>5. {b \in Boots : IsNewest(new, b, Valid(new) \ {now})}
        = {b \in Boots : IsNewest(dir, b, Valid(dir) \ {now})}
  BY <1>4
<1>6. now \in Valid(new) <=> now \in Valid(dir)
  BY <1>3
<1> QED  BY <1>5, <1>6 DEF Selected, new

\* Pruning, at each of its removals, leaves what a resume selects as it was,
\* in this boot and after the next one (Prune, lines 340-372; SelectAll).
THEOREM StorePruneKeepsSelection == Spec => PruneKeepsSelection
<1> DEFINE Keeps == \A p \in Procs : At(p, "pruning") /\ boot' = boot
                      => \A now \in {boot, boot + 1} : Selected(files', now) = Selected(files, now)
<1>1. StoreInv /\ [Next]_vars => [Keeps]_vars
  <2> SUFFICES ASSUME StoreInv, Next, NEW p \in Procs, At(p, "pruning"), boot' = boot,
                      NEW now \in {boot, boot + 1}
               PROVE  Selected(files', now) = Selected(files, now)
    OBVIOUS
  <2>1. \A q \in Procs : q # p => proc[q].pc = "idle"
    BY DEF StoreInv, Alone, At
  <2>2. files' = files \/ Remove(p)
    <3>1. ASSUME NEW q \in Procs,
                 \/ \E command \in {"capture", "prune"} : Acquire(q, command)
                 \/ Observe(q) \/ SyncFile(q) \/ Rename(q) \/ Succeed(q) \/ ListExpired(q)
          PROVE  FALSE
      BY <2>1, <3>1 DEF At, Acquire, Observe, SyncFile, Rename, Succeed, ListExpired
    <3>2. ASSUME NEW q \in Procs, SyncRemoved(q) \/ Stop(q)
          PROVE  files' = files
      BY <3>2 DEF SyncRemoved, Stop
    <3>3. ASSUME NEW q \in Procs, Remove(q)
          PROVE  q = p
      BY <2>1, <3>3 DEF At, Remove
    <3>4. ~Reboot
      BY BootsInOrder DEF Reboot, StoreInv, TypeOK
    <3> QED  BY <3>1, <3>2, <3>3, <3>4 DEF Next
  <2>3. CASE Remove(p)
    <3>1. PICK r \in proc[p].doomed : files' = [files EXCEPT ![r] = None]
      BY <2>3 DEF Remove, Publish
    <3>2. proc[p].pc = "pruning" /\ Fit(proc[p]) /\ proc[p] \in Process
      BY DEF At, StoreInv, TypeOK, AllFit
    <3>3. PICK s \in 1..(boot - 1) :
             files[r] # None /\ files[s] # None /\ files[r].at < files[s].at
      BY <3>1, <3>2 DEF Fit
    <3>4. /\ r \in Boots /\ s \in Boots /\ r # now /\ s # now /\ now \in Nat
          /\ files \in [Boots -> Synced \cup {None}]
      BY <3>1, <3>2, <3>3, Constants DEF StoreInv, TypeOK, AllSynced, Process, Boots
    <3> QED  BY <3>1, <3>3, <3>4, RemovalKeepsSelected
  <2> QED  BY <2>2, <2>3
<1>2. Spec => []StoreInv
  BY StoreSafe
<1> QED  BY <1>1, <1>2, PTL DEF Spec, PruneKeepsSelection

-----------------------------------------------------------------------------
(* Placements, where the clock never goes back.  The checkpoints are then  *)
(* ordered by their readings as by their boots, so that the newest one     *)
(* with a placement of a session is the one that counts.                   *)

\* Whatever a crash leaves, a later boot's checkpoint is the newer one.
Successive ==
    \A b, c \in Boots : b < c =>
        \A f \in durable[b] \ {None}, g \in durable[c] \ {None} : f.at < g.at

AllTaken == \A b \in Boots : \A f \in durable[b] \ {None} : f.at \in taken

\* A checkpoint not yet published is newer than all that are, and retains
\* what they say now.
Retains(x) ==
    x.pc \in {"written", "synced"} =>
      /\ \A b \in Boots : \A f \in durable[b] \ {None} : f.at < x.checkpoint.at
      /\ \A y \in DOMAIN x.checkpoint.placed :
            x.checkpoint.placed[y] \in {x.checkpoint.at, Carried(files, y)}

Dated == Successive /\ AllTaken /\ \A p \in Procs : Retains(proc[p])

LEMMA DatedInit == Init => Dated
BY DEF Init, Dated, Successive, AllTaken, Retains, Idle

\* Where nothing is published, what a crash may leave becomes less.
LEMMA ShrinkKeeps ==
    ASSUME Successive, AllTaken, taken \subseteq taken',
           \A b \in Boots : durable'[b] \subseteq durable[b] \cup {None}
    PROVE  Successive' /\ AllTaken'
BY DEF Successive, AllTaken

\* Retains speaks of the files alone.
LEMMA FilesStay ==
    ASSUME UNCHANGED <<files, durable>>
    PROVE  \A x : Retains(x)' <=> Retains(x)
BY DEF Retains, Carried, Placing, Valid, Usable, IsNewest

LEMMA RetainAfter ==
    ASSUME UNCHANGED <<files, durable>>, \A p \in Procs : Retains(proc'[p])
    PROVE  \A p \in Procs : Retains(proc[p])'
<1> SUFFICES ASSUME NEW p \in Procs PROVE Retains(proc[p])'
  OBVIOUS
<1>1. Retains(proc'[p])
  OBVIOUS
<1>2. \A y : Carried(files', y) = Carried(files, y)
  OBVIOUS
<1> QED  BY <1>1, <1>2 DEF Retains, Carried, Placing, Valid, Usable, IsNewest

\* A step of p, unless it prepares a checkpoint, leaves none being prepared.
LEMMA NothingPrepared ==
    ASSUME StoreInv, Dated, NEW p \in Procs, NEW x, x.pc \notin {"written", "synced"},
           Goes(p, x), \A q \in Procs : At(q, "idle") \/ q = p
    PROVE  \A q \in Procs : Retains(proc[q])'
<1>1. proc' = [proc EXCEPT ![p] = x] /\ proc \in [Procs -> Process]
  BY DEF Goes, StoreInv, TypeOK
<1>2. \A q \in Procs : proc'[q].pc \notin {"written", "synced"}
  BY <1>1 DEF At
<1> QED  BY <1>2 DEF Retains

LEMMA ObserveDated ==
    ASSUME StoreInv, Dated, Monotonic, NEW p \in Procs, Observe(p)
    PROVE  Dated'
<1>1. PICK now \in Readings, active \in SUBSET Sessions : \E visible \in SUBSET active :
         /\ taken' = taken \cup {now}
         /\ Goes(p, [Idle EXCEPT !.pc = "written",
                                 !.checkpoint = [at |-> now, synced |-> FALSE,
                                                 placed |-> Inventory(files, now, active, visible)]])
  BY DEF Observe
<1>2. PICK visible \in SUBSET active :
         Goes(p, [Idle EXCEPT !.pc = "written",
                              !.checkpoint = [at |-> now, synced |-> FALSE,
                                              placed |-> Inventory(files, now, active, visible)]])
  BY <1>1
<1> DEFINE placed == Inventory(files, now, active, visible)
           x == [Idle EXCEPT !.pc = "written",
                             !.checkpoint = [at |-> now, synced |-> FALSE, placed |-> placed]]
<1>3. now \in Times /\ taken = 1..(now - 1) /\ taken' = taken \cup {now}
      /\ UNCHANGED <<files, durable>>
  BY <1>1 DEF Readings, Monotonic, Observe
<1>4. \A y \in DOMAIN placed : placed[y] \in {now, Carried(files, y)}
  BY DEF Inventory
<1> HIDE DEF placed
<1>5. x.pc = "written" /\ x.checkpoint.at = now /\ x.checkpoint.placed = placed
  BY DEF Idle
<1>6. \A q \in Procs : proc'[q] = IF q = p THEN x ELSE proc[q]
  BY <1>2 DEF Goes, StoreInv, TypeOK, placed
<1>7. \A q \in Procs : q # p => proc[q].pc = "idle"
  BY DEF Observe, StoreInv, Alone, At
<1> HIDE DEF x
<1>8. Successive' /\ AllTaken'
  BY <1>3, ShrinkKeeps DEF Dated
<1>9. \A b \in Boots : \A f \in durable[b] \ {None} : f.at < now
  BY <1>3, BootsInOrder DEF Dated, AllTaken
<1>10. \A q \in Procs : Retains(proc'[q])
  <2>1. Retains(x)
    BY <1>4, <1>5, <1>9 DEF Retains
  <2>2. \A q \in Procs : q # p => Retains(proc[q])
    BY DEF Dated
  <2> QED  BY <1>6, <2>1, <2>2
<1>11. \A q \in Procs : Retains(proc[q])'
  BY <1>3, <1>10, RetainAfter
<1> QED  BY <1>8, <1>11 DEF Dated

LEMMA SyncFileDated ==
    ASSUME StoreInv, Dated, NEW p \in Procs, SyncFile(p)
    PROVE  Dated'
<1> DEFINE old == proc[p]
           x == [old EXCEPT !.pc = "synced", !.checkpoint.synced = TRUE]
<1>1. old \in Process /\ old.pc = "written" /\ old.checkpoint \in Files /\ Retains(old)
  BY DEF StoreInv, TypeOK, AllFit, SyncFile, At, Fit, Writing, Dated
<1>2. /\ x.checkpoint.at = old.checkpoint.at /\ x.checkpoint.placed = old.checkpoint.placed
  BY <1>1 DEF Process, Files
<1>3. Retains(x)
  BY <1>1, <1>2 DEF Retains
<1>4. \A q \in Procs : proc'[q] = IF q = p THEN x ELSE proc[q]
  BY DEF SyncFile, Goes, StoreInv, TypeOK
<1>5. UNCHANGED <<boot, taken, files, durable>>
  BY DEF SyncFile
<1> HIDE DEF x
<1>7. \A q \in Procs : Retains(proc'[q])
  BY <1>3, <1>4 DEF Dated
<1>8. Successive' /\ AllTaken'
  BY <1>5 DEF Dated, Successive, AllTaken
<1>9. \A q \in Procs : Retains(proc[q])'
  BY <1>5, <1>7, RetainAfter
<1> QED  BY <1>8, <1>9 DEF Dated

LEMMA RenameDated ==
    ASSUME StoreInv, Dated, NEW p \in Procs, Rename(p)
    PROVE  Dated'
<1> DEFINE new == proc[p].checkpoint
           x == [proc[p] EXCEPT !.pc = "renamed"]
<1>1. /\ proc[p] \in Process /\ proc[p].pc = "synced" /\ Fit(proc[p]) /\ Retains(proc[p])
      /\ boot \in Boots
  BY DEF StoreInv, TypeOK, AllFit, Rename, At, Dated
<1>2. /\ new \in Files /\ new.at \in taken
      /\ \A b \in Boots : \A f \in durable[b] \ {None} : f.at < new.at
  BY <1>1 DEF Fit, Writing, Retains
<1>3. /\ taken' = taken
      /\ durable' = [durable EXCEPT ![boot] = durable[boot] \cup {new}]
      /\ durable \in [Boots -> SUBSET (Synced \cup {None})]
  BY DEF Rename, Publish, StoreInv, AllSynced
<1>4. \A q \in Procs : Retains(proc[q])'
  <2>1. x.pc = "renamed" /\ Goes(p, x)
    BY <1>1 DEF Rename, Process
  <2>2. \A q \in Procs : At(q, "idle") \/ q = p
    BY <1>1 DEF StoreInv, Alone, At
  <2> HIDE DEF x
  <2> QED  BY <2>1, <2>2, NothingPrepared
<1> HIDE DEF new
<1>5. \A b \in Boots : durable'[b] = IF b = boot THEN durable[b] \cup {new} ELSE durable[b]
  BY <1>3
<1>6. AllTaken'
  BY <1>2, <1>3, <1>5 DEF Dated, AllTaken
<1>7. Successive'
  <2> SUFFICES ASSUME NEW b \in Boots, NEW c \in Boots, b < c,
                      NEW f \in durable'[b] \ {None}, NEW g \in durable'[c] \ {None}
               PROVE  f.at < g.at
    BY DEF Successive
  <2>0. b \in Nat /\ c \in Nat /\ boot \in Nat
    BY <1>1, BootsInOrder
  <2>1. CASE c > boot
    <3>0. c # boot
      BY <2>0, <2>1
    <3>1. durable'[c] = durable[c]
      BY <1>5, <3>0
    <3>2. durable[c] = {None}
      BY <2>1 DEF StoreInv, Settled
    <3> QED  BY <3>1, <3>2
  <2>2. CASE c = boot /\ g = new
    <3>0. b # boot
      BY <2>0, <2>2
    <3>1. durable'[b] = durable[b]
      BY <1>5, <3>0
    <3> QED  BY <1>2, <2>2, <3>1
  <2>3. CASE ~(c > boot) /\ ~(c = boot /\ g = new)
    <3>1. b # boot /\ g \in durable[c]
      BY <1>5, <2>0, <2>3
    <3> QED  BY <1>5, <3>1 DEF Dated, Successive
  <2> QED  BY <2>1, <2>2, <2>3
<1> QED  BY <1>4, <1>6, <1>7 DEF Dated

\* Steps that publish nothing but removals.
LEMMA OtherDated ==
    ASSUME StoreInv, Dated, NEW p \in Procs,
           \/ \E command \in {"capture", "prune"} : Acquire(p, command)
           \/ Succeed(p) \/ ListExpired(p) \/ Remove(p) \/ SyncRemoved(p) \/ Stop(p)
    PROVE  Dated'
<1>1. taken' = taken /\ \A b \in Boots : durable'[b] \subseteq durable[b] \cup {None}
  <2>1. \A b \in Boots : files[b] \in durable[b]
    BY DEF StoreInv, TypeOK
  <2>2. CASE Succeed(p) \/ SyncRemoved(p)
    <3>1. taken' = taken /\ (durable' = [b \in Boots |-> {files[b]}] \/ durable' = durable)
      BY <2>2 DEF Succeed, SyncRemoved
    <3> QED  BY <2>1, <3>1
  <2>3. ASSUME Remove(p)
        PROVE  taken' = taken /\ \A b \in Boots : durable'[b] \subseteq durable[b] \cup {None}
    <3>1. PICK d : durable' = [durable EXCEPT ![d] = @ \cup {None}]
      BY <2>3 DEF Remove, Publish
    <3>2. durable \in [Boots -> SUBSET (Files \cup {Torn, None})] /\ taken' = taken
      BY <2>3 DEF Remove, StoreInv, TypeOK
    <3> QED  BY <3>1, <3>2
  <2>4. ASSUME \/ \E command \in {"capture", "prune"} : Acquire(p, command)
               \/ ListExpired(p) \/ Stop(p)
        PROVE  taken' = taken /\ durable' = durable
    BY <2>4 DEF Acquire, ListExpired, Stop
  <2> QED  BY <2>2, <2>3, <2>4
<1>2. \A q \in Procs : At(q, "idle") \/ q = p
  BY DEF Acquire, Succeed, ListExpired, Remove, SyncRemoved, Stop, StoreInv, Alone, At
<1>3. \E x : Goes(p, x) /\ x.pc \notin {"written", "synced"}
  <2>1. ASSUME NEW command \in {"capture", "prune"}, Acquire(p, command)
        PROVE  \E x : Goes(p, x) /\ x.pc \notin {"written", "synced"}
    <3>1. [Idle EXCEPT !.pc = command].pc = command
      BY DEF Idle
    <3> QED  BY <2>1, <3>1 DEF Acquire
  <2>2. CASE Succeed(p) \/ SyncRemoved(p) \/ Stop(p)
    <3>1. Idle.pc = "idle"
      BY DEF Idle
    <3> QED  BY <2>2, <3>1 DEF Succeed, Acknowledge, SyncRemoved, Stop
  <2>3. CASE ListExpired(p)
    <3>1. PICK d : Goes(p, [Idle EXCEPT !.pc = "pruning", !.doomed = d])
      BY <2>3 DEF ListExpired
    <3>2. [Idle EXCEPT !.pc = "pruning", !.doomed = d].pc = "pruning"
      BY DEF Idle
    <3> QED  BY <3>1, <3>2
  <2>4. CASE Remove(p)
    <3>1. proc[p] \in Process /\ proc[p].pc = "pruning"
      BY <2>4 DEF Remove, At, StoreInv, TypeOK
    <3>2. PICK b : Goes(p, [proc[p] EXCEPT !.doomed = @ \ {b}, !.removed = TRUE])
      BY <2>4 DEF Remove
    <3>3. [proc[p] EXCEPT !.doomed = @ \ {b}, !.removed = TRUE].pc = "pruning"
      BY <3>1 DEF Process
    <3> QED  BY <3>2, <3>3
  <2> QED  BY <2>1, <2>2, <2>3, <2>4
<1>4. Successive' /\ AllTaken'
  BY <1>1, ShrinkKeeps DEF Dated
<1> QED  BY <1>2, <1>3, <1>4, NothingPrepared DEF Dated

LEMMA RebootDated ==
    ASSUME StoreInv, Dated, Reboot
    PROVE  Dated'
<1>1. \A b \in Boots : durable'[b] \subseteq durable[b]
  <2>1. \A b \in Boots : \A f \in durable[b] \ {None} : f.synced
    BY DEF StoreInv, AllSynced, Synced
  <2> QED  BY <2>1 DEF Reboot
<1>2. taken' = taken /\ \A p \in Procs : proc'[p].pc = "idle"
  BY DEF Reboot, Idle
<1>3. Successive' /\ AllTaken'
  BY <1>1, <1>2, ShrinkKeeps DEF Dated
<1> QED  BY <1>2, <1>3 DEF Dated, Retains

LEMMA DatedNext ==
    ASSUME StoreInv, Dated, Monotonic, [Next]_vars
    PROVE  Dated'
<1>1. CASE UNCHANGED vars
  <2>1. Successive' /\ AllTaken'
    BY <1>1 DEF vars, Dated, Successive, AllTaken
  <2>2. \A p \in Procs : Retains(proc[p])'
    BY <1>1, RetainAfter DEF vars, Dated
  <2> QED  BY <2>1, <2>2 DEF Dated
<1>2. CASE Reboot
  BY <1>2, RebootDated
<1>3. ASSUME NEW p \in Procs,
             \/ \E command \in {"capture", "prune"} : Acquire(p, command)
             \/ Observe(p) \/ SyncFile(p) \/ Rename(p) \/ Succeed(p)
             \/ ListExpired(p) \/ Remove(p) \/ SyncRemoved(p)
             \/ Stop(p)
      PROVE  Dated'
  BY <1>3, ObserveDated, SyncFileDated, RenameDated, OtherDated
<1> QED  BY <1>1, <1>2, <1>3 DEF Next

\* What a capture that does not see a session carries over is what is known.
LEMMA CarriedIsKnown ==
    ASSUME StoreInv, Dated, NEW x
    PROVE  Known(files, boot, x) = IF Carried(files, x) = 0 THEN {} ELSE {Carried(files, x)}
<1> DEFINE S == Placing(files, x)
           n == CHOOSE b \in Boots : IsNewest(files, b, S)
<1>1. /\ \A b \in S : b \in Boots /\ files[b] # None /\ files[b].at \in Times
                      /\ files[b] \in durable[b] /\ files[b].placed[x] # 0
      /\ boot \in Boots
  BY DEF Placing, Valid, Usable, StoreInv, AllSynced, Synced, TypeOK, Files
<1>2. \A b, c \in S : b < c => files[b].at < files[c].at
  BY <1>1 DEF Dated, Successive
<1>3. \A b \in S : b <= boot
  <2> TAKE b \in S
  <2>1. ~(b > boot)
    BY <1>1 DEF StoreInv, Settled
  <2>2. b \in Nat /\ boot \in Nat
    BY <1>1, BootsInOrder
  <2> QED  BY <2>1, <2>2
<1>4. \A b \in S : b \in Nat /\ files[b].at \in Nat
  BY <1>1, BootsInOrder
<1>5. S \in SUBSET Boots
  BY <1>1
<1>6. CASE S = {}
  BY <1>6 DEF Known, Carried, IsNewest
<1>7. CASE S # {}
  <2>1. PICK k \in S : TRUE
    BY <1>7
  <2>2. \E b \in S : IsNewest(files, b, S)
    <3> HIDE DEF S
    <3> QED  BY <1>1, <1>5, <2>1, NewestExists
  <2>3. IsNewest(files, n, S) /\ n \in S
    <3>1. \E b \in Boots : IsNewest(files, b, S)
      BY <1>5, <2>2
    <3>2. IsNewest(files, n, S)
      BY <3>1
    <3> QED  BY <3>2 DEF IsNewest
  <2>4. Carried(files, x) = files[n].placed[x] /\ Carried(files, x) # 0
    BY <1>1, <1>7, <2>3 DEF Carried
  <2>5. Known(files, boot, x)
          = {files[b].placed[x] : b \in IF boot \in S THEN {boot}
                                        ELSE {c \in S : IsNewest(files, c, S)}}
    BY DEF Known
  <2> HIDE DEF S, n
  <2>6. \A c \in S : IsNewest(files, c, S) => c = n
    <3> SUFFICES ASSUME NEW c \in S, IsNewest(files, c, S) PROVE c = n
      OBVIOUS
    <3>1. files[c].at <= files[n].at /\ files[n].at <= files[c].at
      BY <2>3 DEF IsNewest
    <3> QED  BY <1>2, <1>4, <2>3, <3>1
  <2>7. boot \in S => IsNewest(files, boot, S)
    <3> SUFFICES ASSUME boot \in S, NEW b \in S PROVE files[b].at <= files[boot].at
      BY DEF IsNewest
    <3>1. b = boot \/ b < boot
      BY <1>3, <1>4
    <3> QED  BY <1>2, <1>4, <3>1
  <2>8. (IF boot \in S THEN {boot} ELSE {c \in S : IsNewest(files, c, S)}) = {n}
    BY <2>3, <2>6, <2>7
  <2> QED  BY <2>4, <2>5, <2>8
<1> QED  BY <1>6, <1>7

\* Where the clock never goes back, a session's placement is retained: a
\* capture that does not see an active session takes over what the present
\* boot knows of it, else the newest of what earlier boots knew
\* (buildRecoveryInventory).
THEOREM StorePlacementSticks ==
    ASSUME ClockMayGoBack = FALSE
    PROVE  Spec => PlacementSticks
<1> DEFINE Sticks ==
             boot' = boot /\ files'[boot] # files[boot] /\ boot \in Valid(files')
               => \A x \in DOMAIN files'[boot].placed :
                     LET placed == files'[boot].placed[x] IN
                     \/ placed = files'[boot].at
                     \/ Known(files, boot, x) = (IF placed = 0 THEN {} ELSE {placed})
<1>1. Monotonic
  BY DEF Monotonic
<1>2. StoreInv /\ Dated /\ [Next]_vars => Dated'
  BY <1>1, DatedNext
<1>3. StoreInv /\ Dated /\ [Next]_vars => [Sticks]_vars
  <2> SUFFICES ASSUME StoreInv, Dated, Next, boot' = boot, files'[boot] # files[boot]
               PROVE  \A x \in DOMAIN files'[boot].placed :
                         LET placed == files'[boot].placed[x] IN
                         \/ placed = files'[boot].at
                         \/ Known(files, boot, x) = (IF placed = 0 THEN {} ELSE {placed})
    OBVIOUS
  <2>1. boot \in Boots /\ files \in [Boots -> Synced \cup {None}]
    BY DEF StoreInv, TypeOK, AllSynced
  <2>2. PICK p \in Procs : Rename(p)
    <3>1. ASSUME NEW p \in Procs, Remove(p)
          PROVE  FALSE
      <4>1. PICK b \in proc[p].doomed : files' = [files EXCEPT ![b] = None]
        BY <3>1 DEF Remove, Publish
      <4>2. b \in 1..(boot - 1)
        BY <4>1 DEF StoreInv, TypeOK, Process
      <4>3. b # boot
        BY <2>1, <4>2, BootsInOrder
      <4> QED  BY <2>1, <4>1, <4>3
    <3>2. ASSUME NEW p \in Procs,
                 \/ \E command \in {"capture", "prune"} : Acquire(p, command)
                 \/ Observe(p) \/ SyncFile(p) \/ Succeed(p) \/ ListExpired(p)
                 \/ SyncRemoved(p) \/ Stop(p)
          PROVE  FALSE
      BY <3>2 DEF Acquire, Observe, SyncFile, Succeed, ListExpired, SyncRemoved, Stop
    <3>3. ~Reboot
      BY <2>1, BootsInOrder DEF Reboot
    <3> QED  BY <3>1, <3>2, <3>3 DEF Next
  <2>3. files'[boot] = proc[p].checkpoint /\ Retains(proc[p]) /\ proc[p].pc = "synced"
    BY <2>1, <2>2 DEF Rename, Publish, At, Dated
  <2> QED  BY <2>3, CarriedIsKnown DEF Retains
<1> QED  BY <1>2, <1>3, DatedInit, StoreSafe, PTL DEF Spec, PlacementSticks

=============================================================================
