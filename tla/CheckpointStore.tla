---------------------------- MODULE CheckpointStore ----------------------------
(***************************************************************************)
(* The rolling checkpoints of one host and profile: one file per boot,     *)
(* replaced by captures (internal/capture, internal/checkpoints) and       *)
(* removed by pruning (internal/prune), under the writer lock of           *)
(* internal/storelock; and which of them a resume selects.                 *)
(*                                                                         *)
(* A checkpoint is reduced to the clock reading at which it was observed   *)
(* and to its recovery inventory: for every active session the reading at  *)
(* which its placement was observed, 0 when it has none.  Readings are     *)
(* distinct (the clock counts nanoseconds), so they also identify what was *)
(* observed.                                                               *)
(*                                                                         *)
(* The file system is the one the code's fsyncs are for: a rename or a     *)
(* removal is visible at once, but until the directory is synced a crash   *)
(* may undo it, each name for itself; a file that was not synced may be    *)
(* torn by a crash.  A process may fail, or be killed, between any two     *)
(* steps; its flock goes with it.                                          *)
(***************************************************************************)
EXTENDS Integers

CONSTANTS
    None,            \* no file
    Procs,           \* processes that run "capture once" and "prune run"
    Sessions,        \* session names
    MaxBoots,        \* bound on the boots
    MaxTime,         \* bound on the clock readings
    ClockMayGoBack   \* a later capture may read an earlier time

VARIABLES
    boot,      \* the present boot
    taken,     \* the clock readings captures have taken
    files,     \* the file of each boot, as processes see it
    durable,   \* the files of each boot that a crash may leave
    acked,     \* history: the reading of each boot's last successful capture
    proc       \* the processes

vars == <<boot, taken, files, durable, acked, proc>>

Boots == 1..MaxBoots
Times == 1..MaxTime

Files ==
    [at : Times, synced : BOOLEAN,
     placed : UNION {[active -> 0..MaxTime] : active \in SUBSET Sessions}]

\* What is left of a file that was not synced.
Torn == [at |-> 0, placed |-> [x \in {} |-> 0], synced |-> TRUE]

ASSUME StoreConstants ==
    /\ MaxBoots \in Nat \ {0} /\ MaxTime \in Nat \ {0}
    /\ ClockMayGoBack \in BOOLEAN
    /\ None \notin Files \cup {Torn}

Usable(dir, b) == dir[b] # None /\ dir[b] # Torn

\* List: the boots whose checkpoint is valid.
Valid(dir) == {b \in Boots : Usable(dir, b)}

IsNewest(dir, b, S) == b \in S /\ \A c \in S : dir[c].at <= dir[b].at

-----------------------------------------------------------------------------
(* What a capture writes.                                                  *)

\* The prior checkpoints that have a placement of x.
Placing(dir, x) ==
    {b \in Valid(dir) : x \in DOMAIN dir[b].placed /\ dir[b].placed[x] # 0}

CarriedOldest(dir, x) ==
    IF Placing(dir, x) = {} THEN 0
    ELSE dir[CHOOSE b \in Placing(dir, x) :
                \A c \in Placing(dir, x) : dir[b].at <= dir[c].at].placed[x]

\* buildRecoveryInventory walks the history from its newest checkpoint to
\* its oldest, whatever boot each is of.
Carried(dir, x) ==
    IF Placing(dir, x) = {} THEN 0
    ELSE dir[CHOOSE b \in Boots : IsNewest(dir, b, Placing(dir, x))].placed[x]

\* visible: the active sessions with exactly one window, whose placement is
\* complete.
Inventory(dir, now, active, visible) ==
    [x \in active |-> IF x \in visible THEN now ELSE Carried(dir, x)]

-----------------------------------------------------------------------------
(* What a resume selects, and what pruning may remove.                     *)

\* SelectAll: the present boot's checkpoint, else the newest of another boot.
Selected(dir, now) ==
    IF now \in Valid(dir) THEN {now}
    ELSE {b \in Boots : IsNewest(dir, b, Valid(dir) \ {now})}

Prior(dir, now) == Valid(dir) \ {now}

ExpiredAny(dir, now, cutoff) == {b \in Prior(dir, now) : dir[b].at < cutoff}

\* Prune keeps the present boot's checkpoint and the newest of a prior one.
Expired(dir, now, cutoff) ==
    {b \in Prior(dir, now) : ~IsNewest(dir, b, Prior(dir, now)) /\ dir[b].at < cutoff}

-----------------------------------------------------------------------------
(* The processes.                                                          *)

Idle == [pc |-> "idle", checkpoint |-> None, doomed |-> {}, removed |-> FALSE]

At(p, pc) == proc[p].pc = pc

Goes(p, x) == proc' = [proc EXCEPT ![p] = x]

\* Acquire: a command takes the lock for all it does, or gives up at once.
Acquire(p, command) ==
    /\ \A q \in Procs : At(q, "idle")
    /\ Goes(p, [Idle EXCEPT !.pc = command])
    /\ UNCHANGED <<boot, taken, files, durable, acked>>

\* Readings of the clock; the next one has to do where it never goes back.
Readings ==
    IF ClockMayGoBack THEN Times \ taken
    ELSE {t \in Times : taken = 1..(t - 1)}

\* CaptureOnce, with the lock: the host is observed, the history read and
\* the new checkpoint written to a temporary file.  An invalid checkpoint
\* of this boot is not replaced.
Observe(p) ==
    /\ At(p, "capture")
    /\ files[boot] # Torn
    /\ \E now \in Readings, active \in SUBSET Sessions : \E visible \in SUBSET active :
         /\ taken' = taken \cup {now}
         /\ Goes(p, [Idle EXCEPT !.pc = "written",
                                 !.checkpoint = [at |-> now, synced |-> FALSE,
                                                 placed |-> Inventory(files, now, active, visible)]])
    /\ UNCHANGED <<boot, files, durable, acked>>

SyncFile(p) ==
    /\ At(p, "written")
    /\ Goes(p, [proc[p] EXCEPT !.pc = "synced", !.checkpoint.synced = TRUE])
    /\ UNCHANGED <<boot, taken, files, durable, acked>>

\* A name points to another file, for the processes and perhaps on the disk.
Publish(b, file) ==
    /\ files' = [files EXCEPT ![b] = file]
    /\ durable' = [durable EXCEPT ![b] = @ \cup {file}]

RenameEarly(p) ==
    /\ At(p, "written") \/ At(p, "synced")
    /\ Publish(boot, proc[p].checkpoint)
    /\ Goes(p, [proc[p] EXCEPT !.pc = "renamed"])
    /\ UNCHANGED <<boot, taken, acked>>

Rename(p) ==
    /\ At(p, "synced")
    /\ Publish(boot, proc[p].checkpoint)
    /\ Goes(p, [proc[p] EXCEPT !.pc = "renamed"])
    /\ UNCHANGED <<boot, taken, acked>>

Acknowledge(p) ==
    /\ acked' = [acked EXCEPT ![boot] = proc[p].checkpoint.at]
    /\ Goes(p, Idle)

SucceedUnsynced(p) ==
    /\ At(p, "renamed")
    /\ Acknowledge(p)
    /\ UNCHANGED <<boot, taken, files, durable>>

\* The directory is synced and the capture succeeds.
Succeed(p) ==
    /\ At(p, "renamed")
    /\ durable' = [b \in Boots |-> {files[b]}]
    /\ Acknowledge(p)
    /\ UNCHANGED <<boot, taken, files>>

\* Prune, with the lock: what is expired is listed first.  The cutoff lies
\* the retention days before the present.
ListExpired(p) ==
    /\ At(p, "prune")
    /\ \E cutoff \in 1..(MaxTime + 1) :
         Goes(p, [Idle EXCEPT !.pc = "pruning", !.doomed = Expired(files, boot, cutoff)])
    /\ UNCHANGED <<boot, taken, files, durable, acked>>

\* Then it is removed, in the order of the directory.
Remove(p) ==
    /\ At(p, "pruning")
    /\ \E b \in proc[p].doomed :
         /\ Publish(b, None)
         /\ Goes(p, [proc[p] EXCEPT !.doomed = @ \ {b}, !.removed = TRUE])
    /\ UNCHANGED <<boot, taken, acked>>

SyncRemoved(p) ==
    /\ At(p, "pruning") /\ proc[p].doomed = {}
    /\ durable' = IF proc[p].removed THEN [b \in Boots |-> {files[b]}] ELSE durable
    /\ Goes(p, Idle)
    /\ UNCHANGED <<boot, taken, files, acked>>

\* An error, or the end of the process, at any point: the temporary file is
\* of no name that is read, a removal or a rename stays as it is.
Stop(p) ==
    /\ ~At(p, "idle")
    /\ Goes(p, Idle)
    /\ UNCHANGED <<boot, taken, files, durable, acked>>

\* The machine crashes and starts again.
Reboot ==
    /\ boot < MaxBoots /\ boot' = boot + 1
    /\ \E left \in [Boots -> UNION {durable[b] : b \in Boots} \cup {Torn}] :
         /\ \A b \in Boots : \/ left[b] \in durable[b] /\ (left[b] # None => left[b].synced)
                             \/ left[b] = Torn /\ \E f \in durable[b] \ {None} : ~f.synced
         /\ files' = left
         /\ durable' = [b \in Boots |-> {left[b]}]
    /\ proc' = [p \in Procs |-> Idle]
    /\ UNCHANGED <<taken, acked>>

-----------------------------------------------------------------------------
(* The specification.                                                      *)

Init ==
    /\ boot = 1 /\ taken = {}
    /\ files = [b \in Boots |-> None] /\ durable = [b \in Boots |-> {None}]
    /\ acked = [b \in Boots |-> 0]
    /\ proc = [p \in Procs |-> Idle]

Next ==
    \/ \E p \in Procs :
         \/ \E command \in {"capture", "prune"} : Acquire(p, command)
         \/ Observe(p) \/ SyncFile(p) \/ Rename(p) \/ Succeed(p)
         \/ ListExpired(p) \/ Remove(p) \/ SyncRemoved(p)
         \/ Stop(p)
    \/ Reboot

Spec == Init /\ [][Next]_vars

-----------------------------------------------------------------------------
(* Properties.                                                             *)

Process ==
    [pc : {"idle", "capture", "written", "synced", "renamed", "prune", "pruning"},
     checkpoint : Files \cup {None}, doomed : SUBSET (1..(boot - 1)), removed : BOOLEAN]

\* The variables have their types; what processes see is one of the contents
\* a crash may leave, and only files of earlier boots are ever removed.
TypeOK ==
    /\ boot \in Boots /\ taken \subseteq Times
    /\ acked \in [Boots -> 0..MaxTime]
    /\ files \in [Boots -> Files \cup {Torn, None}]
    /\ durable \in [Boots -> SUBSET (Files \cup {Torn, None})]
    /\ \A b \in Boots : files[b] \in durable[b]
    /\ proc \in [Procs -> Process]

\* Whatever a crash leaves, no checkpoint is torn: a torn one would make
\* resume refuse the whole store and capture refuse to replace it (Write,
\* lines 247-262; main.go, lines 1146-1154).
NeverTorn ==
    \A b \in Boots : \A f \in durable[b] \ {None} : f # Torn /\ f.synced

\* A capture that reported success is never lost: a resume after a crash at
\* any later moment, between any two steps of captures and pruning, finds a
\* checkpoint at least as new (Write, lines 258-266; Prune, lines 357-383).
AckedSurvives ==
    \A b \in Boots : acked[b] # 0 =>
        \E c \in Boots : \A f \in durable[c] : f # None /\ f.at >= acked[b]

\* Pruning never changes what a resume selects, in this boot or after the
\* next one, at any of its removals (Prune, lines 340-372; SelectAll).
PruneKeepsSelection ==
    [][\A p \in Procs : At(p, "pruning") /\ boot' = boot
         => \A now \in {boot, boot + 1} : Selected(files', now) = Selected(files, now)]_vars

\* Where an active session that is not seen was placed: what the present
\* boot knows, else the newest of what earlier boots knew.
Known(dir, now, x) ==
    LET sources == Placing(dir, x)
        best == IF now \in sources THEN {now}
                ELSE {b \in sources : IsNewest(dir, b, sources)}
    IN {dir[b].placed[x] : b \in best}

\* A session's placement is never forgotten while it stays active: a capture
\* that does not see it retains its newest valid placement, first from the
\* current boot and then from prior boots (buildRecoveryInventory; ADR 0003).
PlacementSticks ==
    [][boot' = boot /\ files'[boot] # files[boot] /\ boot \in Valid(files')
         => \A x \in DOMAIN files'[boot].placed :
               LET placed == files'[boot].placed[x] IN
               \/ placed = files'[boot].at
               \/ Known(files, boot, x) = (IF placed = 0 THEN {} ELSE {placed})]_vars

=============================================================================
