# Verification of terminal-redeemer

TLA+ models of the parts of terminal-redeemer that are concurrent, survive
crashes, or keep promises over several calls; TLC configurations that check them
on small instances; TLAPS proofs of what holds for every instance.

- [1. The system](#1-the-system)
- [2. The modules](#2-the-modules)
- [3. What the runs check](#3-what-the-runs-check)
- [4. Assumptions and fairness](#4-assumptions-and-fairness)
- [5. What is proved](#5-what-is-proved)
- [6. What disagrees with the documents](#6-what-disagrees-with-the-documents)
- [7. What is not modelled](#7-what-is-not-modelled)
- [8. Plan](#8-plan)
- [9. Running the checks](#9-running-the-checks)

`PROJECT.json` lists the components, the runs, one mutation of the code per
property that the run detects, the source lines of every definition, the hazards
and the theorems.

## 1. The system

Redeem does two things for terminals that live in Zellij sessions. **Mirroring**
shows the sessions of a remote *source host* in local terminals that outlive the
SSH connections behind them, and keeps a desktop supplied with such terminals.
**Recovery** captures where the local sessions' windows are and brings them back
after the window manager or the machine restarts. The two share little: mirroring
keeps its state in processes (and the pins in files), recovery in files.

### 1.1 Mirroring

One **projection helper** (`session_supervisor.go`) runs in each mirrored
terminal. It owns the physical terminal and, at any time, at most one disposable
**child**, an SSH **transport** (`session_transport.go`) to an **attach helper**
(`session_attach.go`) on the source host, which pins the session's socket, puts a
**relay** (`session_relay.go`) in front of it and runs a Zellij client against the
relay. All helpers of one SSH destination share one **recovery coordinator** process
(`session_recovery*.go`), which alone probes the source host and decides who may
attach. They talk over a Unix socket, one request at a time. Three commands open
mirrored terminals by themselves: **follow** polls a workspace of the source host,
**apply** opens what a **pin** lists, and **save** writes the pin.

| Component | State | Operations | Interacts with |
|---|---|---|---|
| coordinator (`session_recovery.go`) | members and their rotation order, the present and the last attempt of each, leases, one backoff per session, the last inventory, the probe in flight | `exchange` (register, report, propose), `remove`, `admit`, `expire`, `beginProbe`, `finishProbe` | called by the server under a mutex |
| coordinator process (`session_recovery_server.go`, `_runtime.go`, `_election.go`, `_probe_linux.go`) | the owner (connection, process) of each member, the election lock, the probe process | accept, serve, hang up, tick (50 ms), idle exit; client: call, start, disconnect, close | helpers, by messages; a probe inherits the lock |
| helper loop (`session_supervisor.go`) | attempt, grant, child, proof, pending slot, input gate, queue of reports, control call | nine select cases: input, resize, paste, output, end of child, reply, admission poll, ticker, end of terminal | coordinator; child; gate; local IPC |
| transport (`session_transport.go`) | SSH process, reader and waiter threads, packet channel, outcome | start, read, wait, drain, stop | loop, by a channel; decoder; SSH |
| output decoder (`session_stream.go`) | bytes that may be a marker, ready/finished | `feed` | the transport's reader |
| attach helper (`session_attach.go`, `session_socket.go`) | the pinned socket, readiness deadline, outcome | check, link, verify, start, wait, mark | relay, Zellij client, SSH's terminal |
| relay (`session_relay.go`) | the attached connection, readiness, detachment | accept, forward both directions, inject the readiness marker, cancel | Zellij client and server |
| pending slots (`session_admission.go`) | two kernel locks | acquire, release | every helper of the user |
| manual control (`session_manual.go`, macOS) | the granted attempt, whether one was, the request of an Enter | `Exchange` | one helper loop, in its own process |
| input gate (`session_terminal.go`) | generation, paste state, held prefix | `open`, `close`, `decode`, `flushPrefix`, `read` | kernel, reader thread, loop |
| local IPC and clipboard (`session_local.go`, `paste.go`) | the last published local state | state, paste | window manager bindings; loop |
| inventory, snapshot (`session_inventory.go`, `zellijlive`, `snapshot.go`) | none; several readings of a host that goes on changing | list sessions with identities, capture, validate | probe, follow, apply, picker |
| window projection (`projection.go`) | none | inspect the local windows: exact, ambiguous, unverified, untracked | follow, apply, save |
| follow (`follow.go`, `mirrortui/workspace.go`) | frozen destination, launch budgets, the poll in progress, results for the screen | poll, observe, plan, launch, confirm, move; quit | source host, window manager, Kitty, pin lock |
| pins (`pin.go`, `pin_workflow.go`) | a pin file, its lock | save, apply | window manager, Kitty |
| creation (`session_create.go`, `dual_new.go`, `new.go`) | stages | create, attach on both hosts | source host |
| picker (`mirrortui`) | loads under way | key and result messages | the above |

What is hard: a grant is used up to seconds after it was made, by another
process, which may have died, lost its connection, timed out on the reply or been
answered by a coordinator that no longer exists; children die at any point of
their proof; typing goes on meanwhile and must not reach the wrong attachment. The
proof itself travels as bytes in a terminal's output, over a connection that is
cut anywhere, and has to be about the incarnation that was asked for although
sessions are known by reusable names. follow and apply decide from a look at the
desktop that is stale when they act, beside one another and a user; a launch they
made may show its window late or never.

What makes it correct: at most two unproved children, one per session, and a
place is never given away while its child may run; a session is called ended only
when it is; a healthy attachment survives the coordinator; nothing stays reserved
for ever; keys reach the attachment they were typed for, once and in order; a
paste never spills into another attachment or onto the status screen; an
attachment counts as proved, or as detached, only when the right server's own
output says so; a session is opened once, and no window is moved but the one that was
launched for it; launches stay within their budgets; a cancelled follow ends.

### 1.2 Recovery

| Component | State | Operations | Interacts with |
|---|---|---|---|
| capture (`capture/runner.go`, `collector`) | none of its own | `CaptureOnce`: lock, observe, carry placements over, write | window manager, Zellij, store |
| checkpoint store (`checkpoints/store.go`, `storelock`) | one file per boot, host and profile; the writer lock | `Write`, `List`, `History`, `Prune`, `Acquire` | capture, prune, resume, doctor |
| pruning (`prune/prune.go`) | none | `Run` | store |
| resume planner (`resume/planner*.go`) | none | `Select`, `SelectAll`, `Build`, `BuildAll` | store, catalog |
| resume executor (`resume/executor.go`, `runtime.go`, `readiness.go`) | launched windows and what became of each | preflight, launch, recognise, accept or give up, move; order columns | window manager, Kitty, Zellij |
| doctor, configuration, project identity, process metadata | none | read-only checks and derivations | – |

What is hard: the machine may stop between any two system calls; two captures and
a prune run from timers; checkpoints of several boots are ordered by a clock that
may be set back; the executor starts windows it has to recognise afterwards, while
sessions end and a user opens the same ones, and orders columns by moving whatever
has the focus.

What makes it correct: an acknowledged capture is found again after any crash; no
crash leaves a file that makes resume refuse the store; pruning never changes
what a resume would select; a session that is out of sight keeps its placement;
nothing is restored twice, and no exited session is raised that the checkpoint does
not allow; columns that can be restored are, and an executor that has moved the wrong
column moves no other.

### 1.3 Hazards

`PROJECT.json` lists what is hard to test, each at its line, with the properties that
cover it. Two are not covered. Requests of one helper that are read out of order over two
connections (`session_recovery_runtime.go:312`) are excluded by an assumption of the
composition (section 4), and that the probe which a dead coordinator left behind gives the
election lock back (`session_recovery_server.go:254`) rests on its own timeout.

## 2. The modules

| Module | Models | Composition |
|---|---|---|
| `SessionRecovery` | the coordinator's struct and methods, the host it probes | – |
| `SessionRecoveryProofs` | theorems about its record (types, order, capacity), about what it concludes from probes and about leases | extends `SessionRecovery` |
| `ProjectionHelper` | *abstract*: what a helper promises, whatever its child, terminal and clock do | – |
| `SessionSupervisor` | the helper's event loop, with a child it assumes little of | implements `ProjectionHelper` (`INSTANCE ... WITH helper <- View(h)`) |
| `ManualControl` | a helper on macOS: the loop with the control that stands in for the coordinator, and the calls between them | extends `SessionSupervisor` |
| `SessionSupervisorProofs` | theorems about the loop, the refinement among them, and about the manual control, that it is a supervised loop among them | extends `ManualControl` |
| `AttachmentStream` | the marker decoder, on sequences of bytes | – |
| `SessionAttachment` | one attempt from the attach helper over the relay, the Zellij client and SSH to the transport's packets | extends `AttachmentStream`; implements the child of `SessionSupervisor` (`Loop == INSTANCE SessionSupervisor WITH ...`) |
| `SessionAttachmentProofs` | theorems about the decoder, the attachment and its transport | extends `SessionAttachment` |
| `MirrorRecovery` | helpers, connections, coordinator processes, election, deaths | composes `SessionRecovery` (as `C`) and one `ProjectionHelper` per helper (as `H(p)`) |
| `MirrorRecoveryProofs` | theorems about what a coordinator believes of a child, across crashes and restarts | extends `MirrorRecovery`; uses those of `SessionRecoveryProofs` (as `P`) |
| `SessionInputGate` | the terminal's reader, paste decoder, channel and drain | – |
| `SessionInputGateProofs` | theorems about what is typed, from the keyboard to the attachment | extends `SessionInputGate` |
| `HostSnapshot` | what a client reads from a source host: validation and the questions asked of it; pure | – |
| `HostCapture` | how the source host makes the snapshot, from four looks at itself; pure | extends `HostSnapshot` |
| `LocalDesktop` | the client's windows, launches and workspaces, the user, the evidence of an inspection | extends `HostSnapshot` |
| `PinStore` | the pin file, its temporary file and its lock | extends `LocalDesktop` |
| `WorkspaceFollow` | the follow command: its worker, budgets, screen | extends `PinStore` |
| `PinWorkflow` | apply and save | extends `WorkspaceFollow` |
| `SharedDesktop` | follow, apply, save and the user on one desktop | composes the above |
| `SharedDesktopProofs` | theorems about it | extends `SharedDesktop` |
| `ResumePlanner` | checkpoint selection and plans; pure | – |
| `ResumeExecutor` | a resume up to the ordering, with Kitty, Zellij and the user | extends `ResumePlanner` |
| `ColumnOrdering` | the second phase of a resume, against the user of the desktop | – |
| `Resume` | the whole resume | extends `ResumeExecutor`, composes it with `ColumnOrdering` (as `Columns`) |
| `ResumeProofs` | theorems about its launches, about what it may raise and about the ordering of columns | extends `Resume` |
| `CheckpointStore` | captures, pruning, the lock, the file system and its crashes | – |
| `CheckpointStoreProofs` | theorems about it | extends `CheckpointStore` |
| `MC...` | the instances TLC checks; `AdmitLoop`, the admission loop as the code runs it; what the decoder is for | extend the above |

### 2.1 SessionRecovery

The Go struct is the record `s`; each method is an operator from a record to a
record (`Exchange`, `Admit`, `FinishProbe`, `Remove`, ...), so that the server
model reuses them. The server calls every method under one mutex, hence one step
per call. The wall clock is an argument in the code and an input of each step
here; no relation between two readings is assumed, since `now.UTC()` drops the
monotonic reading. A session is one incarnation (name and id); `host` says which
exist, and a probe's listing holds every incarnation that was live throughout its
reading and none that never was (`Listings`).

Three translations are not literal. `admit` rotates the order while it scans it;
`Admit` is the closed form (two passes, one rotation), and `AdmitFollowsLoop`
checks it against the loop in every reachable state. The probe's sequence number
is left out because one probe is in flight at a time, which `UnknownMemberIsProbed`
says among other things. The
map `observing` is a flag of each member it points to. Reasons and retry times
only feed the status screen and are left out.

### 2.2 ProjectionHelper and SessionSupervisor

`SessionSupervisor` has one operator per closure of the loop (`Send`, `Lose`,
`Open`, ...) and one action per select case; the trailing `open` and `send` calls
of a case are part of its action. The child is the sequence of packets its
decoder produces: `ready` at most once, one final event, nothing after. That a
transport behaves so is what `SessionAttachment` shows. Timers
are Booleans of the step (`overdue`, `due`). Its coordinator is arbitrary: any
reply at any time, so what is shown does not depend on the other side.

`ProjectionHelper` keeps what the rest of the system can see of a helper: its
attempt, grant, whether a child exists, whether its gate is open or has been, the
unacknowledged reports and the call under way. `ImplementsProtocol` shows that
the loop does nothing else, so `MirrorRecovery` may use the small model.

`ManualControl` takes the same loop, without brokered pastes (`cfg.Local = nil`), and
gives it the control that macOS uses: `Exchange` (a report, then the request of an
Enter, then a grant) under its mutex. A call is sent by the loop (`h.call`), takes
effect (`Consults`), and is taken up (`Replied`) or given up (`TimesOut`): the loop
compares the wall clock after `Exchange` too (`session_time.go`), so that a
suspended machine makes a call fail that took effect. The control never answers that a
session ended and never revokes; a replayed grant keeps its deadline, which is why
`Begin` may find it late. A repeated request is noted again although the attempt it
asked for was granted meanwhile (`session_manual.go:33`); if that attempt fails before
it is ready, the next poll is granted on the strength of it. `AttemptsAsked` therefore
counts such repetitions beside the presses of Enter (`requests`).

### 2.3 MirrorRecovery

A helper writes one frame on its connection and the server answers or hangs up.
A timed-out call closes its connection, whose request the server may still read
(`stale`). `owner` is the server's owners map: the connection (`link` or `stale`)
that speaks for a member, `kept` when a closed connection left a pending member
behind, or `none`. A crash drops all coordinator state and connections; if a probe
was in flight it keeps the inherited election lock (`orphan`). `starts` counts the
coordinators.

### 2.4 SessionInputGate

Bytes carry where they came from: the attachment that was open when they, or the
paste they belong to, reached the terminal. A read may end anywhere, also inside
a delimiter; the held prefix, its flush by age, the drain at readiness and the
channel of stamped items are those of the code. Five keys are enough to form both
delimiters, their common prefix, an Enter and ordinary input.

### 2.5 AttachmentStream and SessionAttachment

A byte is a string. A marker is a prefix of two bytes, the attempt, the event and
a delimiter; there are markers of this attempt and of another. `Feed` is the
decoder's `feed`, with its limit on the length of a marker (`MaxMarker`), what it keeps
back because it may be the start of a prefix, and the flush at the end. `Pass` is one
round of its loop and `Decode` as many rounds as there are bytes, since each round but the
last takes one at least; a round that has nothing to do changes nothing, so the
code's `break` is a round of that kind.

`SessionAttachment` follows one attempt. The *helper* checks the name, links the
socket and checks the link again (`helper.pinned` is what it got); between these
the name may go to another incarnation. It runs a Zellij *client* against the
*relay*, waits for the client, for readiness or its deadline, reaps the client and
writes the outcome marker last. The relay gives one connection to the server; the
first render makes it send the readiness marker *through the client*, so that the
marker is in the output before any of the render. An orderly exit of the client counts as detached
only if the relay saw the server direct it after readiness. Frames are renders,
exits and broken ones; what else passes is not told apart.

`wire` is the terminal output on its way. While `up`, all of it arrives; a cut or
a killed SSH loses any suffix, and nothing on the source host is followed once the
link is down, since nothing of it can be seen any more. On the client's host the
reader thread decodes what a read returns and offers packets to a bounded channel;
the waiter thread reaps SSH and gives the output a second to drain, after which it
closes the pipe under the reader. `View` is what the supervisor's loop sees of it.

Two assumptions are about what a session shows. `NonceUnknown`: it does not know the
attempt, which is 32 random digits. `PrefixesDelimited`: a frame in which a marker may begin
holds a delimiter behind that. It is needed because the decoder looks for the first delimiter after
a prefix: output that contains a prefix (`\x1eREDEEM_ATTACH_V1:`), no delimiter behind it and less than
128 bytes in all is taken together with the next marker as one malformed marker and passed on, so that
this marker goes unheard. Without the assumption `OutcomeArrives` is false (TLC finds it
with such a frame, and finds `EvidenceIsTrue` and `ChildBehaves` as true as before). `MarkersFit`: a
marker is not longer than the limit, as it is in the code. The others say that
`None` is none of the things it is compared with.

### 2.6 HostSnapshot, HostCapture and LocalDesktop

A *host* is what each of four looks found: windows, workspaces, what runs below
the windows, the catalog. They need not agree, because the host changes in
between. `Capture` makes the snapshot from them or refuses; `HostSnapshot` has the
checks and questions that the client puts to it. The `desktop` run gets its
snapshots through `Capture`, so only those that a host can produce.

`LocalDesktop` is the client's side. A launch that Kitty accepted is a token; its
window comes later or never, and its helper answers later still. `up` is whether it
does. `InspectProjections` gives the inventories an inspection may return: at most
one window's evidence is disturbed in each. A move names a workspace by name or
index and is carried out on the workspaces of that moment (`Landing`).

### 2.7 PinStore, WorkspaceFollow, PinWorkflow, SharedDesktop

The three commands take the same lock without waiting. `WorkspaceFollow` has one
action per step of a poll between which others may act: snapshot, inspection,
gate, each launch of the batch, its confirmation, the look-up of the destination
and the move; the attempt is charged before the launcher runs. The worker reports
over a channel of one place to a screen that stops reading when it quits; the lock
is released after the worker has been joined. `PinWorkflow` has apply, item after
item with a second look before each launch, and save, whose look at the desktop
precedes the lock. Every process may be killed wherever it holds the lock, which
the kernel then drops. `log` is a history of the launches and what their owner made
of them, `confirmed` or `abandoned`, and of whether the user copied the window. What is
opened in an order, a poll's plan or a pin's projections, is a set whose members carry
their order (`Leads`, `FirstOf`).

### 2.8 ResumePlanner, ResumeExecutor and Resume

`ResumePlanner` holds the selection of a checkpoint, the resolution of workspaces
and both kinds of plan as operators. `ResumeExecutor` makes the plan from one
observation of windows, process tree and catalog, each read at its own moment, and
applies it, item by item. A launched Kitty is recognised by its PID, accepted when it is the only window
attached to its session in two successive looks, and killed when given up; with `--all` the
catalog is read again before a launch. Evidence of attachment is a process below
the window that runs exactly `zellij attach -- <session>`; the plan also takes a
window's title for it. Kitty, Zellij, the clock and the user act between any two
steps, and the command may be run again. A client is in the first window of its Kitty and
ends with it; a Kitty ends with its last window. `mishaps` counts what goes wrong: calls that fail, what
is seen too late, the acts of the user. The wait for a moved window (`WaitForWorkspace`) is late only with a window
that is on its target; one that the move has put elsewhere is not seen there by any wait, so its
item fails without a mishap.
The processes that resume starts are numbered from 1, all others from 0 downwards
(`ProcessNumbers`): a PID is not given again while the command runs. A resume finds a list of
checkpoints, each with the time it was taken at, and Zellij a list of names (`CheckpointsListed`).

`Resume` joins the phases. The second starts from a new observation, and what the
first one knew says nothing of columns; so at the handover the first phase's
variables are reset and the second begins in any arrangement.

### 2.9 ColumnOrdering

`orderColumns` for the targets of one workspace; the code orders workspaces one
after the other and they share nothing. `real` is the workspace, `run` the
executor: its program counter, the state it expects, the state before the present
action, the target and the targets left in this pass. There is one action per observation,
call and wait of the loop, so that the user may act between any two of them. An
observation is the column of each window and the focus; process ids, application
ids and rows do not change and are left out of `sameWorkspaceState`. Every step
may fail (`Fails`), and a call that failed may have had its effect. Targets with
shared or stacked captured columns never reach the loop (`stackedReason`).

External are the window manager, which moves the column that has the focus, at
most to the last place (`ColumnMoved`), and the user, who may focus, move, open,
close or take away windows (`Disturb`).

### 2.10 CheckpointStore

A checkpoint is the reading it was observed at and, for each active session, the
reading at which its placement was observed. `files` is the directory as
processes see it and `durable` the files a crash may leave of each name: a rename
or removal adds a possibility, a directory sync settles all of them, and a file
that was not synced may come back torn. Each process may stop between any two
steps (an error path or a kill have the same effect: the lock goes, the rest
stays). The model has one host and one profile; others are independent files.

## 3. What the runs check

| Run | Instance | Shows |
|---|---|---|
| `recovery` | two instances in one, told apart by whether a third session exists: three helpers of three sessions; or a helper of one session and one of either of two, the second of which may be created and end | `PendingBound`: at most two pending, one per session. `Bookkeeping`: order, members and backoff records agree. `AdmitFollowsLoop`: the closed form is the loop. `EndedOnlyIfGone`, `UnknownMemberIsProbed`: what a listing older than the present may conclude, and that the missing one is on its way. `ExpiredStaysExpired`: a late readiness never revives an expired lease, whatever the clock does |
| `supervisor` | two instances in one, told apart by `peer`: the loop among arbitrary coordinators, with two attempts, a queue of two packets and two generations; and the loop with its manual control, with three attempts, a queue of one, one generation, and calls that time out before or after they took effect | `InputOnlyToProved`, `SlotCoversChild`, `PasteReachesOrigin`, and the refinement `ImplementsProtocol`. `AttemptsAsked`: a manual attempt after the first is due to an Enter of its own or to a request that was repeated. `EnterReconnects` (liveness): an Enter without a child brings an attempt about |
| `attachment` | one attempt, two frames, one mishap anywhere, reads of three bytes or more, a channel of one | `EvidenceIsTrue`: what the loop is told of readiness and detachment is what the right server did. `OutcomeArrives`: the outcome is not overtaken by the end of the process. `MarkersSplitAnywhere`: the decoder, over every split of up to three pieces of text and markers. `ChildBehaves`: the transport is the child the supervisor assumes |
| `mirror_restart` | one helper, two attempts, two successive coordinators | `ChildAccounted`, `Releasable`, `ReadyNotRevoked`, `ReservedUntilReaped`: what a coordinator believes of a child it may not have started |
| `mirror_fair` | one attempt, one coordinator, two readings, a session that may end while its helper runs | `ReservationEnds`: an overrun admission is given back (liveness). `EndIsTrue`: an end a helper hears of is true, whoever said so |
| `input_gate` | four keys or delimiters, two openings, a channel of one | `EveryKeyOnce`; `PasteNeverTyped`: a paste keeps its generation (`PasteStaysHome`) and presses no Enter |
| `input_gate_stalls` | the same when the reader may be held up for long | violated: see section 6 |
| `desktop` | any two of follow, apply and save, two sessions, two arrangements of two workspaces, one act of the user (none while follow and save are both under way), two acts in an evening when apply runs twice | `OneProjectionEach`, `EffectsUnderLock`, `OnlyOwnWindowsMoved`, `LaunchesBounded`, `PinWholeAndHeld`, `QuitEnds` (liveness) |
| `resume` | up to two resumes, two histories, five desktops, two sessions, three workspaces, one failure or act; then every arrangement, stacks and floating windows included, of three targets and up to one more window, one act of the user | `OneClient`, `LeftOpenAttached`, `RaisesOnlyAllowed`. `CalmResult`: undisturbed, each item planned to be open is, on its target if it has one, and fails only for the reasons listed there, a target that only its index denotes among them. `Converges`: undisturbed, the passes the code allows suffice. `StopsWhenAstray`: after an action with another effect than expected the executor neither acts again nor reports success |
| `resume_titled` | one undisturbed resume, a session open in a window attached by another command line | violated: see section 6 |
| `checkpoints` | two processes, three boots, four captures, one session | `NeverTorn`, `AckedSurvives`, `PruneKeepsSelection`, `PlacementSticks` |
| `checkpoints_clock` | one process, two boots, a clock that is set back | violated: see section 6 |

Every action of every module fires in the passing runs. Deadlock is not checked:
helpers return, an ordering ends, attempts, boots, runs and readings run out.

### 3.1 Why the bounds are enough

- *Coordinator.* Two slots bind only with three helpers, and rotation matters
  only with three; sharing a session needs two helpers, and a session born during
  a probe needs a second session whose helper caused the probe. These are the two
  instances of `recovery`; `ThirdOrMortal` separates them. In both,
  `StampedEarly` keeps what the record is stamped with at the earlier of the two
  readings, so that requests and ticks at the later one find every lease expired and
  retries due.
  Each helper has one attempt here; what a second attempt adds (late reports about
  the first) is in `supervisor` and `mirror_restart`. `FailureCap` saturates at once
  instead of after six failures, `Lease` and the probe periods are one reading.
  For everything but `AdmitFollowsLoop` the theorems remove all of these bounds.
- *Supervisor.* A stale grant, report, paste or packet belongs to the attempt
  before the present one, so two attempts and two generations show it; a queue of
  two packets holds readiness and a final event apart. The theorems remove the bounds.
- *Manual control.* The first attempt begins by itself, the second may use up the
  Enter and the third shows what was left of it, hence three attempts. Enters and
  repeated requests are counted up to two, which is all that three attempts can
  use. One opening is enough for a readiness and a loss queued behind one another. For
  `AttemptsAsked` the theorem removes the bounds.
- *Attachment.* A render and an exit are two frames, a marker and what follows it;
  each hazard of the proof needs one thing to go wrong. A read of three bytes splits every
  marker; output that begins like a marker and holds one of another attempt is
  `MCBodies`. `MaxMarker` is 7 where the code has 128: a marker has 5 bytes, so
  that longer and overlong candidates both occur. For everything but
  `MarkersSplitAnywhere` the theorems remove the bounds.
- *Composition.* The hazards are between one helper, its two
  connections and two successive coordinators; helpers meet only in the
  coordinator, which `recovery` and the theorems cover for several. `mirror_fair`
  follows the end of a session as long as its helper runs and may be told (`EndTold`).
  For everything but `ReservationEnds` the theorems remove the bounds.
- *Input gate.* A paste of one key is a delimiter, a key and a delimiter; the
  fourth unit is what is typed after it. Two openings are an attachment and its
  successor. A channel of one is full at once.
- *Desktop.* A duplicate needs two launches of one session, by two commands or by
  one and the user. That a copied window excuses one needs two acts of the user: he copies the
  window of a launch and closes it, and a second apply finds the session neither open nor
  of its own. A misplaced window needs one act of the user between look and move. `MaxPerPoll` and `MaxTotal` are two for two sessions and may be spent by
  launches that fail or are abandoned in several polls. While follow and save are both
  under way the user leaves the desktop alone (`Restraint`); what he does to either is
  followed beside apply. For everything but `QuitEnds` the theorems remove the bounds.
- *Resume.* A duplicate needs two runs, or one run whose Kitty comes late; one failure or act of
  the user (`MaxMishaps`) falls between any two steps. One desktop has a Kitty with two windows, of which either may be
closed. The workspaces are on two outputs and share an index. With `MaxMishaps` 0 a
resume with a mishap would count as undisturbed, hence the assumption that it is positive. Two readings (`LastTime`)
  make a checkpoint grow too old between plan and launch. That one pass of the
  ordering is not enough shows with three targets and another window. Four targets
  among five windows without a user, and two targets among three windows with
  three acts of the user, were checked as well. For what the user does to the
  ordering, the theorem removes the bound.
- *Checkpoints.* Pruning removes something only when a present, a newest prior
  and an older boot exist: three boots; the fourth capture replaces one of them.

Named bounds: `MaxAttempts`, `MaxOpens`, `MaxQueue`, `MaxStarts`, `MaxTyped`,
`MaxBoots`, `MaxTime`, `MaxDisturbances`, `MaxRuns`, `LastTime`, `MaxMishaps`,
`MaxFrames`, `ReadSizes`, `MaxMarker`, `UserSteps`, `Evenings` (which commands an
evening may run, and how often), and the sets `Times`, `Clients`, `Sessions`,
`Attempts`. `MaxPerPoll` and `MaxTotal` are options of the program.

### 3.2 Mutations

For each checked property `PROJECT.json` names a changed form of a definition that a
plausible bug would produce (defined before the real one, never used by the
specification), and the run detects it: a forgotten reset, a guard dropped, a slot
returned on the wrong path, a sync left out, the lock released too early, a link
that is not verified.

## 4. Assumptions and fairness

- *Clock.* The coordinator and the supervisor assume nothing about readings. In
  `CheckpointStore` readings are distinct; `ClockMayGoBack` says whether they
  may go back. In `ResumeExecutor` the clock advances at any time.
- *Nonces.* Attempts, tokens and client ids are random in the code and fresh
  here; so are process and window ids while they are remembered.
- *Manual control.* One call is under way at a time (`busy`), so `Exchange` is a step.
- *Connections.* In `MirrorRecovery` the requests of one helper are read in the
  order in which they were written, also when written on two connections. The
  code does not enforce this across connections (section 1.3).
- *Processes.* A dead process's children and locks are gone; the server learns
  of it from the pidfd it holds.
- *Host.* A helper is started for an incarnation that exists; an incarnation
  that is gone does not come back.
- *Zellij.* A server that sends a client of its session to another one, and a client that
  follows, are not modelled: the relay turns the request into an exit.
- *Input gate.* In `input_gate` a full channel never holds the reader up for
  `sessionPrefixTimeout` while the rest of a delimiter waits (`Stalls = FALSE`).
  The loop's terminal writes may take 100 ms, so the code does not guarantee it.
- *Desktop.* One window's evidence at most is disturbed in one inspection.
- *File system.* Names are independent, a directory sync settles all of them, a
  synced file is whole.

`mirror_fair`, `desktop` and `supervisor` use fairness. In `mirror_fair`, per helper:

| Condition | Why the code brings it about |
|---|---|
| `WF(Calls)` | the supervisor's 250 ms ticker sends whenever no call is under way |
| `WF(Reaps)` | a child without an open gate overruns its lease on the ticker, is killed, and its end is a select case |
| `WF(Ends)` | a helper that returned exits |
| `WF(CallReturns \/ CallFails)` | every call has a deadline |
| `SF(CallCoordinator)`, `SF(CallReturns)` | a call is repeated for ever; once it finds the coordinator and is read in time |
| `[]<>(stale = None)` | the server reads an abandoned connection to its end and has an idle limit |
| `[]<>(alive or no owner)` | the server's tick removes members whose process is gone |
| `[]<>Answerable => []<>Answers` | a request that can be answered again and again is answered once |

They are stated as cheap predicates rather than as the fairness of whole server
actions, which TLC could not evaluate; each is implied by the fairness of the
action it names.

`desktop` assumes weak fairness of the worker's steps once the run is cancelled:
every wait of the worker is under a context that is then done or has a timeout, and
the scheduler runs it. Nothing is assumed of the screen, the source host, the
launches or the user. That follow ends rests on the worker's choice to leave
whenever its report cannot be delivered.

The manual instance of `supervisor` assumes weak fairness of the ticker (`Ticks`) and strong fairness of a call's
effect and of its reply (`Consults`, `Replied`): the loop calls every 250 ms, and a
call that needs no more than a mutex is not late for ever. Nothing is assumed of the
user or the child.

No fairness is assumed of crashes, losses, deaths or of the host. That a stopped
transport ends, within the second it may drain, is not checked: the fairness of a reader that decodes is
beyond TLC at this size.

## 5. What is proved

`SessionRecoveryProofs` proves, for every set of clients, tokens, sessions and
attempts, every lease and backoff limit, and clocks that go back:

- `TypeCorrect`: `Spec => []TypeOK`;
- `BookkeepingHolds`: `Spec => []Bookkeeping`;
- `CapacityHolds`: `Spec => []PendingBound`.

None of the three is inductive alone. Capacity needs the order to hold members
only, bookkeeping needs members and backoff records to be maps over the right
keys, and the types need the look-ups of `fail` and `reply` to be defined, which
is bookkeeping. The inductive invariant is their conjunction: `Sound(c)` of the
record (`IsCoordinator`, `Consistent`, `WithinCapacity`) with the types of `host`
and `probes`. There is one lemma per method that it preserves `Sound`
(`ExpireSound`, `GrantSound`, `RotateOrderSound`, `AdmitSound`, `RegisterSound`,
`FailSound`, `ExchangeSound`, `FinishProbeSound`, `RemoveSound`, ...). Methods that
only replace members in place go through `MembersReplaced`; the two that permute
or shorten the order go through `TurnPermutes` and `WithoutOne`. The first
admissible place exists by the well-foundedness of `<` on the naturals
(`FiniteMinimum`). The only assumption is `RecoveryConstants`, which TLC
evaluates in every run of the coordinator.

It also proves, about the same specification:

- `EndedOnlyIfGoneHolds`: `Spec => []EndedOnlyIfGone`;
- `UnknownMemberIsProbedHolds`: `Spec => []UnknownMemberIsProbed`.

Both need more than they say. `Informed` is the invariant: at most one probe is in
flight and the record knows it (`Single`); a member that this probe observes had its
session before the probe began (`Fated`), and the host has only grown out of what the
probe began with (`Grown`), so that a session the listing leaves out is gone; and while
some member is not covered by the last listing, a probe is in flight or asked for
(`Sought`). Only four methods decide anything here; the others
are shown to leave the fate of members alone (`Quiet`).

And `ExpiredStaysExpiredHolds`: `Spec => ExpiredStaysExpired`, an action property. Its invariant `AllTied` says that what a member holds is what
it proposed last; without it, a report of an expired attempt could name the
attempt of a grant still held.

`SessionSupervisorProofs` proves, for every number of attempts, every capacity of
the packet channel, every number of openings and arbitrary replies:

- `InputOnlyToProvedHolds`, `SlotCoversChildHolds`, `PasteReachesOriginHolds`:
  `Spec => []...`;
- `ImplementsProtocolHolds`: `Spec => ImplementsProtocol`, the refinement of
  `ProjectionHelper`.

The loop's closures are operators from a record to a record, so there is one
lemma per closure and per select case: it keeps `Good`, and what the other
processes see of the result (`Seen`) is what the protocol allows. `Good` has a part
about the record alone (`Own`: a child is one of the present attempt and, while it
lives, no loss is reported; a proof is one of the present, wanted child; a packet that
proves an attachment was decoded by a decoder that knows of it; a loss is the last report) and one
that relates it to the openings announced so far (`Public`: these are of earlier
attempts or this one; a child that was not announced holds the slot; one that was
announced and is wanted has its gate open; one that was announced and is gone has its
loss in the queue). The last part is what the refinement rests on: an attempt that was
opened once cannot open again, and a new one begins only after the loss was
acknowledged. `SupervisorConstants` is the assumption; its last conjunct says that
`None` is neither a number nor a child.

About the manual control it proves, for the same constants:

- `ManualIsSupervised`: `ManualSpec => Spec`, where `Spec` is that of the loop among
  arbitrary coordinators; hence `ManualInputOnlyToProved`: `ManualSpec => []InputOnlyToProved`;
- `ChildIsGrantedHolds`: `ManualSpec => []ChildIsGranted`; it belongs to no run;
- `AttemptsAskedHolds`: `ManualSpec => []AttemptsAsked`.

The invariant adds to that of the loop that no call under way reports the loss of an
attempt whose child is there (`Unlost`), and that a reply not taken yet grants
nothing but the control's attempt (`Due`). It is stated about what others see of the
loop, so that the lemmas about each select case are used as they are. `None` must
not be one of the two events, nor a reply (`ManualConstants`).

`AttemptsAsked` is the end of an account (`Paced`). An Enter that was not answered yet is
pending in one of three places: in the loop, in the call under way as long as that has no
effect, or in the control (`Pending`). Attempts granted so far and Enters pending are at
most one more than the requests made (`Paid`). That a grant uses up exactly one of them
needs `InStep`: the control knows the loop's present attempt or none, and it forgets one only with
the call that reports its loss, before the loop draws the next; and `Present`: reports and
calls are about the present attempt. Were a loss applied twice, or a call of the
attempt before still under way, one Enter could pay for two attempts. `Passes` says of every
select case that it makes no request of its own, and `PaidOn` that a call that timed out
after it took effect is the only way to ask again.

`MirrorRecoveryProofs` proves, for every number of helpers, sessions and kernel slots, of
attempts, clock readings and successive coordinators:

- `ChildAccountedHolds`, `ReleasableHolds`, `ReadyNotRevokedHolds`, `EndIsTrueHolds`:
  `Spec => []...`;
- `ReservedUntilReapedHolds`: `Spec => ReservedUntilReaped`, an action property.

Each is about a child and a member that may be kept by a coordinator which did not start it,
and none is inductive: a coordinator that restarts knows nobody, and what it will believe of a child
is decided by frames that are still on their way. `MirrorInv` therefore
relates, for each helper, three things at once (`Whole`): what the helper
is doing (`HelperOK`: its reports are about its present attempt, readiness before loss, and a loss only
once the child is gone); what is on its two connections (`WireOK`: at most one request or
reply on the present one, and on the abandoned one a request of the same attempt); and the
member, if the present coordinator has one (`Facing`). Its core is
that a helper which holds an attempt says so in every request that may still be read
(`Telling`), so that a coordinator which reads any of them accounts for the attempt, and that
a reply on its way matches the member as it is now, unless the member's end was decided since. With
it go the coordinator's invariants of `SessionRecoveryProofs` (`Sound`, `Informed`), that only a
member has an owner, that the dead have no child and no gate (`Over`), and that the end told by any reply on its way is true (`TrueEnd`).

There are two kinds of steps. Those of one helper and its connections are a lemma each
(`SendKeeps`, `GivesUp`, `ExchangeInv`, ...), `ExchangeInv` being the one that
follows a request through the coordinator. What the coordinator does for one member
reaches the others by expiry and admission only: towards them their members
*drift* (`AllDriftInv`), which keeps `Whole`. The coordinator's operators are those of an instance
of `SessionRecovery` in `MirrorRecovery`; the first section of the module shows that they are
those of which the earlier modules speak (`SameExchange`, ...), and the tick's removal of several
members at once is the removal one after another (`RemoveKeeps`). A crash leaves a coordinator
that knows nobody and connections without requests (`NewKnowsNobody`). The assumption is
`MirrorConstants`.

`CheckpointStoreProofs` proves, for every number of boots, captures, processes and
sessions:

- `StoreTypeCorrect`: `Spec => []TypeOK`;
- `StoreNeverTorn`: `Spec => []NeverTorn`;
- `StoreAckedSurvives`: `Spec => []AckedSurvives`, where the clock never goes back
  (`ClockMayGoBack = FALSE`);
- `StorePruneKeepsSelection`: `Spec => PruneKeepsSelection`;
- `StorePlacementSticks`: `Spec => PlacementSticks`, where the clock never goes back.

The invariant `StoreInv` has five parts beside the types and the claims. `Alone`:
the lock is held by one process, so what it read stays true until it acts on it.
`Fit`: what that process is about to do is still right – the checkpoint it writes
is synced before it is published and newer than all that was observed (only with
a monotonic clock), and each file it is about to remove is strictly older than a
file of an earlier boot that it keeps. `Settled`: that kept file is on the disk, because
a file of an earlier boot that is seen after a reboot is what the crash left;
without this, pruning could remove the old checkpoint while the new one is still
only visible. `AllSynced`: nothing unsynced is published, so a crash has nothing
to tear. `AckedTaken`: what was acknowledged was observed, so a later capture,
which replaces it before the directory is synced, is at least as new. That
what pruning lists is superseded is `ExpiredIsSuperseded`, from the existence of a
newest checkpoint (`NewestExists`, by well-foundedness); that a superseded file
can go unnoticed is `RemovalKeepsSelected`. The assumption is
`StoreConstants`, which TLC evaluates in both runs of the store.

`AckedSurvives` needs its premise: with a clock that goes back a later capture of
the same boot replaces a newer reading.

So does `PlacementSticks`, as the run `checkpoints_clock` shows: the code carries a
placement from the newest checkpoint by reading (`Carried`), the property asks for the
present boot's first (`Known`). `Dated` makes the two the same (`CarriedIsKnown`): whatever
a crash leaves, the checkpoints of a later boot have later readings, and a
checkpoint not yet published is newer than all that are (`Successive`, from `AllTaken`
and the clock's next reading); and, since the lock is held from the reading of the
history to the rename, that checkpoint still says what the files say when it is
published (`Retains`). Removals and crashes only take away from what may be left
(`ShrinkKeeps`).

`ResumeProofs` proves, for every number of sessions, workspaces, windows, resumes,
failures and acts of the user, all histories, and every desktop to begin with:

- `OneClientHolds`, `LeftOpenAttachedHolds`: `ResumeSpec => []...`;
- `RaisesOnlyAllowedHolds`: `ResumeSpec => RaisesOnlyAllowed`, an action property;
- `StopsWhenAstrayHolds`: `ResumeSpec => []StopsWhenAstray`;
- `MovePermutes`, `MoveKeepsOthers`: moving a column permutes the places, keeps the
  order of the other columns and leaves those outside of the two places where they
  are, the reason why the passes go from the highest column down.

`OneClient` is decided before a launch by a look at windows, although the window of a
Kitty comes late and its client later still: a Kitty that has none of them yet is not seen.
The look is enough because no such Kitty is left behind by anybody. That is `Left`: each living
Kitty that resume launched, but the one it is waiting for, has a window and is attached to its session
as long as its first window is there (`Settled`); so, if no window is attached to a session, none of them is there for it with a client
(`NoWindowMissing`). With it go that window IDs name their processes and that what
was launched is a terminal (`WindowsFit`), that a Kitty runs its session's client or will
(`Clients`), and what the command knows at each step of the launch
(`Stage`): that none is there for the item's session from the look to the launch (`Missing`), then that the Kitty waited
for is of that session, and that the window it found is that Kitty's, from which the last check, that
it alone is attached, concludes that the Kitty is settled. Whatever the world does
between two steps is `Onward`: Kittys end, attach, or lose their client with its window, and none loses
its last window and goes on. The user may close the client's window of a Kitty that has a second one; that
Kitty lives on without a client (`Emptied`). It is no client of the session any more, so neither
`OneClient` nor `Missing` counts it (`HasClient`), and for `LeftOpenAttached` the window it was
launched with is gone. `OnwardKeeps`, `Relaxed` (nobody is waited for any more: the Kitty is settled, or
gone) and `WaitsOn` are the three ways to keep the invariant `LInv`. The assumption is
`ProcessNumbers`.

A session is raised by the client of a Kitty, at any time after the launch, and what allows it
is read before: the catalog, the plan, the checkpoint. `RInv` follows it from there. The checkpoint
selected, if it is of an earlier boot, is the newest, and there is none of this boot
(`SelectionFits`, from `SelectAllFits`); a plan has items for sessions only, and for those of the checkpoint
alone if that is of an earlier boot (`PlanFits`, from `BuildAllFits`); items get other results and stay what they are
(`OtherResultsFit`). So the last look at the catalog and at the clock lets through
what may be raised at that moment (`MayBeRaised`), which is recorded, and the record only grows until the wait
for the Kitty ends (`LivelyGrows`). By `Left` a client that still starts is that of the Kitty waited for, and one that
is seen attached has started (`WaitForAttachmentFits`); then nothing is raised any more. What the
selection of the newest checkpoint (`LatestIs`) and of the candidates (`ChosenAre`) give is proved from the
well-foundedness of `<`. The assumption is `CheckpointsListed`.

For the ordering the invariant `AstrayInv` says where an executor can be when its last action went
astray: in the wait that follows the action, with a workspace that is not the one it
expects, or stopped without success. The wait looks for exactly that workspace, so
it cannot end well unless somebody changes the workspace, which ends the premise.
That the passes converge is model-checked only, as is `CalmResult`, which is about windows counted and about
what was on the desktop before.

`SharedDesktopProofs` proves, for every number of sessions, windows, workspaces,
snapshots, runs of each command and acts of the user, and every pair of budgets:

- `OneProjectionEachHolds`, `LaunchesBoundedHolds`, `PinWholeAndHeldHolds`: `Spec => []...`;
- `EffectsUnderLockHolds`, `OnlyOwnWindowsMovedHolds`: `Spec => ...`, two action properties.

That a launch is the only living one of its session is decided at the last look before it,
and everything may happen in between but a launch by somebody else. The
invariant (`IInv`) therefore has four parts. `Held`: the lock is with exactly the process that is
between its locking and its unlocking. `Desk`: IDs are never given twice (`Used`), a
window with a token shows that launch or is a copy of its window, and a confirmed launch has an
answering helper or a copy. `FollowFit`, `ApplyFit` and `SaveFit`: the sessions that a
command is about to open are `Clear`, that is, none of their launches lives or one of
them is excused; the launch waited for is its own and open, and a window to be moved shows the
confirmed one; the pin read is the pin in the file. `Waited`: only a launch that somebody waits for has an
open fate. The step from a look to `Clear` is `SilentClear`: where no window of the session has an
answering helper (follow concludes this from every window being exact, apply from none being
unverified and none of the session's ambiguous), a launch of the session can be alive only if it was
not confirmed, hence abandoned, since nobody waits for one.
Each action is shown to keep what the acting command knows, and what the others know is kept
by any step that starts no launch under their lock (`FollowFitStays`, `ApplyFitStays`,
`BystandersKeep`). `RoomFit` and `TallyFit` are the account of follow's budgets: the launches of
this run are at most the attempts charged, and those planned still have room. That what follow moves lands
in the frozen destination is `AimLands`: a selector that names the destination alone
does so for as long as nobody rearranges the workspaces.

The assumptions are those of the modules (`DesktopAssumption`, `PinAssumption`,
`FollowAssumption`): `None` is no session, number or command, arrangements and snapshots are finite
lists, budgets are positive.

`SessionAttachmentProofs` proves, for all outputs of the session, any number of frames and
mishaps, any sizes of reads, any capacity of the packet channel and any limit on the length of a
marker:

- `EvidenceIsTrueHolds`, `OutcomeArrivesHolds`: `Spec => []...`;
- `ChildBehavesHolds`: `Spec => ChildBehaves`, that the threads of a transport make the steps
  of the child that `SessionSupervisor` starts from;
- `AttachmentInvariant`: `Spec => []IInv`, from which these follow.

What the loop is told has travelled from the relay, through the client's inbox, its terminal, SSH and the
decoder, and each of them may hold part of a marker. The invariant is therefore about the *stream*: what the
decoder has not decoded followed by what is on the wire (`Stream`). A read moves the boundary
between the two and nothing else, so what the stream says of this attempt (`Says`) does
not depend on how it was split. `IInv` has these parts.

- `PinnedInv`: a client runs, and the relay serves it, only with the socket of the right
  incarnation.
- `ReadyInv`: wherever readiness is (a frame in hand, the inbox, the stream, the
  decoder), the right server rendered before; `OutcomeInv`: wherever an outcome is,
  it is the helper's, and a detachment is due to an exit that the server ordered after readiness.
- `ReapedInv`: the helper writes its marker when nothing can write after it.
- `StreamInv`: while the link is up, the stream does not end inside a marker (`Whole`), and
  whatever begins like one is delimited (`Paired`). A cut ends that, and may leave the beginning of a
  marker for ever; what is said before it remains true.
- `LocalInv`: the decoder is finished exactly when it knows the outcome, a hand that offers
  has something, and a transport counts as reaped only after its reader ended.
- `LosslessInv`: while no output was lost and the loop did not stop the transport, what the helper
  and the relay wrote is in the inbox, in the stream or heard (`ReadyComes`,
  `OutcomeComes`), readiness before the outcome (`ReadyFirst`), and no other output
  hides it (`Clear`): no prefix before a marker of this attempt is without a delimiter of its own. A reader that
  ended has left nothing.

`EvidenceIsTrue` needs the first three; that the outcome arrives needs all of them, for a good
outcome that overtook its readiness would be heard as a failure.

About the decoder there are two lemmas, for every decoder and every stream, whatever has been read of
it. `FeedHears`: what a feed reports is said by a marker in the stream, and what is left
undecoded is a rest of it. `FeedNotices`: in a clear stream a marker is either reported or
still ahead, and at the end of the output nothing is ahead. Each is shown of one round
(`PassHears`, `PassNotices`), in the cases that `PassCases` tells apart: text, a prefix that waits
for more, one that is refused as overlong, a malformed marker, a marker that is learned. It is carried over the
rounds by `DecodeKeeps`, and `DecodeSettles` says that as many rounds as bytes are enough. Both are by the
well-foundedness of `<` (`Induction`, `HasMinimum`), with the function of rounds shown to
exist first (`RunExists`). For the refinement `ViewOfHearing` says that what a feed appends to
the queue is one of the packets that the loop's child may produce, and `ViewOfHandingOver`
that threads which pass packets on show nothing of it.

The assumptions are those of section 2.5.

`SessionInputGateProofs` proves, for any number of keys, of openings and of items in the channel:

- `EveryKeyOnceHolds`: `Spec => []EveryKeyOnce`, whether or not the reader stalls;
- `PasteNeverTypedHolds`: `Spec => []PasteNeverTyped` if it does not (`~Stalls`). The code does not
  promise this; with `Stalls` the theorem is false, as `input_gate_stalls` shows.

`EveryKeyOnce` says that what was typed is what was written, then the items in the channel, then those the
reader holds, then the prefix held back, then the kernel (`Line`); each step but an opening moves a
boundary between two of these, or lengthens it at the near end (`LineSent`, `LineTaken`, and `KeysRead`
for a read). That the decoder takes no byte away, doubles none and changes no order is `DecodeKeeps`:
what it has emitted for the attachment, followed by what it holds back, is what it had held back,
followed by what it was given. For this the stamps must be right, and these are the parts that make the invariant
`KeysInv` inductive: while an attachment is open, the prefix held back and the paste under way are its own (`Steady`),
for a gate opens at a boundary only; and no stamp and no item in flight is of a generation still to come (`Stamped`,
`UpTo`), so the line of a new attachment starts empty (`ItemsUpTo`), whatever the items of earlier ones
are doing. Data are split into items, and joined with their neighbours, at will: `DataConcat` and `EmitIs`
make that invisible.

That no paste becomes typing needs the gate to be in step with the terminal. What a terminal emits leads it
from mode to mode, one byte at a time, outside a paste, inside, or in one of the two delimiters
(`Moves`, `Leads`), and so `Synced`: the gate holds what one holds in some mode (`Fits`), and the bytes
waiting in the kernel lead from there to where the keyboard is. `ByteFits` is the core: a byte that leads
to the next mode makes the gate fit that mode – the delimiters are recognized, also right after the beginning
of one that the user typed by hand – and what is emitted as typing carries nothing of a
paste (`Typing`). `DecodeFits` carries it over the bytes of a read and `LeadsSplit` cuts them
anywhere. The last conjunct of `Synced` says that a prefix whose time is over is not the beginning of a delimiter: this
is where `~Stalls` enters (`PasteWait`: time passes over the prefix only when nothing is waiting, and then the gate
is where the keyboard is, which is not inside a delimiter). From the rest it follows that a gate
opens only when no paste is under way (`PasteOpening`), so a paste typed into an attachment began in it
(`Home`), and what was written to it is the beginning of what was typed.
The constants need no assumption.

The type theorems belong to no run: the types are what the other invariants
rest on. Only model-checked:
`AdmitFollowsLoop`, the liveness of the composition (`ReservationEnds`) and of the manual control
(`EnterReconnects`), that a cancelled follow ends (`QuitEnds`), that the decoder passes on exactly the text, and in the
order it came (`MarkersSplitAnywhere`), what a resume's
plan comes to (`CalmResult`) and the convergence of its ordering. Liveness, and `ENABLED`
in it, is out of TLAPS's reach; so are RECURSIVE operators, which is why
`AdmitFollowsLoop` is checked in reachable states and its loop is kept in the MC module. Recursive
functions are within reach, one at a time, from the well-foundedness of `<` (`Decode`, `DataOf`, the rounds of a feed). `MarkersSplitAnywhere` compares the decoder with the flattening
of the pieces it was given, by a fold.

## 6. What disagrees with the documents

- **A paste delimiter split by a stalled reader** (`input_gate_stalls`).
  `session_terminal.go:23` promises that a paste keeps its generation. `read`
  flushes the held prefix by its age before it reads what is waiting. When a read
  ended inside the opening delimiter and the reader was then blocked on the full
  channel for longer than 30 ms, the paste is not recognized and its tail is
  delivered, as typing, to a later attachment.
- **Placement after a clock that was set back** (`checkpoints_clock`). ADR 0003
  says that a session out of sight keeps its newest placement "first from the
  current boot and then from valid prior boots". `buildRecoveryInventory` orders
  the checkpoints of all boots by time alone, so that, when the present boot's
  clock started behind the last capture of the previous one, the placement of the
  previous boot wins over the one observed in this boot.
- **A workspace of another output** (`resume`). ADR 0001 says that targets resolve
  "by exact name, then output plus index, then index", and `docs/OPERATIONS.md:92` "verify each
  terminal appears in its captured workspace". The planner does resolve output and index, to an ID,
  but the window manager is given the name or else the bare index (`runtime.go:122-129`). A
  window whose target has no name may therefore come to, or stay on, the workspace
  of that index on another output, which the model leaves to the window manager (`Denoted`). The executor then waits
  in vain for the ID and reports the item as failed (`executor.go:315-318`), with nothing
  slow and nobody interfering. `CalmResult` states this case as its
  exception, and the run `resume` meets it: without the exception the property is violated.
- **A second client for a session that is open** (`resume_titled`).
  `docs/OPERATIONS.md:51` says "Rerunning detects an already open session instead of
  creating a duplicate." The planner calls a session open when a window's title
  names it (`procmeta/enricher.go:116`), the executor only when a process below the
  window runs exactly `zellij attach -- <session>` (`executor.go:134`). For a session
  that is attached by another command line the plan says `already_open`, the executor
  finds no window for it and launches one.

One more difference is left to no run. The repository's `README.md:34` says of macOS: "After a
connection drops, **press Enter to reconnect to the same session incarnation**." When the call that carried
an Enter timed out although it took effect, the loop repeats the request, and the control
notes it again although the attempt was granted meanwhile
(`session_manual.go:33`). If that attempt is lost before it is ready, the next poll brings another one without
a new Enter. `AttemptsAsked` counts such a repetition as a request of its own, so it
bounds these attempts but does not exclude them.

## 7. What is not modelled

`PROJECT.json` gives a reason per component. Left out altogether:

- *Creation* (`new.go`, `dual_new.go`, `session_create.go`): one request and its
  answer over SSH in stages that keep no state; each stage's failure is returned.
- *The picker's lists and their loading* (`mirrortui/model.go`, `app.go`); of
  `mirrortui` only the status screen of follow is modelled.
- *SSH command building, the window-manager adapter and process execution,
  configuration, doctor, project identity, the command line's flags and output,
  packaging*: external commands, parsing, formatting and read-only checks.

Within modelled components:

- rendering, window sizes, status texts, the exact form of paths, sockets, frames
  and lock files, and their validation; limits on connections (128 of the
  coordinator, 4 of the relay);
- the floating state, width and fullscreen that resume and apply restore after
  placing a window (`applyOptionalLayout`, `ApplyLayout`);
- the interval between follow's polls and its backoff: the next poll may come at
  any time;
- races within one reading of `/proc`; a reading gives what some moment would;
- `windows.go`, which prints and asks; resume's waiting for the window manager to be
  ready beyond its outcome.

External, modelled from their use: the host's sessions and their listings (the
catalog's stable double reading yields any listing the states in between allow),
the Zellij client and server, Kitty, the window manager, the terminal's bracketed
paste, the kernel's locks, rename, unlink and crashes of the file system.

## 8. Plan

Done, in this order: admission (`SessionRecovery`, its proofs; the helper and its
protocol; the manual control and its proofs; the composition with connections, crashes and election); input and
durability (`SessionInputGate`, `CheckpointStore`, their proofs); resume
(`ResumePlanner`, `ResumeExecutor`, `ColumnOrdering`, `Resume`, its proofs); attachment
(`AttachmentStream`, `SessionAttachment`, its proofs); window following and pins
(`HostSnapshot` to `SharedDesktop`).

Left:

1. **Creation** – staged launches and their partial failures.
2. **Picker** – asynchronous loads and stale results.
3. **Abstract specifications** – an admission service (a set of holders of at most
   two places) that `SessionRecovery` implements; a checkpoint register (the last
   acknowledged capture) that `CheckpointStore` implements.

## 9. Running the checks

```
tlc -workers 2 -config MCSessionRecovery.cfg MCSessionRecovery
tlapm SessionRecoveryProofs.tla
tlapm SessionSupervisorProofs.tla
tlapm CheckpointStoreProofs.tla
tlapm ResumeProofs.tla
tlapm MirrorRecoveryProofs.tla
tlapm SharedDesktopProofs.tla
tlapm SessionAttachmentProofs.tla
tlapm SessionInputGateProofs.tla
```

Every configuration belongs to the module `PROJECT.json` names for it; none takes
more than five minutes on two cores. The community modules `SequencesExt` and
`FiniteSetsExt` must be on the library path.
