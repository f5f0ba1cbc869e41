--------------------------- MODULE SessionAttachment ---------------------------
(***************************************************************************)
(* One attempt to attach to one incarnation of a session, from end to end: *)
(* on the source host the helper "session-attach" (session_attach.go) that *)
(* pins the session's socket (session_socket.go), puts a relay in front of *)
(* it (session_relay.go) and runs a Zellij client against the relay; SSH;  *)
(* and on the client's host the transport that reads what comes out of SSH *)
(* (session_transport.go), up to the packets and the result that the event *)
(* loop of SessionSupervisor is given.                                     *)
(*                                                                         *)
(* The Zellij server and client, SSH and the loop are external.  The       *)
(* server may die, end the session or be replaced by another incarnation   *)
(* of the same name; SSH may be cut; the loop may stop the transport.      *)
(***************************************************************************)
EXTENDS AttachmentStream

CONSTANTS
    None,
    Bodies,      \* what a render may put on the terminal
    MaxFrames,   \* bound on the frames of the server
    MaxMishaps,  \* bound on what goes wrong outside the attempt, or is told it
    ReadSizes,   \* how much one read of the transport may return
    MaxQueue     \* capacity of the packet channel (16 in the code)

ASSUME AttachmentConstants == {MaxFrames, MaxMishaps} \subseteq Nat /\ MaxQueue \in Nat \ {0} /\ ReadSizes \subseteq Nat \ {0}

\* An attempt is a nonce that no program on the terminal knows.
ASSUME NonceUnknown ==
    Bodies \subseteq Seq(STRING) /\ \A body \in Bodies : \A i \in DOMAIN body : body[i] # "mine"

\* A frame in which a prefix may begin also has a delimiter after it.
ASSUME PrefixesDelimited ==
    \A body \in Bodies : \A i \in DOMAIN body :
        body[i] = Head(Prefix) => \E j \in DOMAIN body : j > i /\ body[j] = Delimiter

VARIABLES
    named,    \* the incarnation that has the session's name: "mine", "other" or None
    server,   \* whether the server of "mine" runs
    helper,   \* session-attach: [pc, pinned, hup, status]
    relay,    \* [attached, ready, detached, failed, signalled, conn, frame]
    client,   \* the Zellij client: [state, inbox]
    wire,     \* terminal output between the helper and the transport
    up,       \* whether SSH carries it
    local,    \* the transport: [ssh, dec, outcome, reader, hand, chan, waiter, stopped],
              \* and lossy (history): output may have been lost
    spent,    \* [frames, mishaps], counted to their bounds
    shown     \* history: [rendered, directed], what the server did on the attached connection

vars == <<named, server, helper, relay, client, wire, up, local, spent, shown>>

remote == <<named, server, helper, relay, client, shown>>

-----------------------------------------------------------------------------
(* The helper.  The name is checked, the socket linked into a directory of *)
(* its own, and the link checked again.                                    *)

At(pc) == helper.pc = pc

Mishap == spent.mishaps < MaxMishaps /\ spent' = [spent EXCEPT !.mishaps = @ + 1]

\* Every way but "detached" to say that the attempt is over.
Fails(status) == helper' = [helper EXCEPT !.pc = "mark", !.status = status]

Outside == <<named, server, relay, client, wire, up, local, shown>>

Elsewhere == <<Outside, spent>>

Checks ==
    /\ At("check")
    /\ IF named = "mine" THEN helper' = [helper EXCEPT !.pc = "link"] ELSE Fails("failed")
    /\ UNCHANGED Elsewhere

Links ==
    /\ At("link")
    /\ IF named = None THEN Fails("failed")
       ELSE helper' = [helper EXCEPT !.pc = "verify", !.pinned = named]
    /\ UNCHANGED Elsewhere

VerifiesUnlinked ==
    /\ At("verify")
    /\ helper' = [helper EXCEPT !.pc = "start"]
    /\ UNCHANGED Elsewhere

Verifies ==
    /\ At("verify")
    /\ IF helper.pinned = "mine" THEN helper' = [helper EXCEPT !.pc = "start"] ELSE Fails("failed")
    /\ UNCHANGED Elsewhere

\* An error of the file system, no relay, no client, or no time left.
GivesUp ==
    /\ helper.pc \in {"check", "link", "verify", "start"}
    /\ Fails("failed")
    /\ Mishap
    /\ UNCHANGED Outside

StartsClient ==
    /\ At("start")
    /\ helper' = [helper EXCEPT !.pc = "run"]
    /\ client' = [client EXCEPT !.state = "runs"]
    /\ UNCHANGED <<named, server, relay, wire, up, local, spent, shown>>

\* A signal, or SSH's end of the terminal is gone.
HangsUp ==
    /\ ~helper.hup /\ ~At("gone")
    /\ helper' = [helper EXCEPT !.hup = TRUE]
    /\ Mishap
    /\ UNCHANGED Outside

\* From here on the relay is closed and the client killed.
Cancelled == helper.hup \/ helper.pc \in {"reap", "mark", "gone"}

SeesExit ==
    /\ At("run") /\ client.state \in {"done", "died"}
    /\ Fails(IF ~helper.hup /\ relay.detached /\ client.state = "done" THEN "detached" ELSE "failed")
    /\ UNCHANGED Elsewhere

SeesReady ==
    /\ At("run") /\ relay.signalled /\ helper.deadline
    /\ helper' = [helper EXCEPT !.deadline = FALSE]
    /\ UNCHANGED Elsewhere

\* The relay refused something, the deadline passed or the helper was told
\* to end: the client is killed, and reaped first.
Aborts ==
    /\ At("run") /\ (relay.failed \/ helper.deadline \/ helper.hup)
    /\ helper' = [helper EXCEPT !.pc = "reap", !.status = "failed"]
    /\ UNCHANGED Elsewhere

Reaps ==
    /\ At("reap") /\ client.state \in {"done", "died"}
    /\ helper' = [helper EXCEPT !.pc = "mark"]
    /\ UNCHANGED Elsewhere

\* What is written while SSH is up arrives, if it is still read.
Writes(bytes) == wire' = IF local.reader = "ended" THEN wire ELSE wire \o bytes

\* The client is reaped and the relay done: nothing follows the marker.
MarksOutcome ==
    /\ At("mark") /\ relay.conn \in {"none", "closed"}
    /\ Writes(AttachmentMarker("mine", helper.status))
    /\ helper' = [helper EXCEPT !.pc = "gone"]
    /\ UNCHANGED <<named, server, relay, client, up, local, spent, shown>>

HelperDies ==
    /\ ~At("gone")
    /\ helper' = [helper EXCEPT !.pc = "gone", !.status = None]
    /\ relay' = [relay EXCEPT !.conn = "closed"]
    /\ Mishap
    /\ UNCHANGED <<named, server, client, wire, up, local, shown>>

-----------------------------------------------------------------------------
(* The relay.                                                              *)

Around == <<named, server, helper, wire, up, local>>

\* The first message of a connection to the relay.  One that asks for the
\* status is answered without consequences.
Accepts ==
    /\ At("run") /\ client.state = "runs"
    /\ \/ ~relay.attached /\ relay' = [relay EXCEPT !.attached = TRUE, !.conn = "dial"]
       \/ ~relay.failed /\ relay' = [relay EXCEPT !.failed = TRUE]
    /\ UNCHANGED <<client, spent, shown>> /\ UNCHANGED Around

Dials ==
    /\ relay.conn = "dial"
    /\ \/ /\ server \/ helper.pinned # "mine"
          /\ relay' = [relay EXCEPT !.conn = "open"]
       \/ relay' = [relay EXCEPT !.conn = "closed", !.failed = TRUE]
    /\ UNCHANGED <<client, spent, shown>> /\ UNCHANGED Around

\* A message that an attached client must not send, or an error: the
\* connection to the server is closed under the other direction.
ClosesServer ==
    /\ relay.conn = "open"
    /\ \E failed \in BOOLEAN : relay' = [relay EXCEPT !.conn = "severed", !.failed = @ \/ failed]
    /\ Mishap
    /\ UNCHANGED <<client, shown>> /\ UNCHANGED Around

Renders == {[kind |-> "render", body |-> b] : b \in Bodies}
Exits == [kind |-> "exit", body |-> <<>>]
ExitsBadly == [kind |-> "broken", body |-> <<>>]

ASSUME NoneIsNothing ==
    /\ None \notin {"mine", "other", "detached", "failed"} /\ None \notin Seq(Events)
    /\ None \notin Renders \cup {Exits, ExitsBadly}

\* A frame of the server; that it wants to switch the session is turned into
\* a detach.
RelayReads ==
    /\ relay.conn = "open" /\ relay.frame = None /\ spent.frames < MaxFrames
    /\ server \/ helper.pinned # "mine"
    /\ \E f \in Renders \cup {Exits, ExitsBadly} :
          /\ relay' = [relay EXCEPT !.frame = f]
          /\ shown' = [shown EXCEPT !.rendered = IF f.kind = "render" THEN helper.pinned ELSE @,
                                    !.directed = @ \/ (f.kind = "exit" /\ shown.rendered = "mine")]
    /\ spent' = [spent EXCEPT !.frames = @ + 1]
    /\ UNCHANGED client /\ UNCHANGED Around

Delivered(f) == client.state = "runs" /\ client' = [client EXCEPT !.inbox = Append(@, f)]

Ready == [kind |-> "ready", body |-> AttachmentMarker("mine", "ready")]

RelayMarks ==
    /\ relay.conn \in {"open", "severed"} /\ relay.frame # None
    /\ relay.frame.kind = "render" /\ ~relay.ready
    /\ \/ relay' = [relay EXCEPT !.ready = TRUE, !.signalled = TRUE] /\ Delivered(Ready)
       \/ relay' = [relay EXCEPT !.ready = TRUE, !.frame = None, !.conn = "closed"] /\ UNCHANGED client
    /\ UNCHANGED <<spent, shown>> /\ UNCHANGED Around

RelayForwards ==
    /\ relay.conn \in {"open", "severed"} /\ relay.frame # None
    /\ relay.frame.kind = "render" => relay.ready
    /\ LET f == relay.frame
           on == [relay EXCEPT !.frame = None,
                               !.detached = IF f.kind = "exit" THEN relay.ready ELSE @]
           off == [on EXCEPT !.conn = "closed"]
       IN \/ relay' = (IF f.kind = "render" THEN on ELSE off) /\ Delivered(f)
          \/ relay' = off /\ UNCHANGED client
    /\ UNCHANGED <<spent, shown>> /\ UNCHANGED Around

\* The server's end of the connection, or the cancellation of the relay.
RelayCloses ==
    /\ \/ relay.conn \in {"open", "severed"} /\ relay.frame = None
       \/ relay.conn \in {"dial", "open", "severed"} /\ Cancelled
    /\ relay' = [relay EXCEPT !.conn = "closed", !.frame = None]
    /\ UNCHANGED <<client, spent, shown>> /\ UNCHANGED Around

-----------------------------------------------------------------------------
(* The Zellij client and its server.                                       *)

Apart == UNCHANGED <<named, server, helper, relay, up, local, shown>>

ClientReads ==
    /\ client.state = "runs" /\ client.inbox # <<>>
    /\ LET f == Head(client.inbox)
       IN /\ Writes(f.body)
          /\ client' = [state |-> CASE f.kind = "exit" -> "done" [] f.kind = "broken" -> "died"
                                    [] OTHER -> "runs",
                        inbox |-> Tail(client.inbox)]
    /\ UNCHANGED spent /\ Apart

\* It lost its server and read what it had been sent; it is killed; or it fails.
ClientEnds ==
    /\ client.state = "runs"
    /\ \/ /\ relay.conn \in {"none", "closed"} /\ client.inbox = <<>> /\ UNCHANGED spent
          /\ \E state \in {"done", "died"} : client' = [state |-> state, inbox |-> <<>>]
       \/ /\ Cancelled /\ UNCHANGED spent
          /\ client' = [state |-> "died", inbox |-> <<>>]
       \/ /\ Mishap
          /\ client' = [state |-> "died", inbox |-> <<>>]
    /\ UNCHANGED wire /\ Apart

\* The session of this name ends, or is created again.
Renamed ==
    /\ named # "other" /\ named' \in {None, "other"} \ {named}
    /\ Mishap
    /\ UNCHANGED <<server, helper, relay, client, wire, up, local, shown>>

ServerEnds ==
    /\ server /\ server' = FALSE
    /\ Mishap
    /\ UNCHANGED <<named, helper, relay, client, wire, up, local, shown>>

-----------------------------------------------------------------------------
(* SSH and the transport.                                                  *)

Cut(bytes) == {SubSeq(bytes, 1, k) : k \in 0..Len(bytes)}

\* The remote command has ended and all of its output was carried over, or
\* SSH fails, or it is killed.
SSHEnds ==
    /\ local.ssh
    /\ \/ /\ At("gone") /\ up /\ UNCHANGED wire
          /\ local' = [local EXCEPT !.ssh = FALSE] /\ UNCHANGED spent
       \/ /\ wire' \in Cut(wire) /\ (IF local.stopped THEN UNCHANGED spent ELSE Mishap)
          /\ local' = [local EXCEPT !.ssh = FALSE, !.lossy = TRUE]
    /\ up' = FALSE
    /\ UNCHANGED remote

\* The network goes away and SSH does not know yet.
LinkCuts ==
    /\ up /\ up' = FALSE /\ Mishap
    /\ wire' \in Cut(wire)
    /\ local' = [local EXCEPT !.lossy = TRUE]
    /\ UNCHANGED remote

Closed == local.stopped \/ local.waiter = "forced"

LastOutcome(events, before) ==
    LET final == {i \in DOMAIN events : events[i] # "ready"}
    IN IF final = {} THEN before ELSE events[Max(final)]

Quiet(d) == d.out = <<>> /\ d.events = <<>>

\* data was read, and eof tells whether that was the last of it.
Decoded(data, eof) ==
    \E d \in {Feed(local.dec, data, eof)} :
        local' = [local EXCEPT !.dec = [d EXCEPT !.out = <<>>, !.events = <<>>],
                               !.outcome = LastOutcome(d.events, @),
                               !.hand = IF Quiet(d) THEN None ELSE d.events,
                               !.reader = CASE ~Quiet(d) -> IF eof THEN "last" ELSE "offer"
                                            [] eof -> "ended" [] OTHER -> "read"]

ReaderReads ==
    /\ local.reader = "read"
    /\ \/ /\ ~Closed
          /\ \E size \in ReadSizes :
                LET k == Min({size, Len(wire)})
                IN k > 0 /\ Decoded(SubSeq(wire, 1, k), FALSE) /\ wire' = SubSeq(wire, k + 1, Len(wire))
       \/ /\ Closed \/ (~local.ssh /\ wire = <<>>)
          /\ Decoded(<<>>, TRUE) /\ wire' = <<>>
    /\ UNCHANGED <<up, remote, spent>>

\* Cut off, the reader leaves the packet in its hand.
ReaderGoesOn == IF local.reader = "last" THEN "ended" ELSE "read"

ReaderOffers ==
    /\ local.reader \in {"offer", "last"}
    /\ \/ /\ Len(local.chan) < MaxQueue
          /\ local' = [local EXCEPT !.chan = Append(@, local.hand), !.hand = None,
                                    !.reader = ReaderGoesOn]
       \/ Closed /\ local' = [local EXCEPT !.reader = "ended"]
    /\ UNCHANGED <<wire, up, remote, spent>>

\* SSH is reaped; then its output has a second to be drained.
WaiterReaps ==
    /\ local.waiter = "wait" /\ ~local.ssh
    /\ local' = [local EXCEPT !.waiter = "drain"]
    /\ UNCHANGED <<wire, up, remote, spent>>

WaiterTimesOut ==
    /\ local.waiter = "drain" /\ local.reader # "ended"
    /\ local' = [local EXCEPT !.waiter = "forced", !.lossy = TRUE]
    /\ UNCHANGED <<wire, up, remote, spent>>

WaiterEndsUndrained ==
    /\ local.waiter \in {"drain", "forced"}
    /\ local' = [local EXCEPT !.waiter = "done"]
    /\ UNCHANGED <<wire, up, remote, spent>>

WaiterEnds ==
    /\ local.waiter \in {"drain", "forced"} /\ local.reader = "ended"
    /\ local' = [local EXCEPT !.waiter = "done"]
    /\ UNCHANGED <<wire, up, remote, spent>>

\* The supervisor's loop takes a packet, or has no more use for the child.
LoopTakes ==
    /\ local.chan # <<>>
    /\ local' = [local EXCEPT !.chan = Tail(@)]
    /\ UNCHANGED <<wire, up, remote, spent>>

LoopStops ==
    /\ ~local.stopped /\ local.waiter # "done"
    /\ local' = [local EXCEPT !.stopped = TRUE]
    /\ UNCHANGED <<wire, up, remote, spent>>

-----------------------------------------------------------------------------
(* The specification.                                                      *)

Init ==
    /\ named = "mine" /\ server = TRUE
    /\ helper = [pc |-> "check", pinned |-> None, hup |-> FALSE, deadline |-> TRUE, status |-> None]
    /\ relay = [attached |-> FALSE, ready |-> FALSE, detached |-> FALSE, failed |-> FALSE,
                signalled |-> FALSE, conn |-> "none", frame |-> None]
    /\ client = [state |-> "none", inbox |-> <<>>]
    /\ wire = <<>> /\ up = TRUE
    /\ local = [ssh |-> TRUE, dec |-> NewDecoder, outcome |-> None, reader |-> "read",
                hand |-> None, chan |-> <<>>, waiter |-> "wait", lossy |-> FALSE, stopped |-> FALSE]
    /\ spent = [frames |-> 0, mishaps |-> 0] /\ shown = [rendered |-> None, directed |-> FALSE]

HelperStep ==
    \/ Checks \/ Links \/ Verifies \/ GivesUp \/ StartsClient \/ HangsUp
    \/ SeesExit \/ SeesReady \/ Aborts \/ Reaps \/ MarksOutcome \/ HelperDies

RelayStep ==
    \/ Accepts \/ Dials \/ ClosesServer \/ RelayReads \/ RelayMarks \/ RelayForwards \/ RelayCloses

ZellijStep == ClientReads \/ ClientEnds \/ Renamed \/ ServerEnds

TransportStep == ReaderReads \/ ReaderOffers \/ WaiterReaps \/ WaiterTimesOut \/ WaiterEnds

LoopStep == LoopTakes \/ LoopStops

\* Nothing on the source host is seen any more once the link is down.
Next ==
    \/ up /\ (HelperStep \/ RelayStep \/ ZellijStep)
    \/ SSHEnds \/ LinkCuts \/ TransportStep \/ LoopStep

Spec == Init /\ [][Next]_vars

-----------------------------------------------------------------------------
(* What the loop may rely on: its own model of a child.                    *)

View == [attempt |-> 1, running |-> local.waiter # "done", killed |-> local.stopped,
         ready |-> local.dec.ready, outcome |-> local.outcome,
         queue |-> IF local.hand = None THEN local.chan ELSE Append(local.chan, local.hand)]

Loop == INSTANCE SessionSupervisor
        WITH MaxAttempts <- 1, MaxOpens <- 1, MaxQueue <- MaxQueue + 1, h <- [child |-> View],
             started <- {}, acked <- {}, announced <- {}, pasted <- None

ASSUME ChildIsSomething == None \notin Loop!Children

-----------------------------------------------------------------------------
(* Properties.                                                             *)

\* The transport is a child as the event loop knows it: readiness once, one
\* final event, nothing afterwards, whatever is cut, split or stopped.
ChildBehaves ==
    [][View' # View =>
          \/ [child |-> View'] \in Loop!ChildSteps([child |-> View])
          \/ View.queue # <<>> /\ View' = [View EXCEPT !.queue = Tail(@)]
          \/ View' = [View EXCEPT !.killed = TRUE]]_vars

\* What the loop is told is true: it may open the input gate only when the
\* server of the very incarnation that was asked for has rendered on the
\* attached connection, and give up its terminal only when that server then
\* directed its client to end, and the client ended well.
EvidenceIsTrue ==
    /\ local.dec.ready => shown.rendered = "mine"
    /\ local.outcome = "detached" => shown.directed /\ client.state = "done"

\* Unless output was lost or the loop stopped the transport, the outcome the
\* helper reported has been seen when the child counts as reaped.
OutcomeArrives ==
    local.waiter = "done" /\ ~local.lossy /\ ~local.stopped => local.outcome = helper.status

=============================================================================
