--------------------------- MODULE SessionInputGate ---------------------------
(***************************************************************************)
(* The input of the one physical terminal that outlives its SSH children   *)
(* (internal/mirror/session_terminal.go), and the event loop's use of it   *)
(* (session_supervisor.go, lines 325-340).                                 *)
(*                                                                         *)
(* A reader moves bytes from the kernel to a channel, stamped with the     *)
(* generation of the attachment that was open when they were read; the     *)
(* loop writes an item to its child if that generation is still the open   *)
(* one.  Opening a generation drains the kernel first.  A bracketed paste  *)
(* keeps the generation it began with, so the bytes of its delimiters are  *)
(* held back until they are recognized or turn out to be something else.   *)
(*                                                                         *)
(* Five keys stand for the bytes: "e" for the common beginning ESC [ 2 0   *)
(* of the delimiters, "0" and "1" for the byte that tells them apart, "t"  *)
(* for the closing ~, and "x" for ordinary input that contains an Enter.   *)
(* A terminal emits the bytes of a delimiter together; a read of the       *)
(* kernel may end anywhere.                                                *)
(***************************************************************************)
EXTENDS Integers, SequencesExt

CONSTANTS
    MaxTyped,   \* bound on what the user types: keys and delimiters
    MaxOpens,   \* bound on the gate's generations
    MaxQueue,   \* capacity of the channel (16 in the code)
    Stalls      \* a full channel may hold the reader up for longer than
                \* sessionPrefixTimeout while a held delimiter's rest waits

ASSUME GateConstants ==
    /\ MaxTyped \in Nat /\ MaxOpens \in Nat \ {0} /\ MaxQueue \in Nat \ {0}
    /\ Stalls \in BOOLEAN

VARIABLES
    gate,      \* the sessionInputGate
    kernel,    \* bytes typed and not yet read
    outbox,    \* items the reader has decoded and not yet sent
    channel,   \* the channel input between reader and loop
    keyboard,  \* the terminal: units typed, the origin of the paste under way
    typed,     \* history: the bytes typed since the last opening
    sent,      \* history: those written to the attachment since then
    cause      \* history: the input that last asked for a retry

loop == <<typed, sent, cause>>
vars == <<gate, kernel, outbox, channel, keyboard, loop>>

PasteStart == <<"e", "0", "t">>
PasteEnd   == <<"e", "1", "t">>

NoPaste == -1

-----------------------------------------------------------------------------
(* The decoder.                                                            *)

\* late: sessionPrefixTimeout has passed since prefixAt.
NewGate ==
    [generation |-> 0, next |-> 0, paste |-> FALSE, pasteGeneration |-> 0,
     prefix |-> <<>>, prefixGeneration |-> 0, late |-> FALSE]

Keys(bytes) == [i \in DOMAIN bytes |-> bytes[i].key]

Target(g) == IF g.paste THEN PasteEnd ELSE PasteStart

Item(generation, data, paste) == [generation |-> generation, data |-> data, paste |-> paste]

\* emit: neighbours of one generation and kind are joined.
Emit(items, item) ==
    IF item.data = <<>> THEN items
    ELSE IF items # <<>> /\ Last(items).generation = item.generation
                         /\ Last(items).paste = item.paste
         THEN [items EXCEPT ![Len(items)].data = @ \o item.data]
         ELSE Append(items, item)

\* How much of the held bytes is not the beginning of the delimiter that is
\* expected: they are given up one by one until the rest is, or is empty.
GivenUp(held, target) ==
    CHOOSE k \in 0..Len(held) :
        /\ IsPrefix(Keys(SubSeq(held, k + 1, Len(held))), target)
        /\ \A j \in 0..(k - 1) : ~IsPrefix(Keys(SubSeq(held, j + 1, Len(held))), target)

Epoch(g) == IF g.paste THEN g.pasteGeneration ELSE g.generation

\* Bytes given up are paste or not as the gate is.
GivenUpPlain(g, origin, bytes) == Item(origin, bytes, FALSE)

GivenUpItem(g, origin, bytes) == Item(origin, bytes, g.paste)

Delimited(g, origin) ==
    [g EXCEPT !.prefix = <<>>, !.prefixGeneration = origin, !.paste = ~@,
              !.pasteGeneration = IF g.paste THEN @ ELSE origin]

\* decode, for one byte: the gate and the items after it.
DecodeByte(d, b) ==
    LET g      == [d.gate EXCEPT !.late = @ /\ d.gate.prefix # <<>>]
        origin == IF g.prefix = <<>> THEN Epoch(g) ELSE g.prefixGeneration
        held   == Append(g.prefix, b)
        k      == GivenUp(held, Target(g))
        rest   == SubSeq(held, k + 1, Len(held))
        items  == Emit(d.items, GivenUpItem(g, origin, SubSeq(held, 1, k)))
    IN IF Keys(rest) = Target(g)
       THEN [gate  |-> Delimited([g EXCEPT !.prefix = rest], origin),
             items |-> Emit(items, Item(origin, rest, TRUE))]
       ELSE [gate  |-> [g EXCEPT !.prefix = rest, !.prefixGeneration = origin], items |-> items]

Decode(g, bytes) ==
    LET decoded[n \in 0..Len(bytes)] == IF n = 0 THEN [gate |-> g, items |-> <<>>]
                                        ELSE DecodeByte(decoded[n - 1], bytes[n])
    IN decoded[Len(bytes)]

\* flushPrefix: held bytes whose time is over are ordinary input.
FlushSilently(g) ==
    [gate  |-> IF g.late THEN [g EXCEPT !.prefix = <<>>, !.late = FALSE] ELSE g,
     items |-> <<>>]

Flush(g) ==
    IF ~g.late \/ g.prefix = <<>> THEN [gate |-> g, items |-> <<>>]
    ELSE [gate  |-> [g EXCEPT !.prefix = <<>>, !.late = FALSE],
          items |-> <<Item(g.prefixGeneration, g.prefix, g.paste)>>]

-----------------------------------------------------------------------------
(* The terminal.                                                           *)

Units == IF keyboard.paste = NoPaste THEN {<<"x">>, <<"e">>, PasteStart} ELSE {<<"x">>, PasteEnd}

\* A byte belongs to the attachment that is open when it, or the paste it
\* is part of, reaches the terminal.
Type(unit) ==
    LET paste == IF unit = PasteStart THEN gate.generation ELSE keyboard.paste
        bytes == [i \in DOMAIN unit |->
                    [key |-> unit[i], pasted |-> paste # NoPaste,
                     origin |-> IF paste = NoPaste THEN gate.generation ELSE paste]]
    IN /\ keyboard.units < MaxTyped
       /\ keyboard' = [units |-> keyboard.units + 1,
                       paste |-> IF unit = PasteEnd THEN NoPaste ELSE paste]
       /\ kernel' = kernel \o bytes
       /\ typed' = IF gate.generation = 0 THEN typed ELSE typed \o bytes
       /\ UNCHANGED <<gate, outbox, channel, sent, cause>>

-----------------------------------------------------------------------------
(* The reader.                                                             *)

\* One round: held bytes are flushed before what is waiting is read.  When
\* the poll found nothing, nothing is read.
Read(n) ==
    LET flushed == Flush(gate)
        decoded == Decode(flushed.gate, SubSeq(kernel, 1, n))
    IN /\ outbox = <<>>
       /\ gate' = decoded.gate
       /\ outbox' = flushed.items \o decoded.items
       /\ kernel' = SubSeq(kernel, n + 1, Len(kernel))
       /\ UNCHANGED <<channel, keyboard, loop>>

Send ==
    /\ outbox # <<>> /\ Len(channel) < MaxQueue
    /\ outbox' = Tail(outbox)
    /\ channel' = Append(channel, Head(outbox))
    /\ UNCHANGED <<gate, kernel, keyboard, loop>>

Blocked == outbox # <<>> /\ Len(channel) = MaxQueue

\* Time passes over the held bytes.  The reader reads at once what is
\* waiting, unless it is held up in sending what it read before.
Wait ==
    /\ gate.prefix # <<>> /\ ~gate.late
    /\ kernel = <<>> \/ (Stalls /\ Blocked)
    /\ gate' = [gate EXCEPT !.late = TRUE]
    /\ UNCHANGED <<kernel, outbox, channel, keyboard, loop>>

-----------------------------------------------------------------------------
(* The loop.                                                               *)

Closed(g) == [g EXCEPT !.generation = 0]

DrainBlindly(n) == gate

\* open discards what is waiting, but decodes it.
Drain(n) == Decode(gate, SubSeq(kernel, 1, n)).gate

Boundary(g, rest) == rest = <<>> /\ ~g.paste /\ g.prefix = <<>>

\* open, called for a child that proved its attachment.  A terminal that
\* keeps sending is drained in part, by sixteen full reads: what is held
\* after them came with them.
Opening ==
    /\ gate.generation = 0 /\ gate.next < MaxOpens
    /\ \E n \in 0..Len(kernel) :
         LET drained == Drain(n)
             rest == SubSeq(kernel, n + 1, Len(kernel))
             g == IF rest = <<>> THEN Flush(drained).gate ELSE [drained EXCEPT !.late = FALSE]
         IN /\ kernel' = rest
            /\ IF Boundary(g, rest)
               THEN /\ gate' = [g EXCEPT !.next = @ + 1, !.generation = g.next + 1]
                    /\ typed' = <<>> /\ sent' = <<>>
               ELSE gate' = g /\ UNCHANGED <<typed, sent>>

\* open returns at once: no proved child, or the gate is open.
NotOpening == UNCHANGED <<gate, kernel, typed, sent>>

HasEnter(bytes) == \E i \in DOMAIN bytes : bytes[i].key = "x"

\* An item that is for the attachment: written to its child, which is lost
\* when that fails.
TakeInput ==
    /\ channel # <<>>
    /\ gate.generation # 0 /\ Head(channel).generation = gate.generation
    /\ \/ sent' = sent \o Head(channel).data /\ UNCHANGED gate
       \/ gate' = Closed(gate) /\ UNCHANGED sent
    /\ channel' = Tail(channel)
    /\ UNCHANGED <<kernel, outbox, keyboard, typed, cause>>

\* Any other item is dropped; typed Enter on the status screen asks for a
\* retry.  Then open is called.
TakeOther ==
    /\ channel # <<>>
    /\ LET item == Head(channel) IN
       /\ gate.generation = 0 \/ item.generation # gate.generation
       /\ cause' = IF /\ gate.generation = 0 /\ item.generation = 0
                      /\ ~item.paste /\ HasEnter(item.data)
                   THEN item.data ELSE cause
    /\ channel' = Tail(channel)
    /\ Opening \/ NotOpening
    /\ UNCHANGED <<outbox, keyboard>>

\* The other cases of the loop: a tick or output calls open, a loss closes.
Tick == Opening /\ UNCHANGED <<outbox, channel, keyboard, cause>>

Lose ==
    /\ gate.generation # 0
    /\ gate' = Closed(gate)
    /\ UNCHANGED <<kernel, outbox, channel, keyboard, loop>>

-----------------------------------------------------------------------------
(* The specification.                                                      *)

Init ==
    /\ gate = NewGate
    /\ kernel = <<>> /\ outbox = <<>> /\ channel = <<>>
    /\ keyboard = [units |-> 0, paste |-> NoPaste]
    /\ typed = <<>> /\ sent = <<>> /\ cause = <<>>

Next ==
    \/ \E unit \in Units : Type(unit)
    \/ \E n \in 0..Len(kernel) : Read(n)
    \/ Send \/ Wait
    \/ TakeInput \/ TakeOther \/ Tick \/ Lose

Spec == Init /\ [][Next]_vars

-----------------------------------------------------------------------------
(* Properties.                                                             *)

\* The data of the items of one generation, in order.
DataOf(items, generation) ==
    LET data[n \in 0..Len(items)] ==
          IF n = 0 THEN <<>>
          ELSE data[n - 1] \o (IF items[n].generation = generation THEN items[n].data ELSE <<>>)
    IN data[Len(items)]

\* Those for the open attachment.
Bound(items) == DataOf(items, gate.generation)

\* While an attachment is open, everything typed since it opened reaches it
\* once and in order: it was written, or is in flight, and nothing typed
\* before the opening is ahead of it (open, lines 53-55, 80-89).
EveryKeyOnce ==
    gate.generation # 0 =>
        typed = sent \o Bound(channel) \o Bound(outbox) \o gate.prefix \o kernel

\* A paste keeps the generation it began with: its tail is not delivered to
\* an attachment that opened in its midst (lines 22-24).
PasteStaysHome ==
    \A i \in DOMAIN sent : sent[i].pasted => sent[i].origin = gate.next

\* Nothing of a paste ever becomes typing: its tail neither reaches a later
\* attachment nor presses Enter on the status screen (session_supervisor.go,
\* line 334).
PasteNeverTyped == PasteStaysHome /\ \A i \in DOMAIN cause : ~cause[i].pasted

=============================================================================
