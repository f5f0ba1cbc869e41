--------------------------- MODULE AttachmentStream ---------------------------
(***************************************************************************)
(* The lifecycle markers in an attachment's terminal output                *)
(* (internal/mirror/session_stream.go).  A marker is a prefix, the attempt *)
(* it belongs to, an event and a delimiter; everything else is ordinary    *)
(* terminal data and is passed on.  The decoder is fed whatever a read     *)
(* returned, so a marker may come in pieces.                               *)
(*                                                                         *)
(* A byte is a string here.  Two of them stand for the prefix, one for an  *)
(* attempt and one for an event.                                           *)
(***************************************************************************)
EXTENDS Naturals, Sequences, FiniteSets, SequencesExt

CONSTANT MaxMarker   \* no marker is as long (128 in the code)

Prefix == <<"rs", "v1">>
Delimiter == "us"

Tokens == {"mine", "old"}      \* the attempt of this transport, and another one
Events == {"ready", "detached", "failed"}    \* every other outcome is a failure

AttachmentMarker(token, event) == Prefix \o <<token, event, Delimiter>>

IsMarker(bytes) ==
    \E token \in Tokens, event \in Events : bytes = AttachmentMarker(token, event)

ASSUME MarkersFit ==
    /\ MaxMarker \in Nat
    /\ \A token \in Tokens, event \in Events : Len(AttachmentMarker(token, event)) <= MaxMarker

\* pending is undecoded; out and events are what the present feed produced.
NewDecoder == [pending |-> <<>>, ready |-> FALSE, finished |-> FALSE, out |-> <<>>, events |-> <<>>]

StartsAt(bytes, i) ==
    /\ i + Len(Prefix) - 1 <= Len(bytes)
    /\ SubSeq(bytes, i, i + Len(Prefix) - 1) = Prefix

\* The first n bytes are terminal data.
Flush(d, n) == [d EXCEPT !.out = @ \o SubSeq(d.pending, 1, n),
                         !.pending = SubSeq(d.pending, n + 1, Len(d.pending))]

\* How much of the end may be the beginning of a prefix.
KeepNone(bytes) == 0

Keep(bytes) ==
    Max({0} \cup {n \in 1..(Len(Prefix) - 1) :
        n <= Len(bytes) /\ SubSeq(bytes, Len(bytes) - n + 1, Len(bytes)) = SubSeq(Prefix, 1, n)})

Learn(d, token, event) ==
    IF token # "mine" \/ d.finished THEN d
    ELSE IF event = "ready"
    THEN IF d.ready THEN d ELSE [d EXCEPT !.ready = TRUE, !.events = Append(@, event)]
    ELSE [d EXCEPT !.finished = TRUE,
                   !.events = Append(@, IF event = "detached" /\ ~d.ready THEN "failed" ELSE event)]

\* One pass of the decoder's loop.  It changes nothing when there is no data
\* left, or only the beginning of a marker that more data may complete.
Pass(d, eof) ==
    LET starts == {i \in DOMAIN d.pending : StartsAt(d.pending, i)} IN
    IF d.pending = <<>> THEN d
    ELSE IF starts = {} THEN Flush(d, Len(d.pending) - IF eof THEN 0 ELSE Keep(d.pending))
    ELSE LET e == Flush(d, Min(starts) - 1)
             ends == {i \in DOMAIN e.pending : e.pending[i] = Delimiter}
             end == IF ends = {} THEN MaxMarker + 1 ELSE Min(ends)
             rest == [e EXCEPT !.pending = SubSeq(@, end + 1, Len(@))]
         IN IF ends = {} /\ Len(e.pending) < MaxMarker /\ ~eof THEN e
            \* end counts from 1 here, so it is past the limit one later.
            ELSE IF end > MaxMarker THEN Flush(e, 1)
            ELSE IF ~IsMarker(SubSeq(e.pending, 1, end)) THEN Flush(e, end)
            ELSE Learn(rest, e.pending[Len(Prefix) + 1], e.pending[Len(Prefix) + 2])

\* Every pass but the last takes at least one byte.
Decode(d, eof) ==
    LET passes[n \in 0..Len(d.pending)] == IF n = 0 THEN d ELSE Pass(passes[n - 1], eof)
    IN passes[Len(d.pending)]

Feed(d, data, eof) ==
    Decode([d EXCEPT !.pending = @ \o data, !.out = <<>>, !.events = <<>>], eof)

=============================================================================
