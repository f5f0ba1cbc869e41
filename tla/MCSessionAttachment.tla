------------------------- MODULE MCSessionAttachment -------------------------
(* A small instance of SessionAttachment for TLC. *)
EXTENDS SessionAttachment

\* Output that looks like the start of a marker, then a marker of another attempt.
MCBodies == {<<"rs">> \o AttachmentMarker("old", "ready")}

MCReadSizes == {3, 100}

-----------------------------------------------------------------------------
(* The decoder against what it is for: output put together of pieces, each *)
(* of them text or a marker, and fed in three parts.                       *)

Texts == {<<"x">>, <<"rs">>, <<"v1", "us">>, <<"rs", "v1", "x", "us">>,
          <<"rs", "v1", "x", "x", "x", "x", "x", "x">>}

Markers == {AttachmentMarker("mine", e) : e \in Events} \cup {AttachmentMarker("old", "ready")}

Outputs == UNION {[1..n -> Texts \cup Markers] : n \in 0..3}

Texted(pieces) == FlattenSeq(SelectSeq(pieces, LAMBDA x : x \in Texts))

\* Readiness once and before any end, and the first end, which is a failure
\* unless readiness came before it.
Told(pieces) ==
    LET mine == SelectSeq(pieces, LAMBDA x : x \in Markers /\ x[3] = "mine")
        Event(i) == mine[i][4]
        ends == {i \in DOMAIN mine : Event(i) # "ready"}
        first == IF ends = {} THEN Len(mine) + 1 ELSE Min(ends)
        ready == IF first > 1 THEN <<"ready">> ELSE <<>>
    IN IF ends = {} THEN ready
       ELSE Append(ready, IF first = 1 THEN "failed" ELSE Event(first))

Fed(bytes, i, j) ==
    LET a == Feed(NewDecoder, SubSeq(bytes, 1, i), FALSE)
        b == Feed(a, SubSeq(bytes, i + 1, j), FALSE)
        c == Feed(b, SubSeq(bytes, j + 1, Len(bytes)), TRUE)
    IN <<a.out \o b.out \o c.out, a.events \o b.events \o c.events>>

\* However the output is split, its text is passed on unchanged and without
\* its markers, and the events are those that the markers tell.
\* (No state matters to it: TLC evaluates it in the first one.)
MarkersSplitAnywhere ==
    Init => \A pieces \in Outputs :
        LET bytes == FlattenSeq(pieces) IN
        \A i \in 0..Len(bytes) : \A j \in i..Len(bytes) :
            Fed(bytes, i, j) = <<Texted(pieces), Told(pieces)>>

=============================================================================
