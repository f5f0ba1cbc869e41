--------------------------- MODULE MCSharedDesktop ---------------------------
(* A small instance of SharedDesktop for TLC. *)
EXTENDS SharedDesktop, HostCapture

CONSTANTS s1, s2, w1, w2, left1, right1, p1

Space(id, index, name) == [id |-> id, index |-> index, name |-> name]

\* The destination keeps its index, moves, or loses its name to the other.
MCShapes == {<<Space(left1, 1, "work"), Space(right1, 2, None)>>,
             <<Space(right1, 1, "work"), Space(left1, 2, None)>>}

Work == Space(w1, 1, "work")

\* The windows show the given sessions, the last one only by its title.
Source(spaces, sessions, lost) ==
    [profile |-> p1, spaces |-> spaces, listed |-> {s1, s2}, births |-> [x \in {s1, s2} |-> x],
     windows |-> [i \in DOMAIN sessions |->
        [id |-> i, app |-> "kitty", space |-> w1, pos |-> <<i, 1>>, title |-> sessions[i],
         clients |-> IF i = Len(sessions) THEN {} ELSE {sessions[i]}]],
     catalog |-> [x \in {s1, s2} |-> IF x = lost THEN "socket_invalid" ELSE "active"]]

\* Both sessions shown; one session in two windows, which follow refuses; a
\* session whose socket is not to be trusted, which gives no snapshot at all;
\* and unreadable workspaces, with which follow does nothing.
MCSources == {Source(<<Work>>, <<s1, s2>>, None), Source(<<Work>>, <<s1, s1>>, None),
              Source(<<Work>>, <<s1, s2>>, s2), Source(None, <<s1, s2>>, None)}

MCSnapshots == {Capture(h, <<s1, s2>>) : h \in MCSources} \ {None}

Evening(f, a, s) ==
    [command \in {"follow", "apply", "save"} |->
        CASE command = "follow" -> f [] command = "apply" -> a [] command = "save" -> s]

MCEvenings == {Evening(1, 1, 0), Evening(0, 1, 1), Evening(1, 0, 1), Evening(0, 2, 0)}

MCPins == {{Projection(s1, "work", 1, 0)}}

\* While follow and save are both under way the user leaves the desktop alone;
\* what he does to either of them is followed beside apply.  He acts more than
\* once only in the evening when apply runs twice, after the first launch.
Restraint ==
    /\ fpc # "off" /\ spc # "off" => left = UserSteps
    /\ left < UserSteps - 1 => \E t \in DOMAIN log : log[t].run = 2

=============================================================================
