------------------------------- MODULE MCResume -------------------------------
(* Small instances of Resume for TLC. *)
EXTENDS Resume, Integers, TLC

CONSTANTS sa, sb, west, east, mail

Alike == Permutations(Targets) \cup Permutations(Windows \ Targets)

MCNames == <<sa, sb>>

\* Two outputs whose first workspaces have the same index, and a named one.
MCSpaces == {[id |-> 1, name |-> None, output |-> west, index |-> 1],
             [id |-> 2, name |-> None, output |-> east, index |-> 1],
             [id |-> 3, name |-> mail, output |-> west, index |-> 2]}

Named == [name |-> mail, output |-> None, index |-> 7]
Indexed == [name |-> None, output |-> west, index |-> 2]
OnRight == [name |-> None, output |-> east, index |-> 1]
Gone == [name |-> None, output |-> None, index |-> 9]

Seen(x, ref) == [terminal |-> TRUE, session |-> x, ref |-> ref, space |-> 0]

Sticky(ref) == [placed |-> TRUE, ref |-> ref]

Saved(boot, at, shown, active, a, b) ==
    [boot |-> boot, mine |-> TRUE, at |-> at, windows |-> shown, spaces |-> {},
     active |-> active, sticky |-> (sa :> a @@ sb :> b)]

\* The boot before, with both sessions, one of them shown twice; an older one;
\* one of another profile; and in one history the present boot.
Before == Saved(2, 0, <<Seen(sa, Named), Seen(sa, OnRight), Seen(sb, Gone)>>, {sa},
                Sticky(Named), None)
Older == Saved(1, -1, <<Seen(sb, Indexed)>>, {sa, sb}, None, Sticky(Indexed))
Present == Saved(3, 0, <<>>, {sb}, Sticky(Named), Sticky(OnRight))

Others == [Saved(4, 0, <<Seen(sb, Named)>>, {sa, sb}, None, None) EXCEPT !.mine = FALSE]

MCHistories == {<<Older, Before, Others>>, <<Older, Before, Present>>}

Nothing == [x \in {} |-> None]

One(x, runs, shows) ==
    [zellij |-> x, kitty |-> (0 :> [runs |-> runs, shows |-> shows, starts |-> None]),
     windows |-> (<<0, 1>> :> [pid |-> 0, terminal |-> TRUE, space |-> 1])]

\* The same Kitty with two windows.
Two(x, runs) == [One(x, runs, None) EXCEPT
                   !.windows = @ @@ (<<0, 2>> :> [pid |-> 0, terminal |-> TRUE, space |-> 2])]

Bare(x) == [zellij |-> x, kitty |-> Nothing, windows |-> Nothing]

MCDesktops == {Bare([x \in {sa, sb} |-> "exited"]), Bare([x \in {sa, sb} |-> "running"]),
               Bare(sa :> "foreign" @@ sb :> "exited"),
               One([x \in {sa, sb} |-> "running"], sb, None),
               Two([x \in {sa, sb} |-> "running"], sb)}

TitledDesktops == {One([x \in {sa, sb} |-> "running"], None, sa)}

=============================================================================
