-------------------------------- MODULE MCPage --------------------------------
(***************************************************************************)
(* Small instances of the parts of Page for TLC.                           *)
(***************************************************************************)
EXTENDS Page, TLC

\* Cards, tabs, rows, upserts, sessions and sources are the same two values.
PageSymmetry == Permutations(TimedRow)

OnMyPlate == [owners |-> {"user"}, states |-> {"todo"}, sessionIds |-> {}, showDeleted |-> FALSE]
Picks == {OnMyPlate, [OnMyPlate EXCEPT !.states = {"done"}, !.showDeleted = TRUE]}

\* Every order of up to three different screens.
Screens == {"trust", "bypass", "dev_channels", "unknown", "text"}
Starts == UNION {{s \in [1 .. n -> Screens] : \A i, j \in 1 .. n : s[i] = s[j] => i = j}
                 : n \in 0 .. 3}
\* A slow pane, or one with noise.
Panes  == {[lag |-> 3, noise |-> FALSE], [lag |-> 1, noise |-> TRUE]}

Injects == [queued : {TRUE}, env : {{"two", "lose", "die", "restart"},
                                    {"turn", "exit", "lose", "restart"}}]
           \cup [queued : {FALSE}, env : {{"die", "restart"}, {"two", "turn", "exit"}}]

ComposerSettings == {{"fail", "crash"}, {"ahead"}}
TrackerSettings  == {{"slow"}, {"reopen"}}
BackupSettings   == {{"killed"}, {"refused"}}
=============================================================================
