---------------------------- MODULE MCHookNames ----------------------------
(* Names of lengths around the limits of 25, 56 and 63, with dashes where   *)
(* they are cut.                                                            *)
EXTENDS HookNames, TLC

MCLetters == {"-", "r", "h", "zero", "x", "y"} \cup Range(DigitNames)

X == Char("x")
Y == Char("y")

Run(n) == [i \in 1 .. n |-> X]

MCPlans == {Run(3), Run(3) \o <<Dash, Char("r"), Char("h")>>, Run(24) \o <<Dash, X>>, Run(40)}
MCHooks == {Run(2), <<Char("r"), Char("h"), Dash>> \o Run(2), Run(2) \o Sep \o Run(2), Run(52), Run(52) \o <<Y>>, Run(55) \o <<X>>,
            Run(23) \o <<Dash, Dash>> \o Run(30), Run(48) \o <<Dash, Dash, X, X, X, X>>,
            Run(60) \o <<Y>>}
MCNodes == {Run(9), Run(9) \o <<Y>>}
MCLines == {<<>>, <<<<X, Y>>>>, <<<<X>>, <<Y>>>>, <<<<Y>>>>}
=============================================================================
