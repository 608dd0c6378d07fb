---------------------------- MODULE MCAuthSessions ----------------------------
(* Values of the constants for model checking AuthSessions.                *)
EXTENDS AuthSessions, TLC

CONSTANTS s1, s2, h1, h2, a, b, c

OneSession  == {s1}
TwoSessions == {s1, s2}
TwoHolders  == {h1, h2}
TwoTabs     == {a, b}
ThreeTabs   == {a, b, c}
TwoOfOne    == a :> h1 @@ b :> h1 @@ c :> h2
Disturbed   == {{"tabs", "end"}, {"tabs", "copy"}, {"copy", "slow", "lost"}, {"slow", "error", "end"}}

=============================================================================
