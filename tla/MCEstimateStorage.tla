-------------------------- MODULE MCEstimateStorage --------------------------
(* Values of the constants for model checking EstimateStorage.             *)
EXTENDS EstimateStorage, TLC

CONSTANTS f1, f2, u1, d1, d2, c1, c2

OneFile     == {f1}
TwoFiles    == {f1, f2}
OneUpload   == {u1}
TwoDeleters == {d1, d2}
TwoCleaners == {c1, c2}
ProcessFaults == {{}, {"crash", "io"}}
EarlyDeletion == {{"early"}}

=============================================================================
