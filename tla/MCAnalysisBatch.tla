-------------------------- MODULE MCAnalysisBatch --------------------------
EXTENDS AnalysisBatch, TLC
CONSTANTS w1, w2, b1, b2
TwoWorkers == {w1, w2}
OneBatch == {b1}
TwoBatches == {b1, b2}
OneKey == {1}
OneBatchHash == [b \in OneBatch |-> 1]
CollidingHash == [b \in TwoBatches |-> 1]
NoFaults == {{}}
CrashOnly == {{"crash"}}
AllScenarios == {{"crash"}, {"crash", "slow", "ack"}, Faults}
WorkerSymmetry == Permutations(Workers)
=============================================================================
