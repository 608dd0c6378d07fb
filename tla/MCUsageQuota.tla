---------------------------- MODULE MCUsageQuota ----------------------------
(* Values of the constants for model checking UsageQuota.                  *)
EXTENDS UsageQuota

CONSTANTS r1, r2

TwoRequests   == {r1, r2}
SmallLimits   == [x \in Resources |-> CASE x = "files" -> 3 [] x = "bytes" -> 4
                                        [] x = "ai" -> 2 [] x = "batches" -> 1
                                        [] OTHER -> 3]
OneOrTwo      == {1, 2}
MonthOnly     == {{"month"}}
AllScenarios  == {{}, {"crash", "db", "month"}, {"ack"}}

=============================================================================
