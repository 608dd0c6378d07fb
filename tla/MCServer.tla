-------------------------------- MODULE MCServer --------------------------------
(* Values of the constants for model checking Server and LoginGuard.       *)
EXTENDS Server

CONSTANTS r1, r2, w1, w2, office, home, anna, anonymous

TwoRequests == {r1, r2}
TwoWorkers  == {w1, w2}

(* One user at two addresses, and someone else at one of them.             *)
AnnaAtWork  == [ip |-> office, user |-> anna]
AnnaAtHome  == [ip |-> home, user |-> anna]
Neighbour   == [ip |-> home, user |-> anonymous]
SomeCallers == {AnnaAtWork, AnnaAtHome, Neighbour}

(* Uploads by all of them and an action without a limit; or logins.        *)
Uploads     == (SomeCallers \X {"upload"}) \cup {<<Neighbour, "compare">>}
Logins      == {<<AnnaAtWork, "login">>}
ByAddress   == {<<Neighbour, "upload">>}
SomeDemands == {Uploads, Logins, ByAddress}

(* Actions without a limit have 0.                                         *)
Limits  == [a \in Actions |-> CASE a = "login" -> 3 [] a = "upload" -> 2 [] OTHER -> 0]
Windows == [a \in Actions |-> IF a = "login" THEN 2 ELSE 1]

-----------------------------------------------------------------------------
UpToDate == [legacy |-> FALSE, applied |-> 4, recorded |-> TRUE]
HalfDone == [legacy |-> FALSE, applied |-> 2, recorded |-> FALSE]
Founds   == {UpToDate, HalfDone, [legacy |-> TRUE, applied |-> 0, recorded |-> FALSE]}
              \cup [legacy : {FALSE}, applied : {0, 4}, recorded : {FALSE}]

Starts(a, w) == [p \in Processes |-> IF p = api THEN a ELSE w]
Scenario(wanted, requests, some, trouble, before) ==
    [demand |-> wanted, requests |-> requests, starts |-> some, trouble |-> trouble,
     found |-> before]

(* One server and many requests; a server that is started again, in order  *)
(* or not; all processes at once at any database; requests among them.     *)
SomeScenarios ==
    {Scenario(Logins, 4, Starts(1, 0), FALSE, UpToDate),
     Scenario(Uploads, 3, Starts(1, 0), FALSE, UpToDate),
     Scenario(Logins, 2, Starts(2, 0), TRUE, UpToDate),
     Scenario(ByAddress, 1, Starts(1, 1), TRUE, HalfDone),
     Scenario(ByAddress, 3, Starts(2, 0), TRUE, UpToDate),
     Scenario(Logins, 0, Starts(1, 2), TRUE, HalfDone)} \cup
    {Scenario(Logins, 0, Starts(1, 1), TRUE, f) : f \in Founds}

=============================================================================
