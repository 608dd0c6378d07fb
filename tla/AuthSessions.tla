----------------------------- MODULE AuthSessions -----------------------------
(***************************************************************************)
(* Browser sessions.  A session is a row of auth_sessions with the hash of *)
(* its current refresh token; POST /v1/auth/refresh exchanges the token    *)
(* for a new one and keeps the old one in auth_refresh_token_history, so   *)
(* that an old token presented again is told apart: two tabs of one        *)
(* browser within the grace period, or a token in the wrong hands, which   *)
(* ends the session.  Logging out and revoking end sessions too.           *)
(*                                                                         *)
(* All sessions belong to one user.  A holder is a browser profile: one    *)
(* cookie jar, one IP address and user agent, several tabs.  A tab has at  *)
(* most one request under way, which carries the cookies of the moment it  *)
(* was sent; the cookies of the response are set when it arrives.  The     *)
(* n-th refresh token of session s is <<s, n>>.                            *)
(***************************************************************************)
EXTENDS Integers, FiniteSets

CONSTANTS Sessions,      (* ids of auth_sessions                              *)
          Holders,       (* browser profiles                                  *)
          Tabs,          (* places a request can come from                    *)
          HolderOf,      (* the profile of a tab                              *)
          MaxRotations,  (* bound: refreshes of one session                   *)
          Scenarios,     (* sets of disturbances a behaviour may suffer       *)
          None           (* no cookie                                         *)

(* "end": users log out and revoke sessions.  "tabs": the tabs of a        *)
(* profile work at the same time.  "copy": a profile is restored on a      *)
(* second machine.  "slow": a request takes longer than the grace period.  *)
(* "lost": a response does not arrive.  "error": a statement fails, or     *)
(* JWT_SECRET is not set.                                                  *)
Disturbances == {"end", "tabs", "copy", "slow", "lost", "error"}

ASSUME SessionsAssumption ==
    /\ HolderOf \in [Tabs -> Holders]
    /\ MaxRotations \in Nat
    /\ Scenarios \subseteq SUBSET Disturbances
    /\ None \notin Sessions \cup (Sessions \X (0..MaxRotations))

VARIABLES
    env,        \* the disturbances of this behaviour, fixed at the start
    (* auth_sessions *)
    rows,       \* ids whose row exists
    used,       \* ids that were ever given to a row
    revoked,    \* rows whose revoked_at is set
    gen,        \* the current refresh token
    lapsed,     \* how many of its tokens have outlived their expires_at
    (* auth_refresh_token_history *)
    history,
    (* the browsers *)
    jar, calls,
    (* what the users were told or asked for, for the properties *)
    ended,      \* the ends of sessions that the API reported
    touched     \* sessions whose end was asked for

rowVars  == <<rows, used, revoked, gen, lapsed, history>>
userVars == <<ended, touched>>
vars == <<env, rowVars, jar, calls, userVars>>

Generations == 0..MaxRotations
Tokens      == Sessions \X Generations
Spent       == [token : Tokens, client : Holders, recent : BOOLEAN]
Jars        == [access : Sessions \cup {None}, refresh : Tokens \cup {None}]
EmptyJar    == [access |-> None, refresh |-> None]

(* A call is [op, at, sent, sid]: the jar as it was sent, the session      *)
(* found, and "at", the next step of the request; once op is "reply", what *)
(* the response does to the cookies.                                       *)
Idle  == [op |-> "none"]

(* What the API reports when it says that sessions are at an end: which    *)
(* request said so, and for a logout the cookies it came with.             *)
Ends == [sid : Sessions, by : {"logout", "revoke", "revokeAll", "reuse"}, sent : Jars]

Reported(by, sids, cookies) == {[sid |-> s, by |-> by, sent |-> cookies] : s \in sids}

Init ==
    /\ env \in Scenarios
    /\ rows = {} /\ used = {} /\ revoked = {}
    /\ gen = [s \in Sessions |-> 0]
    /\ lapsed = [s \in Sessions |-> 0]
    /\ history = {}
    /\ jar = [h \in Holders |-> EmptyJar]
    /\ calls = [t \in Tabs |-> Idle]
    /\ ended = {} /\ touched = {}

Busy(h) == \E t \in Tabs : HolderOf[t] = h /\ calls[t] # Idle

(* revoked_at IS NULL AND expires_at>now()                                 *)
Live(s) == s \in rows /\ s \notin revoked /\ lapsed[s] <= gen[s]

(* The row whose refresh_token_hash is the hash of this token.             *)
IsCurrent(token) == token[1] \in rows /\ gen[token[1]] = token[2]

-----------------------------------------------------------------------------
(* Requests and responses                                                  *)

OnlyTab(h) == CHOOSE t \in Tabs : HolderOf[t] = h

Send(t, op, at, sid) ==
    /\ calls[t] = Idle
    /\ "tabs" \in env \/ t = OnlyTab(HolderOf[t])
    /\ calls' = [calls EXCEPT ![t] =
                    [op |-> op, at |-> at, sent |-> jar[HolderOf[t]], sid |-> sid]]

At(t, op, at) == calls[t].op = op /\ calls[t].at = at

Goto(t, at) == calls' = [calls EXCEPT ![t].at = at]

(* The response leaves: setSessionCookies, clearSessionCookies or neither. *)
Reply(t, effect, cookies) ==
    calls' = [calls EXCEPT ![t] =
                [op |-> "reply", at |-> effect, sent |-> cookies, sid |-> None]]

SetCookies(t, s, n) == Reply(t, "set", [access |-> s, refresh |-> <<s, n>>])
ClearCookies(t)     == Reply(t, "clear", EmptyJar)
KeepCookies(t)      == Reply(t, "keep", EmptyJar)

Receive(t) ==
    /\ calls[t].op = "reply"
    /\ jar' = CASE calls[t].at = "set"   -> [jar EXCEPT ![HolderOf[t]] = calls[t].sent]
                [] calls[t].at = "clear" -> [jar EXCEPT ![HolderOf[t]] = EmptyJar]
                [] calls[t].at = "keep"  -> jar
    /\ calls' = [calls EXCEPT ![t] = Idle]
    /\ UNCHANGED <<env, rowVars, userVars>>

Lose(t) ==
    /\ "lost" \in env
    /\ calls[t].op = "reply"
    /\ calls' = [calls EXCEPT ![t] = Idle]
    /\ UNCHANGED <<env, rowVars, jar, userVars>>

-----------------------------------------------------------------------------
(* Broken variants of the definitions below, for mutation runs only.       *)

(* No grace period, and one that never ends.                               *)
ToleratedNever(r, t)  == FALSE
ToleratedAlways(r, t) == r.client = HolderOf[t]

(* The logout that knows the refresh token alone.                          *)
RevocableNever(s) == {}

(* The cleanup that forgets a spent token after the grace period.          *)
ObsoleteEarly == {r \in history : ~r.recent}

-----------------------------------------------------------------------------
(* POST /v1/auth/login and its like: createBrowserSession                  *)

(* A profile without a session logs in, in one tab.                        *)
SendLogin(t, s) ==
    /\ jar[HolderOf[t]] = EmptyJar /\ ~Busy(HolderOf[t])
    /\ s \notin used
    /\ used' = used \cup {s}
    /\ Send(t, "login", "insert", s)
    /\ UNCHANGED <<env, rows, revoked, gen, lapsed, history, jar, userVars>>

createBrowserSession(t) ==
    /\ At(t, "login", "insert")
    /\ \/ /\ rows' = rows \cup {calls[t].sid}
          /\ SetCookies(t, calls[t].sid, 0)
       \/ "error" \in env /\ KeepCookies(t) /\ UNCHANGED rows
    /\ UNCHANGED <<env, used, revoked, gen, lapsed, history, jar, userVars>>

-----------------------------------------------------------------------------
(* POST /v1/auth/refresh: AuthRefresh and rotateRefreshToken               *)

SendRefresh(t) ==
    LET token == jar[HolderOf[t]].refresh IN
    /\ token # None
    /\ token[2] < MaxRotations
    /\ Send(t, "refresh", "find", None)
    /\ UNCHANGED <<env, rowVars, jar, userVars>>

(* The row the first SELECT locks.  FOR UPDATE looks at the latest version *)
(* of the row, so that of two refreshes with one token the second one sees *)
(* what the first one committed.                                           *)
Rotatable(token) == IsCurrent(token) /\ Live(token[1])

(* SELECT ... FOR UPDATE, INSERT, UPDATE and COMMIT, or the SELECT that    *)
(* finds nothing.                                                          *)
rotateRefreshToken(t) ==
    LET token == calls[t].sent.refresh IN
    /\ At(t, "refresh", "find")
    /\ IF Rotatable(token)
         THEN /\ gen' = [gen EXCEPT ![token[1]] = @ + 1]
              /\ history' = history \cup
                    {[token |-> token, client |-> HolderOf[t], recent |-> TRUE]}
              /\ Goto(t, "issue")
         ELSE /\ Goto(t, "history")
              /\ UNCHANGED <<gen, history>>
    /\ UNCHANGED <<env, rows, used, revoked, lapsed, jar, userVars>>

(* withinGrace, sameClient, and the token itself not expired               *)
Tolerated(r, t) ==
    /\ r.recent /\ r.client = HolderOf[t]
    /\ r.token[1] \notin revoked
    /\ r.token[2] >= lapsed[r.token[1]]

(* The second SELECT, with a snapshot of its own: refreshRotationInvalid,  *)
(* refreshRotationConcurrent or refreshRotationReused.                     *)
ClassifyReuse(t) ==
    LET token == calls[t].sent.refresh
        found == {r \in history : r.token = token}
    IN
    /\ At(t, "refresh", "history")
    /\ IF \E r \in found : Tolerated(r, t)
         THEN KeepCookies(t) /\ UNCHANGED <<revoked, ended>>
         ELSE /\ ClearCookies(t)
              /\ revoked' = IF found = {} THEN revoked ELSE revoked \cup {token[1]}
              /\ ended' = IF found = {} THEN ended
                          ELSE ended \cup Reported("reuse", {token[1]}, EmptyJar)
    /\ UNCHANGED <<env, rows, used, gen, lapsed, history, jar, touched>>

(* createAuthTokenForSession; where it fails, revokeSessionBestEffort ends *)
(* the session, if it can.                                                 *)
IssueTokens(t) ==
    LET token == calls[t].sent.refresh IN
    /\ At(t, "refresh", "issue")
    /\ \/ SetCookies(t, token[1], token[2] + 1) /\ UNCHANGED revoked
       \/ "error" \in env /\ ClearCookies(t) /\ revoked' \in {revoked, revoked \cup {token[1]}}
    /\ UNCHANGED <<env, rows, used, gen, lapsed, history, jar, userVars>>

(* 503: the transaction is rolled back.                                    *)
RefreshFails(t) ==
    /\ "error" \in env
    /\ At(t, "refresh", "find") \/ At(t, "refresh", "history")
    /\ KeepCookies(t)
    /\ UNCHANGED <<env, rowVars, jar, userVars>>

-----------------------------------------------------------------------------
(* POST /v1/auth/logout: AuthLogoutSecure                                  *)

SessionsIn(cookies) ==
    {s \in Sessions : cookies.access = s \/ \E n \in Generations : cookies.refresh = <<s, n>>}

SendLogout(t) ==
    /\ "end" \in env
    /\ jar[HolderOf[t]] # EmptyJar
    /\ Send(t, "logout", "guard", None)
    /\ touched' = touched \cup SessionsIn(jar[HolderOf[t]])
    /\ UNCHANGED <<env, rowVars, jar, ended>>

(* What currentRequestUser can answer: the session of a valid access       *)
(* token, and none, too, when its own query fails.                         *)
currentRequestUser(t) ==
    LET s == calls[t].sent.access IN
    {IF s # None /\ Live(s) THEN s ELSE None} \cup {x \in {None} : "error" \in env}

LogoutGuard(t) ==
    /\ At(t, "logout", "guard")
    /\ \E s \in currentRequestUser(t) :
          calls' = [calls EXCEPT ![t].sid = s, ![t].at = IF s = None THEN "byHash" ELSE "byId"]
    /\ UNCHANGED <<env, rowVars, jar, userVars>>

Revocable(s) == {s} \cap rows

LogoutByID(t) ==
    /\ At(t, "logout", "byId")
    /\ \/ revoked' = revoked \cup Revocable(calls[t].sid)
       \/ "error" \in env /\ UNCHANGED revoked
    /\ Goto(t, "byHash")
    /\ UNCHANGED <<env, rows, used, gen, lapsed, history, jar, userVars>>

(* The session that has the refresh token now.  The answer is 204 whatever *)
(* the two statements did, or failed to do.                                *)
LogoutByHash(t) ==
    LET token == calls[t].sent.refresh IN
    /\ At(t, "logout", "byHash")
    /\ \/ revoked' = IF token # None /\ IsCurrent(token) THEN revoked \cup {token[1]} ELSE revoked
       \/ "error" \in env /\ UNCHANGED revoked
    /\ ClearCookies(t)
    /\ ended' = ended \cup Reported("logout", SessionsIn(calls[t].sent), calls[t].sent)
    /\ UNCHANGED <<env, rows, used, gen, lapsed, history, jar, touched>>

-----------------------------------------------------------------------------
(* DELETE /v1/auth/sessions/{id} and DELETE /v1/auth/sessions              *)

SendRevoke(t, op, targets) ==
    /\ "end" \in env
    /\ jar[HolderOf[t]].access # None
    /\ Send(t, op, "guard", IF op = "revoke" THEN CHOOSE s \in targets : TRUE ELSE None)
    /\ touched' = touched \cup targets
    /\ UNCHANGED <<env, rowVars, jar, ended>>

RevokeGuard(t) ==
    /\ At(t, "revoke", "guard") \/ At(t, "revokeAll", "guard")
    /\ \E s \in currentRequestUser(t) : IF s = None THEN KeepCookies(t) ELSE Goto(t, "byId")
    /\ UNCHANGED <<env, rowVars, jar, userVars>>

AuthSessionRevoke(t) ==
    LET s == calls[t].sid IN
    /\ At(t, "revoke", "byId")
    /\ \/ /\ s \in rows \ revoked
          /\ revoked' = revoked \cup {s}
          /\ ended' = ended \cup Reported("revoke", {s}, EmptyJar)
          /\ IF s = calls[t].sent.access THEN ClearCookies(t) ELSE KeepCookies(t)
       \/ /\ s \notin rows \ revoked \/ "error" \in env
          /\ KeepCookies(t)
          /\ UNCHANGED <<revoked, ended>>
    /\ UNCHANGED <<env, rows, used, gen, lapsed, history, jar, touched>>

(* revokeAllUserSessions; the answer is 204 whether or not it worked.      *)
AuthRevokeAllSessions(t) ==
    /\ At(t, "revokeAll", "byId")
    /\ revoked' = revoked \cup rows \/ ("error" \in env /\ UNCHANGED revoked)
    /\ ended' = ended \cup Reported("revokeAll", rows, EmptyJar)
    /\ touched' = touched \cup rows
    /\ ClearCookies(t)
    /\ UNCHANGED <<env, rows, used, gen, lapsed, history, jar>>

-----------------------------------------------------------------------------
(* Time: cleanupAuthRecords, whose statements commit one by one and need   *)
(* not all be reached, and the expiry of cookies and tokens                *)

Obsolete == {r \in history : r.token[2] < lapsed[r.token[1]]}

CleanupHistory ==
    /\ Obsolete # {}
    /\ history' = history \ Obsolete
    /\ UNCHANGED <<env, rows, used, revoked, gen, lapsed, jar, calls, userVars>>

(* "old" are revoked for seven days; the history goes with the row.        *)
CleanupSessions(old) ==
    LET gone == old \cup {s \in rows : lapsed[s] > gen[s]} IN
    /\ gone # {}
    /\ old \subseteq rows \cap revoked
    /\ rows' = rows \ gone
    /\ history' = {r \in history : r.token[1] \notin gone}
    /\ UNCHANGED <<env, used, revoked, gen, lapsed, jar, calls, userVars>>

(* The fifteen minutes of the access token are over.                       *)
AccessExpires(h) ==
    /\ jar[h].access # None
    /\ jar' = [jar EXCEPT ![h].access = None]
    /\ UNCHANGED <<env, rowVars, calls, userVars>>

(* REFRESH_REUSE_GRACE is over.                                            *)
GraceEnds(r) ==
    /\ r \in history /\ r.recent
    /\ "slow" \in env \/ ~Busy(r.client)
    /\ history' = (history \ {r}) \cup {[r EXCEPT !.recent = FALSE]}
    /\ UNCHANGED <<env, rows, used, revoked, gen, lapsed, jar, calls, userVars>>

(* The thirty days of a refresh token are over, and unless requests take   *)
(* their time the grace period has ended before.                           *)
Lapse(s) ==
    /\ s \in rows /\ lapsed[s] <= gen[s]
    /\ "slow" \in env \/ ~\E r \in history : r.token[1] = s /\ r.recent
    /\ lapsed' = [lapsed EXCEPT ![s] = @ + 1]
    /\ UNCHANGED <<env, rows, used, revoked, gen, history, jar, calls, userVars>>

(* A profile with a session that was never refreshed is restored elsewhere.*)
CopyProfile(from, to) ==
    /\ "copy" \in env
    /\ from # to
    /\ jar[from].refresh # None /\ jar[from].refresh[2] = 0
    /\ jar[to] = EmptyJar /\ ~Busy(to)
    /\ jar' = [jar EXCEPT ![to] = jar[from]]
    /\ UNCHANGED <<env, rowVars, calls, userVars>>

-----------------------------------------------------------------------------

(* What a request does once it is sent, up to its response.                *)
Serve(t) ==
    \/ createBrowserSession(t) \/ rotateRefreshToken(t) \/ ClassifyReuse(t) \/ IssueTokens(t)
    \/ RefreshFails(t) \/ LogoutGuard(t) \/ LogoutByID(t) \/ LogoutByHash(t)
    \/ RevokeGuard(t) \/ AuthSessionRevoke(t) \/ AuthRevokeAllSessions(t)
    \/ Receive(t)

Next ==
    \/ \E t \in Tabs :
        \/ Serve(t) \/ Lose(t)
        \/ SendRefresh(t) \/ SendLogout(t)
        \/ \E s \in Sessions : SendLogin(t, s) \/ SendRevoke(t, "revoke", {s})
        \/ SendRevoke(t, "revokeAll", used)
    \/ \E h \in Holders : AccessExpires(h) \/ \E k \in Holders : CopyProfile(h, k)
    \/ \E r \in history : GraceEnds(r)
    \/ \E s \in Sessions : Lapse(s)
    \/ CleanupHistory
    \/ \E old \in SUBSET rows : CleanupSessions(old)

Spec == Init /\ [][Next]_vars

(* The server answers; time passes; and a browser that is in use refreshes *)
(* its session again and again, as frontend/lib/api.js does on a 401.      *)
FairSpec ==
    /\ Spec
    /\ \A t \in Tabs : WF_vars(Serve(t))
    /\ \A h \in Holders : SF_vars(\E t \in Tabs : HolderOf[t] = h /\ SendRefresh(t))
    /\ WF_vars(\E r \in history : GraceEnds(r))

-----------------------------------------------------------------------------
(* Properties                                                              *)

(* A logout that came without a valid access token knows the session by    *)
(* its refresh token only, and a refresh in between has made it a spent    *)
(* one.                                                                    *)
Overtaken(e) ==
    /\ e.by = "logout"
    /\ e.sent.access # e.sid
    /\ \E n \in Generations : e.sent.refresh = <<e.sid, n>> /\ n < gen[e.sid]

(* Every end the API reports is one: the session of a logout answered with *)
(* 204, of DELETE /v1/auth/sessions and of DELETE /v1/auth/sessions/{id},  *)
(* and the one that "refresh token reuse detected; session revoked" speaks *)
(* of, is never usable again, whatever refreshes, logins and cleanups were *)
(* under way.  Excepted are a logout that a refresh overtook, and, where   *)
(* statements fail, the two handlers that answer 204 all the same.         *)
EndedStaysEnded ==
    \A e \in ended : Live(e.sid) =>
        \/ Overtaken(e)
        \/ "error" \in env /\ e.by \in {"logout", "revokeAll"}

(* auth_refresh_reuse_integration_test.go:83: "legitimate concurrent       *)
(* refresh must not revoke the session".  A session that nobody asked to   *)
(* end and nothing disturbs stays usable: it is not revoked, and its       *)
(* browser has the current refresh token or is about to receive it,        *)
(* however the requests of its tabs interleave.                            *)
UndisturbedSessionIsUsable ==
    env \subseteq {"tabs", "end"} =>
        \A s \in rows \ touched : lapsed[s] <= gen[s] =>
            /\ s \notin revoked
            /\ \/ \E h \in Holders : jar[h].refresh = <<s, gen[s]>>
               \/ \E t \in Tabs :
                     \/ At(t, "reply", "set") /\ calls[t].sent.refresh = <<s, gen[s]>>
                     \/ At(t, "refresh", "issue") /\ calls[t].sent.refresh = <<s, gen[s] - 1>>

(* auth_refresh_reuse_integration_test.go:115: the complete history is     *)
(* kept.  As long as a session can be used, each of its spent tokens that  *)
(* has not expired is still recognised as one.                             *)
EvidenceKept ==
    \A s \in Sessions : Live(s) =>
        \A n \in lapsed[s]..gen[s] - 1 : \E r \in history : r.token = <<s, n>>

(* Of two browsers that went on from the same token at most one keeps the  *)
(* session: a browser that holds a spent token of a usable session and     *)
(* keeps using the application does not do so for ever; it gets the        *)
(* current token, or the session ends.                                     *)
HoldsSpent(h) ==
    \E s \in Sessions : Live(s) /\ \E n \in lapsed[s]..gen[s] - 1 : jar[h].refresh = <<s, n>>

SupersededTokenEndsSession ==
    \A h \in Holders : "error" \notin env /\ HoldsSpent(h) ~> ~HoldsSpent(h)

=============================================================================
