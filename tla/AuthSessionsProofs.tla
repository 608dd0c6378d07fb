------------------------- MODULE AuthSessionsProofs -------------------------
(***************************************************************************)
(* Theorems about browser sessions, for any numbers of sessions, browsers, *)
(* tabs and refreshes, and any combination of disturbances unless a        *)
(* theorem says otherwise.                                                 *)
(***************************************************************************)
EXTENDS AuthSessions, TLAPS

Ops    == {"login", "refresh", "logout", "revoke", "revokeAll", "reply"}
Places == {"insert", "find", "history", "issue", "guard", "byId", "byHash",
           "set", "clear", "keep"}
Call   == [op : Ops, at : Places, sent : Jars, sid : Sessions \cup {None}]

(* A request that is under way has what its handler takes for granted.     *)
CallOK(c) ==
    \/ c = Idle
    \/ /\ c \in Call
       /\ c.op \in {"login", "revoke"} => c.sid \in Sessions
       /\ c.op = "login" => c.at = "insert"
       /\ c.op = "refresh" => /\ c.sent.refresh \in Tokens
                              /\ c.sent.refresh[2] < MaxRotations
       /\ c.op = "reply" => c.at \in {"set", "clear", "keep"}
       /\ c.op = "reply" /\ c.at = "set" => /\ c.sent.refresh \in Tokens
                                            /\ c.sent.access = c.sent.refresh[1]
       /\ c.op = "logout" /\ c.at = "byId" => c.sid \in Sessions

TypeInv ==
    /\ env \in Scenarios
    /\ rows \subseteq Sessions /\ used \subseteq Sessions /\ revoked \subseteq Sessions
    /\ ended \subseteq Ends /\ touched \subseteq Sessions
    /\ gen \in [Sessions -> Generations]
    /\ lapsed \in [Sessions -> Nat]
    /\ history \subseteq Spent
    /\ jar \in [Holders -> Jars]
    /\ DOMAIN calls = Tabs /\ \A t \in Tabs : CallOK(calls[t])
    /\ calls = [t \in Tabs |-> calls[t]]

(* The id of a session that is being inserted.                             *)
Inserting(s) == \E t \in Tabs : At(t, "login", "insert") /\ calls[t].sid = s

(* Ids that have been given to a row, which may be gone again.             *)
Known(s) == s \in used /\ ~Inserting(s)

(* Ids are given out once, and a session that has no row yet has spent no  *)
(* token.                                                                  *)
IdsInv ==
    /\ \A s \in rows : Known(s)
    /\ \A t \in Tabs : At(t, "login", "insert") => calls[t].sid \in used
    /\ \A t, u \in Tabs : At(t, "login", "insert") /\ At(u, "login", "insert")
                          /\ calls[t].sid = calls[u].sid => t = u
    /\ \A s \in Sessions : ~Known(s) => gen[s] = 0

(* What ends a session for good.                                           *)
Finished(s) == s \in revoked \/ (Known(s) /\ s \notin rows)

-----------------------------------------------------------------------------
(* Types                                                                   *)

(* A request moves on: only its own record changes.                        *)
LEMMA OneCall ==
    ASSUME TypeInv, NEW t \in Tabs, NEW c, calls' = [calls EXCEPT ![t] = c]
    PROVE  /\ calls'[t] = c
           /\ \A u \in Tabs : u # t => calls'[u] = calls[u]
           /\ DOMAIN calls' = Tabs /\ calls' = [u \in Tabs |-> calls'[u]]
BY DEF TypeInv

LEMMA TypeCalls ==
    ASSUME TypeInv, NEW t \in Tabs, NEW c, calls' = [calls EXCEPT ![t] = c], CallOK(c)
    PROVE  /\ DOMAIN calls' = Tabs /\ \A u \in Tabs : CallOK(calls'[u])
           /\ calls' = [u \in Tabs |-> calls'[u]]
BY OneCall DEF TypeInv

(* The records that Send and Reply make.                                   *)
LEMMA SendOK ==
    ASSUME TypeInv, NEW t \in Tabs, NEW op \in Ops \ {"reply"}, NEW at \in Places,
           NEW sid \in Sessions \cup {None}, Send(t, op, at, sid),
           op \in {"login", "revoke"} => sid \in Sessions,
           op = "login" => at = "insert",
           op = "logout" => at = "guard",
           op = "refresh" => /\ jar[HolderOf[t]].refresh \in Tokens
                             /\ jar[HolderOf[t]].refresh[2] < MaxRotations
    PROVE  /\ calls' = [calls EXCEPT ![t] = [op |-> op, at |-> at, sent |-> jar[HolderOf[t]],
                                             sid |-> sid]]
           /\ DOMAIN calls' = Tabs /\ \A u \in Tabs : CallOK(calls'[u])
           /\ calls' = [u \in Tabs |-> calls'[u]]
<1> DEFINE c == [op |-> op, at |-> at, sent |-> jar[HolderOf[t]], sid |-> sid]
<1>1. calls' = [calls EXCEPT ![t] = c]
  BY DEF Send
<1>2. jar[HolderOf[t]] \in Jars
  BY SessionsAssumption DEF TypeInv
<1>3. CallOK(c)
  BY <1>2 DEF CallOK, Call, Ops
<1> HIDE DEF c
<1>4. /\ DOMAIN calls' = Tabs /\ \A u \in Tabs : CallOK(calls'[u])
      /\ calls' = [u \in Tabs |-> calls'[u]]
  BY <1>1, <1>3, TypeCalls
<1> QED BY <1>1, <1>4 DEF c

LEMMA ReplyOK ==
    ASSUME TypeInv, NEW t \in Tabs, NEW effect \in {"set", "clear", "keep"},
           NEW cookies \in Jars, Reply(t, effect, cookies),
           effect = "set" => cookies.refresh \in Tokens /\ cookies.access = cookies.refresh[1]
    PROVE  /\ calls' = [calls EXCEPT ![t] = [op |-> "reply", at |-> effect, sent |-> cookies,
                                             sid |-> None]]
           /\ DOMAIN calls' = Tabs /\ \A u \in Tabs : CallOK(calls'[u])
           /\ calls' = [u \in Tabs |-> calls'[u]]
<1> DEFINE c == [op |-> "reply", at |-> effect, sent |-> cookies, sid |-> None]
<1>1. calls' = [calls EXCEPT ![t] = c]
  BY DEF Reply
<1>2. CallOK(c)
  BY DEF CallOK, Call, Ops, Places
<1> HIDE DEF c
<1>3. /\ DOMAIN calls' = Tabs /\ \A u \in Tabs : CallOK(calls'[u])
      /\ calls' = [u \in Tabs |-> calls'[u]]
  BY <1>1, <1>2, TypeCalls
<1> QED BY <1>1, <1>3 DEF c

LEMMA EmptyIsJar == EmptyJar \in Jars
BY DEF EmptyJar, Jars

LEMMA GotoOK ==
    ASSUME TypeInv, NEW t \in Tabs, NEW at \in Places, Goto(t, at),
           calls[t].op \in {"refresh", "logout", "revoke", "revokeAll"},
           calls[t].op = "logout" /\ at = "byId" => calls[t].sid \in Sessions
    PROVE  /\ calls' = [calls EXCEPT ![t] = [calls[t] EXCEPT !.at = at]]
           /\ DOMAIN calls' = Tabs /\ \A u \in Tabs : CallOK(calls'[u])
           /\ calls' = [u \in Tabs |-> calls'[u]]
<1> DEFINE c == [calls[t] EXCEPT !.at = at]
<1>1. calls' = [calls EXCEPT ![t] = c]
  BY DEF Goto
<1>2. CallOK(calls[t]) /\ calls[t] # Idle
  BY DEF TypeInv, Idle
<1>3. CallOK(c)
  BY <1>2 DEF CallOK, Call, Places, Ops
<1> HIDE DEF c
<1>4. /\ DOMAIN calls' = Tabs /\ \A u \in Tabs : CallOK(calls'[u])
      /\ calls' = [u \in Tabs |-> calls'[u]]
  BY <1>1, <1>3, TypeCalls
<1> QED BY <1>1, <1>4 DEF c

LEMMA SpentEnds == ASSUME NEW r \in Spent PROVE [r EXCEPT !.recent = FALSE] \in Spent
BY DEF Spent

LEMMA IdleOK == CallOK(Idle)
BY DEF CallOK

LEMMA ReportedOK ==
    ASSUME NEW by \in {"logout", "revoke", "revokeAll", "reuse"}, NEW sids \in SUBSET Sessions,
           NEW cookies \in Jars
    PROVE  Reported(by, sids, cookies) \subseteq Ends
BY DEF Reported, Ends

(* The session of the access token, if it can be used.                     *)
LEMMA RequestUser ==
    ASSUME NEW t \in Tabs, NEW s \in currentRequestUser(t)
    PROVE  /\ s = None \/ (s = calls[t].sent.access /\ s # None /\ Live(s))
           /\ s = None /\ calls[t].sent.access # None =>
                 "error" \in env \/ ~Live(calls[t].sent.access)
BY DEF currentRequestUser

(* Every variable keeps its type.                                          *)
THEOREM SessionTypes == Spec => []TypeInv
<1> USE SessionsAssumption DEF Generations, rowVars, userVars
<1>1. Init => TypeInv
  <2> SUFFICES ASSUME Init PROVE TypeInv
    OBVIOUS
  <2>1. calls = [t \in Tabs |-> calls[t]] /\ \A t \in Tabs : CallOK(calls[t])
    BY IdleOK DEF Init
  <2> QED BY <2>1, EmptyIsJar DEF Init, TypeInv
<1>2. TypeInv /\ [Next]_vars => TypeInv'
  <2> SUFFICES ASSUME TypeInv, [Next]_vars PROVE TypeInv'
    OBVIOUS
  <2> DEFINE CallsTyped == /\ DOMAIN calls' = Tabs /\ \A u \in Tabs : CallOK(calls'[u])
                           /\ calls' = [u \in Tabs |-> calls'[u]]
  <2>1. ASSUME NEW t \in Tabs, Serve(t)
        PROVE  TypeInv'
    <3>0. CallOK(calls[t]) /\ jar[HolderOf[t]] \in Jars
      BY DEF TypeInv
    <3>1. CASE createBrowserSession(t)
      <4>1. calls[t].sid \in Sessions
        BY <3>0, <3>1 DEF createBrowserSession, At, CallOK, Idle
      <4>2. CASE rows' = rows \cup {calls[t].sid} /\ SetCookies(t, calls[t].sid, 0)
        <5>1. [access |-> calls[t].sid, refresh |-> <<calls[t].sid, 0>>] \in Jars
          BY <4>1 DEF Jars, Tokens
        <5>2. CallsTyped
          BY <4>1, <4>2, <5>1, ReplyOK DEF SetCookies, Tokens
        <5> QED BY <3>1, <4>1, <4>2, <5>2 DEF createBrowserSession, TypeInv
      <4>3. CASE KeepCookies(t) /\ UNCHANGED rows
        BY <3>1, <4>3, ReplyOK, EmptyIsJar DEF KeepCookies, createBrowserSession, TypeInv
      <4> QED BY <3>1, <4>2, <4>3 DEF createBrowserSession
    <3>2. CASE rotateRefreshToken(t)
      <4> DEFINE token == calls[t].sent.refresh
      <4>1. /\ token \in Tokens /\ token[2] < MaxRotations /\ calls[t].op = "refresh"
            /\ token[1] \in Sessions
        BY <3>0, <3>2 DEF rotateRefreshToken, At, CallOK, Idle, Tokens
      <4>2. CallsTyped
        BY <3>2, <4>1, GotoOK DEF rotateRefreshToken, Places
      <4>3. gen' \in [Sessions -> Generations] /\ history' \subseteq Spent
        <5>1. CASE Rotatable(token)
          <6>1. gen[token[1]] = token[2]
            BY <5>1 DEF Rotatable, IsCurrent
          <6>2. gen[token[1]] + 1 \in Generations
            BY <4>1, <6>1 DEF Tokens
          <6>3. [token |-> token, client |-> HolderOf[t], recent |-> TRUE] \in Spent
            BY <4>1 DEF Spent
          <6>4. /\ gen' = [gen EXCEPT ![token[1]] = gen[token[1]] + 1]
                /\ history' = history \cup
                      {[token |-> token, client |-> HolderOf[t], recent |-> TRUE]}
            BY <3>2, <5>1 DEF rotateRefreshToken
          <6>5. gen \in [Sessions -> Generations] /\ history \subseteq Spent
            BY DEF TypeInv
          <6>6. gen' \in [Sessions -> Generations]
            BY <4>1, <6>2, <6>4, <6>5
          <6>7. history' \subseteq Spent
            BY <6>3, <6>4, <6>5
          <6> QED BY <6>6, <6>7
        <5>2. CASE ~Rotatable(token)
          BY <3>2, <5>2 DEF rotateRefreshToken, TypeInv
        <5> QED BY <5>1, <5>2
      <4> QED BY <3>2, <4>2, <4>3 DEF rotateRefreshToken, TypeInv
    <3>3. CASE ClassifyReuse(t)
      <4> DEFINE token == calls[t].sent.refresh
      <4>1. token[1] \in Sessions
        BY <3>0, <3>3 DEF ClassifyReuse, At, CallOK, Idle, Tokens
      <4>2. KeepCookies(t) \/ ClearCookies(t)
        BY <3>3 DEF ClassifyReuse
      <4>3. CallsTyped
        BY <4>2, ReplyOK, EmptyIsJar DEF KeepCookies, ClearCookies
      <4>4. /\ revoked' \subseteq revoked \cup {token[1]}
            /\ ended' \subseteq ended \cup Reported("reuse", {token[1]}, EmptyJar)
        BY <3>3 DEF ClassifyReuse
      <4>6. Reported("reuse", {token[1]}, EmptyJar) \subseteq Ends
        BY <4>1, ReportedOK, EmptyIsJar
      <4>5. UNCHANGED <<env, rows, used, gen, lapsed, history, jar, touched>>
        BY <3>3 DEF ClassifyReuse
      <4> QED BY <4>1, <4>3, <4>4, <4>5, <4>6 DEF TypeInv
    <3>4. CASE IssueTokens(t)
      <4> DEFINE token == calls[t].sent.refresh
      <4>1. token \in Tokens /\ token[2] < MaxRotations /\ token[1] \in Sessions
        BY <3>0, <3>4 DEF IssueTokens, At, CallOK, Idle, Tokens
      <4>2. CASE SetCookies(t, token[1], token[2] + 1) /\ UNCHANGED revoked
        <5>1. <<token[1], token[2] + 1>> \in Tokens
          BY <4>1 DEF Tokens
        <5>2. [access |-> token[1], refresh |-> <<token[1], token[2] + 1>>] \in Jars
          BY <4>1, <5>1 DEF Jars
        <5>3. CallsTyped
          BY <4>2, <5>1, <5>2, ReplyOK DEF SetCookies
        <5> QED BY <3>4, <4>2, <5>3 DEF IssueTokens, TypeInv
      <4>3. CASE ClearCookies(t) /\ revoked' \in {revoked, revoked \cup {token[1]}}
        BY <3>4, <4>1, <4>3, ReplyOK, EmptyIsJar DEF IssueTokens, ClearCookies, TypeInv
      <4> QED BY <3>4, <4>2, <4>3 DEF IssueTokens
    <3>5. CASE RefreshFails(t)
      BY <3>5, ReplyOK, EmptyIsJar DEF RefreshFails, KeepCookies, TypeInv
    <3>6. CASE LogoutGuard(t)
      <4>0. PICK s \in currentRequestUser(t) :
                calls' = [calls EXCEPT ![t].sid = s,
                                       ![t].at = IF s = None THEN "byHash" ELSE "byId"]
        BY <3>6 DEF LogoutGuard
      <4> DEFINE c == [calls[t] EXCEPT !.sid = s, !.at = IF s = None THEN "byHash" ELSE "byId"]
      <4>1. calls[t] \in Call /\ calls[t].op = "logout"
        BY <3>0, <3>6 DEF LogoutGuard, At, CallOK, Idle
      <4>2. s \in Sessions \cup {None}
        BY <4>1, RequestUser DEF Call, Jars
      <4>3. CallOK(c)
        BY <4>1, <4>2 DEF CallOK, Call, Places
      <4>4. calls' = [calls EXCEPT ![t] = c]
        BY <4>0
      <4> HIDE DEF c
      <4>5. CallsTyped
        BY <4>3, <4>4, TypeCalls
      <4> QED BY <3>6, <4>5 DEF LogoutGuard, TypeInv
    <3>7. CASE LogoutByID(t)
      <4>1. calls[t] \in Call /\ calls[t].op = "logout"
        BY <3>0, <3>7 DEF LogoutByID, At, CallOK, Idle
      <4>2. CallsTyped
        BY <3>7, <4>1, GotoOK DEF LogoutByID, Places
      <4>3. revoked' \subseteq revoked \cup rows
        BY <3>7 DEF LogoutByID, Revocable
      <4> QED BY <3>7, <4>2, <4>3 DEF LogoutByID, TypeInv
    <3>8. CASE LogoutByHash(t)
      <4> DEFINE token == calls[t].sent.refresh
      <4>1. calls[t] \in Call
        BY <3>0, <3>8 DEF LogoutByHash, At, CallOK, Idle
      <4>2. calls[t].sent \in Jars /\ SessionsIn(calls[t].sent) \in SUBSET Sessions
        BY <4>1 DEF Call, SessionsIn
      <4>3. revoked' \subseteq revoked \cup rows
        BY <3>8 DEF LogoutByHash, IsCurrent
      <4>4. ended' \subseteq Ends
        BY <3>8, <4>2, ReportedOK DEF LogoutByHash, TypeInv
      <4>5. CallsTyped
        BY <3>8, ReplyOK, EmptyIsJar DEF LogoutByHash, ClearCookies
      <4>6. UNCHANGED <<env, rows, used, gen, lapsed, history, jar, touched>>
        BY <3>8 DEF LogoutByHash
      <4> QED BY <4>3, <4>4, <4>5, <4>6 DEF TypeInv
    <3>9. CASE RevokeGuard(t)
      <4>1. CallsTyped
        BY <3>9, GotoOK, ReplyOK, EmptyIsJar DEF RevokeGuard, KeepCookies, Places, At
      <4> QED BY <3>9, <4>1 DEF RevokeGuard, TypeInv
    <3>10. CASE AuthSessionRevoke(t)
      <4>1. KeepCookies(t) \/ ClearCookies(t)
        BY <3>10 DEF AuthSessionRevoke
      <4>2. CallsTyped
        BY <4>1, ReplyOK, EmptyIsJar DEF KeepCookies, ClearCookies
      <4>3. /\ revoked' \subseteq revoked \cup rows
            /\ UNCHANGED <<env, rows, used, gen, lapsed, history, jar, touched>>
        BY <3>10 DEF AuthSessionRevoke
      <4>4. ended' \subseteq Ends
        <5>1. ended' = ended \/ (calls[t].sid \in rows
                                 /\ ended' = ended \cup Reported("revoke", {calls[t].sid}, EmptyJar))
          BY <3>10 DEF AuthSessionRevoke
        <5> QED BY <5>1, ReportedOK, EmptyIsJar DEF TypeInv
      <4> QED BY <4>2, <4>3, <4>4 DEF TypeInv
    <3>11. CASE AuthRevokeAllSessions(t)
      <4>1. CallsTyped
        BY <3>11, ReplyOK, EmptyIsJar DEF AuthRevokeAllSessions, ClearCookies
      <4>2. /\ revoked' \subseteq revoked \cup rows
            /\ ended' = ended \cup Reported("revokeAll", rows, EmptyJar)
            /\ touched' \subseteq touched \cup rows
            /\ UNCHANGED <<env, rows, used, gen, lapsed, history, jar>>
        BY <3>11 DEF AuthRevokeAllSessions
      <4>3. ended' \subseteq Ends
        BY <4>2, ReportedOK, EmptyIsJar DEF TypeInv
      <4> QED BY <4>1, <4>2, <4>3 DEF TypeInv
    <3>12. CASE Receive(t)
      <4>1. calls[t] \in Call
        BY <3>0, <3>12 DEF Receive, CallOK, Idle
      <4>2. jar' \in [Holders -> Jars]
        <5>1. calls[t].sent \in Jars /\ calls[t].at \in {"set", "clear", "keep"}
          BY <3>0, <3>12, <4>1 DEF Receive, CallOK, Call, Idle
        <5>2. \/ jar' = [jar EXCEPT ![HolderOf[t]] = calls[t].sent]
              \/ jar' = [jar EXCEPT ![HolderOf[t]] = EmptyJar]
              \/ jar' = jar
          BY <3>12, <5>1 DEF Receive
        <5> QED BY <5>1, <5>2, EmptyIsJar DEF TypeInv
      <4>3. CallsTyped
        BY <3>12, IdleOK, TypeCalls DEF Receive
      <4> QED BY <3>12, <4>2, <4>3 DEF Receive, TypeInv
    <3> QED BY <2>1, <3>1, <3>2, <3>3, <3>4, <3>5, <3>6, <3>7, <3>8, <3>9, <3>10, <3>11,
               <3>12 DEF Serve
  <2>2. ASSUME NEW t \in Tabs, Lose(t)
        PROVE  TypeInv'
    BY <2>2, IdleOK, TypeCalls DEF Lose, TypeInv
  <2>3. ASSUME NEW t \in Tabs, SendRefresh(t)
        PROVE  TypeInv'
    <3>1. jar[HolderOf[t]].refresh \in Tokens
      BY <2>3 DEF SendRefresh, TypeInv, Jars
    <3>2. CallsTyped
      BY <2>3, <3>1, SendOK DEF SendRefresh, Ops, Places
    <3> QED BY <2>3, <3>2 DEF SendRefresh, TypeInv
  <2>4. ASSUME NEW t \in Tabs, SendLogout(t)
        PROVE  TypeInv'
    <3>1. CallsTyped
      BY <2>4, SendOK DEF SendLogout, Ops, Places
    <3>2. SessionsIn(jar[HolderOf[t]]) \subseteq Sessions
      BY DEF SessionsIn
    <3> QED BY <2>4, <3>1, <3>2 DEF SendLogout, TypeInv
  <2>5. ASSUME NEW t \in Tabs, NEW s \in Sessions, SendLogin(t, s)
        PROVE  TypeInv'
    <3>1. CallsTyped
      BY <2>5, SendOK DEF SendLogin, Ops, Places
    <3> QED BY <2>5, <3>1 DEF SendLogin, TypeInv
  <2>6. ASSUME NEW t \in Tabs, NEW s \in Sessions, SendRevoke(t, "revoke", {s})
        PROVE  TypeInv'
    <3>1. (CHOOSE x \in {s} : TRUE) = s
      OBVIOUS
    <3>2. CallsTyped
      BY <2>6, <3>1, SendOK DEF SendRevoke, Ops, Places
    <3> QED BY <2>6, <3>2 DEF SendRevoke, TypeInv
  <2>7. ASSUME NEW t \in Tabs, SendRevoke(t, "revokeAll", used)
        PROVE  TypeInv'
    <3>1. CallsTyped
      BY <2>7, SendOK DEF SendRevoke, Ops, Places
    <3> QED BY <2>7, <3>1 DEF SendRevoke, TypeInv
  <2>8. ASSUME NEW h \in Holders, AccessExpires(h)
        PROVE  TypeInv'
    BY <2>8 DEF AccessExpires, TypeInv, Jars
  <2>9. ASSUME NEW h \in Holders, NEW k \in Holders, CopyProfile(h, k)
        PROVE  TypeInv'
    BY <2>9 DEF CopyProfile, TypeInv
  <2>10. ASSUME NEW r \in history, GraceEnds(r)
         PROVE  TypeInv'
    <3>1. r \in Spent /\ [r EXCEPT !.recent = FALSE] \in Spent
      BY SpentEnds DEF TypeInv
    <3>2. history' \subseteq Spent
      BY <2>10, <3>1 DEF GraceEnds, TypeInv
    <3>3. UNCHANGED <<env, rows, used, revoked, gen, lapsed, jar, calls, userVars>>
      BY <2>10 DEF GraceEnds
    <3> QED BY <3>2, <3>3 DEF TypeInv
  <2>11. ASSUME NEW s \in Sessions, Lapse(s)
         PROVE  TypeInv'
    BY <2>11 DEF Lapse, TypeInv
  <2>12. CASE CleanupHistory
    BY <2>12 DEF CleanupHistory, TypeInv
  <2>13. ASSUME NEW old \in SUBSET rows, CleanupSessions(old)
         PROVE  TypeInv'
    BY <2>13 DEF CleanupSessions, TypeInv
  <2>14. CASE UNCHANGED vars
    BY <2>14 DEF vars, TypeInv
  <2> QED BY <2>1, <2>2, <2>3, <2>4, <2>5, <2>6, <2>7, <2>8, <2>9, <2>10, <2>11, <2>12,
             <2>13, <2>14 DEF Next
<1> QED BY <1>1, <1>2, PTL DEF Spec

-----------------------------------------------------------------------------
(* What the steps of a request leave alone                                 *)

LEMMA Requests ==
    ASSUME TypeInv, NEW t \in Tabs, Serve(t)
    PROVE  /\ UNCHANGED <<env, used, lapsed>>
           /\ revoked \subseteq revoked' /\ ended \subseteq ended' /\ touched \subseteq touched'
           /\ \A u \in Tabs : u # t => calls'[u] = calls[u]
           /\ calls[t] # Idle /\ calls'[t].op # "login"
           /\ rows' = rows \/ createBrowserSession(t)
           /\ UNCHANGED <<gen, history>> \/ rotateRefreshToken(t)
           /\ UNCHANGED jar \/ Receive(t)
<1> USE DEF At, Goto, Reply, SetCookies, ClearCookies, KeepCookies, rowVars,
            userVars, Idle
<1>0. DOMAIN calls = Tabs /\ (calls[t] = Idle \/ calls[t] \in Call)
  BY DEF TypeInv, CallOK
<1> USE DEF Call
<1>1. CASE createBrowserSession(t)
  BY <1>0, <1>1 DEF createBrowserSession
<1>2. CASE rotateRefreshToken(t)
  BY <1>0, <1>2 DEF rotateRefreshToken
<1>3. CASE ClassifyReuse(t)
  BY <1>0, <1>3 DEF ClassifyReuse
<1>4. CASE IssueTokens(t)
  BY <1>0, <1>4 DEF IssueTokens
<1>5. CASE RefreshFails(t) \/ RevokeGuard(t)
  BY <1>0, <1>5 DEF RefreshFails, RevokeGuard
<1>6. CASE LogoutGuard(t)
  BY <1>0, <1>6 DEF LogoutGuard
<1>7. CASE LogoutByID(t) \/ LogoutByHash(t)
  BY <1>0, <1>7 DEF LogoutByID, LogoutByHash
<1>8. CASE AuthSessionRevoke(t) \/ AuthRevokeAllSessions(t)
  BY <1>0, <1>8 DEF AuthSessionRevoke, AuthRevokeAllSessions
<1>9. CASE Receive(t)
  BY <1>0, <1>9 DEF Receive
<1> QED BY <1>1, <1>2, <1>3, <1>4, <1>5, <1>6, <1>7, <1>8, <1>9 DEF Serve

(* What the first step of a logout or a revocation does to its record.     *)
LEMMA Guards ==
    ASSUME TypeInv, NEW t \in Tabs
    PROVE  /\ LogoutGuard(t) =>
                /\ calls[t] \in Call /\ calls[t].op = "logout"
                /\ calls'[t].op = "logout" /\ calls'[t].sent = calls[t].sent
                /\ calls'[t].sid \in currentRequestUser(t)
                /\ calls'[t].at = (IF calls'[t].sid = None THEN "byHash" ELSE "byId")
           /\ RevokeGuard(t) =>
                /\ calls[t] \in Call /\ calls[t].op \in {"revoke", "revokeAll"}
                /\ \/ KeepCookies(t)
                   \/ /\ calls'[t].op = calls[t].op /\ calls'[t].sent = calls[t].sent
                      /\ calls'[t].sid = calls[t].sid /\ calls'[t].at = "byId"
<1>0. DOMAIN calls = Tabs /\ (calls[t] = Idle \/ calls[t] \in Call) /\ Idle.op = "none"
  BY DEF TypeInv, CallOK, Idle
<1>1. ASSUME LogoutGuard(t)
      PROVE  /\ calls[t] \in Call /\ calls[t].op = "logout"
             /\ calls'[t].op = "logout" /\ calls'[t].sent = calls[t].sent
             /\ calls'[t].sid \in currentRequestUser(t)
             /\ calls'[t].at = (IF calls'[t].sid = None THEN "byHash" ELSE "byId")
  <2>1. calls[t] \in Call /\ calls[t].op = "logout"
    BY <1>0, <1>1 DEF LogoutGuard, At
  <2>2. PICK s \in currentRequestUser(t) :
            calls' = [calls EXCEPT ![t].sid = s, ![t].at = IF s = None THEN "byHash" ELSE "byId"]
    BY <1>1 DEF LogoutGuard
  <2> QED BY <1>0, <2>1, <2>2 DEF Call
<1>2. ASSUME RevokeGuard(t)
      PROVE  /\ calls[t] \in Call /\ calls[t].op \in {"revoke", "revokeAll"}
             /\ \/ KeepCookies(t)
                \/ /\ calls'[t].op = calls[t].op /\ calls'[t].sent = calls[t].sent
                   /\ calls'[t].sid = calls[t].sid /\ calls'[t].at = "byId"
  <2>1. calls[t] \in Call /\ calls[t].op \in {"revoke", "revokeAll"}
    BY <1>0, <1>2 DEF RevokeGuard, At
  <2>2. KeepCookies(t) \/ calls' = [calls EXCEPT ![t].at = "byId"]
    BY <1>2 DEF RevokeGuard, Goto
  <2> QED BY <1>0, <2>1, <2>2 DEF Call
<1> QED BY <1>1, <1>2

(* Steps that no request takes, and those that send one other than a       *)
(* login.                                                                  *)
Quiet == \/ \E h \in Holders : AccessExpires(h) \/ \E k \in Holders : CopyProfile(h, k)
         \/ \E r \in history : GraceEnds(r)
         \/ \E s \in Sessions : Lapse(s)
         \/ CleanupHistory
         \/ \E old \in SUBSET rows : CleanupSessions(old)
         \/ UNCHANGED vars

Sends(t) == \/ SendRefresh(t) \/ SendLogout(t)
            \/ \E s \in Sessions : SendRevoke(t, "revoke", {s})
            \/ SendRevoke(t, "revokeAll", used)

LEMMA Steps ==
    ASSUME [Next]_vars
    PROVE  \/ \E t \in Tabs : \/ Serve(t) \/ Lose(t) \/ Sends(t)
                              \/ \E s \in Sessions : SendLogin(t, s)
           \/ Quiet
BY DEF Next, Quiet, Sends

LEMMA QuietSteps ==
    ASSUME TypeInv, Quiet
    PROVE  /\ UNCHANGED <<env, used, revoked, gen, calls, ended, touched>>
           /\ rows' \subseteq rows
           /\ \A s \in Sessions : lapsed'[s] >= lapsed[s]
<1> USE DEF rowVars, userVars, TypeInv
<1>1. ASSUME NEW s \in Sessions, Lapse(s)
      PROVE  /\ UNCHANGED <<env, used, revoked, gen, calls, ended, touched, rows>>
             /\ \A x \in Sessions : lapsed'[x] >= lapsed[x]
  BY <1>1 DEF Lapse
<1>2. ASSUME NEW h \in Holders, NEW k \in Holders, AccessExpires(h) \/ CopyProfile(h, k)
      PROVE  UNCHANGED <<env, used, revoked, gen, calls, ended, touched, rows, lapsed>>
  BY <1>2 DEF AccessExpires, CopyProfile
<1>3. ASSUME NEW r \in history, GraceEnds(r)
      PROVE  UNCHANGED <<env, used, revoked, gen, calls, ended, touched, rows, lapsed>>
  BY <1>3 DEF GraceEnds
<1>4. CASE CleanupHistory \/ UNCHANGED vars
  BY <1>4 DEF CleanupHistory, vars
<1>5. ASSUME NEW old \in SUBSET rows, CleanupSessions(old)
      PROVE  /\ UNCHANGED <<env, used, revoked, gen, calls, ended, touched, lapsed>>
             /\ rows' \subseteq rows
  BY <1>5 DEF CleanupSessions
<1> QED BY <1>1, <1>2, <1>3, <1>4, <1>5 DEF Quiet

LEMMA SendSteps ==
    ASSUME TypeInv, NEW t \in Tabs, Sends(t)
    PROVE  /\ UNCHANGED <<env, rowVars, jar, ended>> /\ touched \subseteq touched'
           /\ calls[t] = Idle /\ calls'[t].op \in {"refresh", "logout", "revoke", "revokeAll"}
           /\ calls'[t].at \in {"guard", "find"} /\ calls'[t].sent = jar[HolderOf[t]]
           /\ \A u \in Tabs : u # t => calls'[u] = calls[u]
<1> USE DEF Send, userVars
<1>0. DOMAIN calls = Tabs
  BY DEF TypeInv
<1>1. CASE SendRefresh(t)
  BY <1>0, <1>1 DEF SendRefresh
<1>2. CASE SendLogout(t)
  BY <1>0, <1>2 DEF SendLogout
<1>3. ASSUME NEW op \in {"revoke", "revokeAll"}, NEW targets, SendRevoke(t, op, targets)
      PROVE  /\ UNCHANGED <<env, rowVars, jar, ended>> /\ touched \subseteq touched'
             /\ calls[t] = Idle /\ calls'[t].op = op
             /\ calls'[t].at = "guard" /\ calls'[t].sent = jar[HolderOf[t]]
             /\ \A u \in Tabs : u # t => calls'[u] = calls[u]
  BY <1>0, <1>3 DEF SendRevoke
<1> QED BY <1>1, <1>2, <1>3 DEF Sends

-----------------------------------------------------------------------------
(* Ids                                                                     *)

(* No login starts and no row appears.                                     *)
LEMMA IdsQuiet ==
    ASSUME IdsInv, used' = used, rows' \subseteq rows,
           \A t \in Tabs : At(t, "login", "insert")' =>
               At(t, "login", "insert") /\ calls'[t].sid = calls[t].sid,
           \A s \in Sessions : s \notin rows => gen'[s] = gen[s]
    PROVE  IdsInv'
<1>1. \A s : Inserting(s)' => Inserting(s)
  BY DEF Inserting
<1>2. \A s : Known(s) => Known(s)'
  BY <1>1 DEF Known
<1>3. ASSUME NEW s \in Sessions, ~Known(s)' PROVE gen'[s] = 0
  BY <1>2, <1>3 DEF IdsInv
<1>4. \A t \in Tabs : At(t, "login", "insert")' => calls'[t].sid \in used'
  BY DEF IdsInv
<1>5. ASSUME NEW t \in Tabs, NEW u \in Tabs, At(t, "login", "insert")',
             At(u, "login", "insert")', calls'[t].sid = calls'[u].sid
      PROVE  t = u
  BY <1>5 DEF IdsInv
<1> QED BY <1>2, <1>3, <1>4, <1>5 DEF IdsInv

LEMMA IdsInductive ==
    ASSUME TypeInv, TypeInv', IdsInv, [Next]_vars
    PROVE  IdsInv'
<1>1. ASSUME NEW t \in Tabs, Serve(t) PROVE IdsInv'
  <2>1. CASE createBrowserSession(t)
    <3>0. /\ At(t, "login", "insert") /\ UNCHANGED <<used, gen>>
          /\ \A u \in Tabs : u # t => calls'[u] = calls[u]
          /\ calls'[t].op # "login"
          /\ rows' = rows \/ rows' = rows \cup {calls[t].sid}
      BY <1>1, <2>1, Requests DEF createBrowserSession
    <3>1. \A u \in Tabs : At(u, "login", "insert")' =>
              u # t /\ At(u, "login", "insert") /\ calls'[u].sid = calls[u].sid
      BY <3>0 DEF At
    <3>2. \A s : Inserting(s)' => Inserting(s) /\ s # calls[t].sid
      BY <3>0, <3>1 DEF Inserting, IdsInv
    <3>3. \A s : Known(s) => Known(s)'
      BY <3>0, <3>2 DEF Known
    <3>4. \A s : s = calls[t].sid => Known(s)'
      BY <3>0, <3>2 DEF Known, IdsInv
    <3>5. \A u \in Tabs : At(u, "login", "insert")' => calls'[u].sid \in used'
      BY <3>0, <3>1 DEF IdsInv
    <3>6. ASSUME NEW u \in Tabs, NEW v \in Tabs, At(u, "login", "insert")',
                 At(v, "login", "insert")', calls'[u].sid = calls'[v].sid
          PROVE  u = v
      BY <3>1, <3>6 DEF IdsInv
    <3>7. \A s \in rows' : Known(s)'
      BY <3>0, <3>3, <3>4 DEF IdsInv
    <3>8. \A s \in Sessions : ~Known(s)' => gen'[s] = 0
      BY <3>0, <3>3 DEF IdsInv
    <3> QED BY <3>5, <3>6, <3>7, <3>8 DEF IdsInv
  <2>2. CASE ~createBrowserSession(t)
    <3>1. \A s \in Sessions : s \notin rows => gen'[s] = gen[s]
      BY <1>1, Requests DEF rotateRefreshToken, Rotatable, IsCurrent, TypeInv
    <3>2. \A u \in Tabs : At(u, "login", "insert")' =>
              At(u, "login", "insert") /\ calls'[u].sid = calls[u].sid
      BY <1>1, Requests DEF At
    <3> QED BY <1>1, <2>2, <3>1, <3>2, IdsQuiet, Requests
  <2> QED BY <2>1, <2>2
<1>2. ASSUME NEW t \in Tabs, Lose(t) PROVE IdsInv'
  BY <1>2, IdsQuiet DEF Lose, At, Idle, TypeInv, rowVars
<1>3. ASSUME NEW t \in Tabs, Sends(t) PROVE IdsInv'
  <2>1. \A u \in Tabs : At(u, "login", "insert")' =>
            At(u, "login", "insert") /\ calls'[u].sid = calls[u].sid
    BY <1>3, SendSteps DEF At
  <2> QED BY <1>3, <2>1, SendSteps, IdsQuiet DEF rowVars
<1>4. ASSUME NEW t \in Tabs, NEW s \in Sessions, SendLogin(t, s) PROVE IdsInv'
  <2>1. /\ s \notin used /\ used' = used \cup {s} /\ UNCHANGED <<rows, gen>>
        /\ At(t, "login", "insert")' /\ calls'[t].sid = s /\ calls[t] = Idle
        /\ \A u \in Tabs : u # t => calls'[u] = calls[u]
    BY <1>4 DEF SendLogin, Send, At, TypeInv
  <2>2. \A u \in Tabs : u # t /\ At(u, "login", "insert")' =>
            At(u, "login", "insert") /\ calls'[u].sid = calls[u].sid /\ calls'[u].sid # s
    BY <2>1 DEF At, IdsInv
  <2>3. \A x : x # s /\ Inserting(x)' => Inserting(x)
    BY <2>1, <2>2 DEF Inserting
  <2>4. \A x : Known(x) => Known(x)'
    BY <2>1, <2>3 DEF Known
  <2>5. \A u \in Tabs : At(u, "login", "insert")' => calls'[u].sid \in used'
    BY <2>1, <2>2 DEF IdsInv
  <2>6. ASSUME NEW u \in Tabs, NEW v \in Tabs, At(u, "login", "insert")',
               At(v, "login", "insert")', calls'[u].sid = calls'[v].sid
        PROVE  u = v
    BY <2>1, <2>2, <2>6 DEF IdsInv
  <2> QED BY <2>1, <2>4, <2>5, <2>6 DEF IdsInv
<1>5. CASE Quiet
  <2>1. UNCHANGED <<used, gen, calls>> /\ rows' \subseteq rows
    BY <1>5, QuietSteps
  <2> QED BY <2>1, IdsQuiet DEF At
<1> QED BY <1>1, <1>2, <1>3, <1>4, <1>5, Steps

(* An id stays what it is, and what is over stays over.                    *)
LEMMA KnownStays ==
    ASSUME TypeInv, TypeInv', IdsInv, IdsInv', [Next]_vars, NEW s \in Sessions
    PROVE  /\ Known(s) => Known(s)'
           /\ Known(s) /\ s \notin rows => s \notin rows'
           /\ revoked \subseteq revoked' /\ touched \subseteq touched'
           /\ Finished(s) => Finished(s)'
           /\ lapsed'[s] >= lapsed[s]
<1> SUFFICES /\ Known(s) => Known(s)' /\ (s \notin rows => s \notin rows')
             /\ revoked \subseteq revoked' /\ touched \subseteq touched'
             /\ lapsed'[s] >= lapsed[s]
  BY DEF Finished
<1>1. ASSUME NEW t \in Tabs, Serve(t)
      PROVE  /\ Known(s) => Known(s)' /\ (s \notin rows => s \notin rows')
             /\ revoked \subseteq revoked' /\ touched \subseteq touched'
             /\ lapsed' = lapsed
  <2>1. Inserting(s)' => Inserting(s)
    BY <1>1, Requests DEF Inserting, At
  <2>2. s \in rows' => s \in rows \/ Inserting(s)
    BY <1>1, Requests DEF createBrowserSession, Inserting
  <2> QED BY <1>1, <2>1, <2>2, Requests DEF Known
<1>2. ASSUME NEW t \in Tabs, Lose(t)
      PROVE  /\ Known(s) => Known(s)'
             /\ UNCHANGED <<rows, revoked, touched, lapsed>>
  BY <1>2 DEF Lose, Known, Inserting, At, Idle, TypeInv, rowVars, userVars
<1>3. ASSUME NEW t \in Tabs, Sends(t)
      PROVE  /\ Known(s) => Known(s)'
             /\ UNCHANGED <<rows, revoked, lapsed>>
             /\ touched \subseteq touched'
  BY <1>3, SendSteps DEF Known, Inserting, At, rowVars
<1>4. ASSUME NEW t \in Tabs, NEW x \in Sessions, SendLogin(t, x)
      PROVE  /\ Known(s) => Known(s)'
             /\ UNCHANGED <<rows, revoked, touched, lapsed>>
  <2>1. /\ x \notin used /\ used' = used \cup {x} /\ UNCHANGED <<rows, revoked, touched, lapsed>>
        /\ calls'[t].sid = x
        /\ \A u \in Tabs : u # t => calls'[u] = calls[u]
    BY <1>4 DEF SendLogin, Send, TypeInv, userVars
  <2> QED BY <2>1 DEF Known, Inserting, At
<1>5. CASE Quiet
  BY <1>5, QuietSteps DEF Known, Inserting, At
<1>6. lapsed[s] \in Nat
  BY DEF TypeInv
<1> QED BY <1>1, <1>2, <1>3, <1>4, <1>5, <1>6, Steps
-----------------------------------------------------------------------------
(* The history of spent tokens                                             *)

(* The record of a spent token that has not expired stays, whatever its    *)
(* "recent", as long as its session can be used.                           *)
LEMMA RecordsStay ==
    ASSUME TypeInv, [Next]_vars, NEW r \in history, Live(r.token[1])',
           r.token[2] >= lapsed'[r.token[1]]
    PROVE  \E x \in history' : x.token = r.token
<1>0. /\ r \in Spent /\ r.token[1] \in Sessions /\ r.token[2] \in Int
      /\ lapsed[r.token[1]] \in Int
  BY DEF TypeInv, Spent, Tokens, Generations
<1>1. ASSUME NEW t \in Tabs, Serve(t) PROVE history \subseteq history'
  BY <1>1, Requests DEF rotateRefreshToken
<1>2. ASSUME NEW t \in Tabs, Lose(t) \/ Sends(t) PROVE history' = history
  BY <1>2, SendSteps DEF Lose, rowVars
<1>3. ASSUME NEW t \in Tabs, NEW x \in Sessions, SendLogin(t, x) PROVE history' = history
  BY <1>3 DEF SendLogin
<1>4. ASSUME NEW h \in Holders, NEW k \in Holders, AccessExpires(h) \/ CopyProfile(h, k)
      PROVE  history' = history
  BY <1>4 DEF AccessExpires, CopyProfile, rowVars
<1>5. ASSUME NEW x \in history, GraceEnds(x) PROVE \E y \in history' : y.token = r.token
  <2>1. [x EXCEPT !.recent = FALSE].token = x.token
    BY DEF TypeInv, Spent
  <2> QED BY <1>5, <2>1 DEF GraceEnds
<1>6. ASSUME NEW s \in Sessions, Lapse(s) PROVE history' = history
  BY <1>6 DEF Lapse
<1>7. CASE CleanupHistory
  BY <1>0, <1>7 DEF CleanupHistory, Obsolete
<1>8. ASSUME NEW old \in SUBSET rows, CleanupSessions(old)
      PROVE  r \in history'
  <2> DEFINE gone == old \cup {s \in rows : lapsed[s] > gen[s]}
  <2>1. rows' = rows \ gone /\ history' = {x \in history : x.token[1] \notin gone}
    BY <1>8 DEF CleanupSessions
  <2>2. r.token[1] \in rows'
    BY DEF Live
  <2> QED BY <2>1, <2>2
<1>9. CASE UNCHANGED vars
  BY <1>9 DEF vars, rowVars
<1> QED BY <1>1, <1>2, <1>3, <1>4, <1>5, <1>6, <1>7, <1>8, <1>9, Steps DEF Quiet

(* A refresh that succeeds is the only step that spends a token, and it    *)
(* records it.                                                             *)
LEMMA SpentOnce ==
    ASSUME TypeInv, [Next]_vars, NEW s \in Sessions
    PROVE  \/ gen'[s] = gen[s]
           \/ /\ gen'[s] = gen[s] + 1 /\ s \in rows
              /\ \E r \in history' : r.token = <<s, gen[s]>>
<1>1. ASSUME NEW t \in Tabs, rotateRefreshToken(t), gen'[s] # gen[s]
      PROVE  /\ gen'[s] = gen[s] + 1 /\ s \in rows
             /\ \E r \in history' : r.token = <<s, gen[s]>>
  <2> DEFINE token == calls[t].sent.refresh
  <2>1. token \in Tokens
    BY <1>1 DEF rotateRefreshToken, At, TypeInv, CallOK, Idle
  <2>2. /\ gen' = [gen EXCEPT ![token[1]] = @ + 1] /\ Rotatable(token)
        /\ history' = history \cup {[token |-> token, client |-> HolderOf[t], recent |-> TRUE]}
    BY <1>1 DEF rotateRefreshToken
  <2>3. token[1] = s /\ token[2] = gen[s] /\ s \in rows
    BY <1>1, <2>1, <2>2 DEF Rotatable, IsCurrent, TypeInv, Tokens
  <2>4. token = <<s, gen[s]>>
    BY <2>1, <2>3 DEF Tokens
  <2>5. gen'[s] = gen[s] + 1
    BY <2>2, <2>3 DEF TypeInv
  <2>6. \E r \in history' : r.token = token
    <3>1. [token |-> token, client |-> HolderOf[t], recent |-> TRUE] \in history'
      BY <2>2
    <3>2. [token |-> token, client |-> HolderOf[t], recent |-> TRUE].token = token
      OBVIOUS
    <3> QED BY <3>1, <3>2
  <2> HIDE DEF token
  <2> QED BY <2>3, <2>4, <2>5, <2>6
<1>2. ASSUME NEW t \in Tabs, Serve(t)
      PROVE  gen' = gen \/ rotateRefreshToken(t)
  BY <1>2, Requests
<1>3. ASSUME NEW t \in Tabs, Lose(t) \/ Sends(t) PROVE gen' = gen
  BY <1>3, SendSteps DEF Lose, rowVars
<1>4. ASSUME NEW t \in Tabs, NEW x \in Sessions, SendLogin(t, x) PROVE gen' = gen
  BY <1>4 DEF SendLogin
<1>5. CASE Quiet
  BY <1>5, QuietSteps
<1> QED BY <1>1, <1>2, <1>3, <1>4, <1>5, Steps

LEMMA EvidenceInductive ==
    ASSUME TypeInv, TypeInv', IdsInv, IdsInv', EvidenceKept, [Next]_vars
    PROVE  EvidenceKept'
<1> SUFFICES ASSUME NEW s \in Sessions, Live(s)', NEW n \in lapsed'[s]..gen'[s] - 1
             PROVE  \E r \in history' : r.token = <<s, n>>
  BY DEF EvidenceKept
<1>0. /\ n \in Int /\ n >= lapsed'[s] /\ n <= gen'[s] - 1
      /\ gen[s] \in Nat /\ lapsed[s] \in Nat /\ gen'[s] \in Nat /\ lapsed'[s] \in Nat
  BY DEF TypeInv, Generations
<1>1. lapsed'[s] >= lapsed[s] /\ revoked \subseteq revoked'
  BY KnownStays
<1>2. CASE n < gen[s]
  <2>1. Known(s)
    BY <1>0, <1>2 DEF IdsInv
  <2>2. Live(s)
    BY <1>0, <1>1, <1>2, <2>1, KnownStays DEF Live
  <2>3. PICK r \in history : r.token = <<s, n>>
    <3>1. n \in lapsed[s]..gen[s] - 1
      BY <1>0, <1>1, <1>2
    <3> QED BY <2>2, <3>1 DEF EvidenceKept
  <2> QED BY <1>0, <2>3, RecordsStay
<1>3. CASE n >= gen[s]
  <2>1. gen'[s] = gen[s] + 1 /\ \E r \in history' : r.token = <<s, gen[s]>>
    BY <1>0, <1>3, SpentOnce
  <2>2. n = gen[s]
    BY <1>0, <1>3, <2>1
  <2> QED BY <2>1, <2>2
<1> QED BY <1>0, <1>2, <1>3

(* EvidenceKept: as long as a session can be used, each of its spent       *)
(* tokens that has not expired is recognised as one, whatever the cleanup  *)
(* has removed.                                                            *)
THEOREM EvidenceStays == Spec => []EvidenceKept
<1>1. Init => IdsInv /\ EvidenceKept
  BY DEF Init, IdsInv, EvidenceKept, Known, Inserting, At, Idle, Live
<1>2. TypeInv /\ TypeInv' /\ IdsInv /\ EvidenceKept /\ [Next]_vars => IdsInv' /\ EvidenceKept'
  BY IdsInductive, EvidenceInductive
<1> QED BY <1>1, <1>2, SessionTypes, PTL DEF Spec
-----------------------------------------------------------------------------
(* Sessions nobody disturbs.  As long as only users end sessions and tabs  *)
(* work at the same time, a token goes one way: from the jar of a browser  *)
(* into refreshes, of which one rotates it, and from that one's response   *)
(* back into the jar.                                                      *)

Calm == env \subseteq {"tabs", "end"}

(* A session that may be in any state.                                     *)
Over(s) == s \in touched \/ (Known(s) /\ s \notin rows) \/ lapsed[s] > gen[s]

(* What a request, or its response, is about.                              *)
Carries(t, s) ==
    /\ calls[t] # Idle
    /\ s \in SessionsIn(calls[t].sent) \/ (At(t, "login", "insert") /\ calls[t].sid = s)

Uses(h, s) ==
    \/ s \in SessionsIn(jar[h])
    \/ \E t \in Tabs : HolderOf[t] = h /\ Carries(t, s)

(* A browser has one session at a time, and no two have the same.          *)
OwnInv ==
    /\ \A h \in Holders : \A s \in Sessions : Uses(h, s) => s \in used
    /\ \A h \in Holders : \A s, x \in Sessions : Uses(h, s) /\ Uses(h, x) => s = x
    /\ \A h, k \in Holders : \A s \in Sessions : Uses(h, s) /\ Uses(k, s) => h = k

(* Cookies come from rows, and tokens have been issued.                    *)
CookieInv ==
    /\ \A h \in Holders : \A s \in SessionsIn(jar[h]) : Known(s)
    /\ \A t \in Tabs : calls[t] # Idle =>
          /\ \A s \in SessionsIn(calls[t].sent) : Known(s)
          /\ calls[t].op = "login" => SessionsIn(calls[t].sent) = {}
    /\ \A h \in Holders : \A s \in Sessions : \A n \in Generations :
          jar[h].refresh = <<s, n>> => n <= gen[s]
    /\ \A t \in Tabs : calls[t] # Idle =>
          \A s \in Sessions : \A n \in Generations : calls[t].sent.refresh = <<s, n>> =>
             n <= gen[s] /\ (At(t, "refresh", "issue") => n < gen[s])

(* What the requests that end sessions know of the one they end.           *)
AskedInv ==
    \A t \in Tabs :
        /\ calls[t].op = "logout" =>
              /\ SessionsIn(calls[t].sent) \subseteq touched /\ SessionsIn(calls[t].sent) # {}
              /\ calls[t].sid \in {None, calls[t].sent.access}
        /\ calls[t].op = "revoke" => calls[t].sid \in touched
        /\ calls[t].op \in {"revoke", "revokeAll"} => calls[t].sent.access # None

(* Only a session that is over is revoked, or takes cookies with it.       *)
EndingInv ==
    /\ AskedInv
    /\ \A s \in revoked : Over(s)
    /\ \A t \in Tabs : At(t, "reply", "clear") =>
          \A s \in Sessions : Uses(HolderOf[t], s) => Over(s)

Has(h, s, n)  == jar[h].refresh = <<s, n>>
Asks(t, s, n) == At(t, "refresh", "find") /\ calls[t].sent.refresh = <<s, n>>
Late(t, s, n) == At(t, "refresh", "history") /\ calls[t].sent.refresh = <<s, n>>
(* The response will bring, or brings, the token.                          *)
Brings(t, s, n) ==
    \/ At(t, "refresh", "issue") /\ calls[t].sent.refresh = <<s, n - 1>>
    \/ At(t, "reply", "set") /\ calls[t].sent.refresh = <<s, n>>

(* The grace period of a spent token.                                      *)
Recent(s, n, h) ==
    /\ n >= lapsed[s]
    /\ [token |-> <<s, n>>, client |-> h, recent |-> TRUE] \in history

(* Where the tokens of a session are: a spent one that a browser still has *)
(* or presents is one the server tolerates, and the current one is in the  *)
(* jar of a browser or, once, in a response.                               *)
TokenAt(s) ==
    /\ \A h \in Holders : \A n \in Generations : Has(h, s, n) =>
          \/ n = gen[s]
          \/ /\ Recent(s, n, h)
             /\ \E t \in Tabs : HolderOf[t] = h /\ Brings(t, s, gen[s])
    /\ \A t \in Tabs : \A n \in Generations :
          /\ Asks(t, s, n) => n = gen[s] \/ Recent(s, n, HolderOf[t])
          /\ Late(t, s, n) => Recent(s, n, HolderOf[t])
          /\ Brings(t, s, n) => n = gen[s]
    /\ \A t \in Tabs : Brings(t, s, gen[s]) =>
          /\ \A h \in Holders : ~Has(h, s, gen[s])
          /\ \A u \in Tabs : ~Asks(u, s, gen[s]) /\ (Brings(u, s, gen[s]) => u = t)
    /\ Known(s) => \/ \E h \in Holders : Has(h, s, gen[s])
                   \/ \E t \in Tabs : Brings(t, s, gen[s])

TokenInv == \A s \in Sessions : ~Over(s) => TokenAt(s)

CalmInv == Calm => OwnInv /\ CookieInv /\ EndingInv /\ TokenInv

LEMMA EmptyHasNone == /\ SessionsIn(EmptyJar) = {} /\ EmptyJar \in Jars
                      /\ EmptyJar.access = None /\ EmptyJar.refresh = None
                      /\ \A s \in Sessions : \A n \in Generations : EmptyJar.refresh # <<s, n>>
<1>1. EmptyJar.access = None /\ EmptyJar.refresh = None
  BY DEF EmptyJar
<1>2. \A s \in Sessions : None # s /\ \A n \in Generations : None # <<s, n>>
  BY SessionsAssumption DEF Generations
<1>3. SessionsIn(EmptyJar) = {}
  <2> SUFFICES ASSUME NEW s \in SessionsIn(EmptyJar) PROVE FALSE
    OBVIOUS
  <2>1. s \in Sessions /\ (None = s \/ \E n \in Generations : None = <<s, n>>)
    BY <1>1 DEF SessionsIn
  <2> QED BY <1>2, <2>1
<1> QED BY <1>1, <1>2, <1>3, EmptyIsJar

CalmQuiet == \/ \E h \in Holders : AccessExpires(h)
             \/ \E r \in history : GraceEnds(r)
             \/ \E s \in Sessions : Lapse(s)
             \/ CleanupHistory
             \/ \E old \in SUBSET rows : CleanupSessions(old)
             \/ UNCHANGED vars

LEMMA CalmSteps ==
    ASSUME TypeInv, Calm, [Next]_vars
    PROVE  \/ \E t \in Tabs : \/ Serve(t) \/ Sends(t) \/ \E s \in Sessions : SendLogin(t, s)
           \/ CalmQuiet
<1>1. \A t \in Tabs : ~Lose(t)
  BY DEF Calm, Lose
<1>2. \A h, k \in Holders : ~CopyProfile(h, k)
  BY DEF Calm, CopyProfile
<1> QED BY <1>1, <1>2, Steps DEF Quiet, CalmQuiet

LEMMA CalmStays == ASSUME TypeInv, [Next]_vars PROVE env' = env
<1>1. ASSUME NEW t \in Tabs, Serve(t) PROVE env' = env
  BY <1>1, Requests
<1>2. ASSUME NEW t \in Tabs, Lose(t) PROVE env' = env
  BY <1>2 DEF Lose
<1>3. ASSUME NEW t \in Tabs, Sends(t) PROVE env' = env
  BY <1>3, SendSteps
<1>4. ASSUME NEW t \in Tabs, NEW s \in Sessions, SendLogin(t, s) PROVE env' = env
  BY <1>4 DEF SendLogin
<1>5. CASE Quiet
  BY <1>5, QuietSteps
<1> QED BY <1>1, <1>2, <1>3, <1>4, <1>5, Steps

LEMMA QuietCalm ==
    ASSUME TypeInv, CalmQuiet
    PROVE  /\ UNCHANGED <<used, revoked, gen, calls, touched>>
           /\ \A h \in Holders : /\ jar'[h].refresh = jar[h].refresh
                                 /\ jar'[h].access \in {None, jar[h].access}
<1>1. UNCHANGED <<used, revoked, gen, calls, touched>>
  BY QuietSteps DEF Quiet, CalmQuiet
<1>2. ASSUME NEW h \in Holders, AccessExpires(h)
      PROVE  \A k \in Holders : /\ jar'[k].refresh = jar[k].refresh
                                /\ jar'[k].access \in {None, jar[k].access}
  BY <1>2 DEF AccessExpires, TypeInv, Jars
<1>3. ASSUME NEW r \in history, GraceEnds(r) PROVE jar' = jar
  BY <1>3 DEF GraceEnds
<1>4. ASSUME NEW s \in Sessions, Lapse(s) PROVE jar' = jar
  BY <1>4 DEF Lapse
<1>5. ASSUME NEW old \in SUBSET rows, CleanupSessions(old) PROVE jar' = jar
  BY <1>5 DEF CleanupSessions
<1>6. CASE CleanupHistory \/ UNCHANGED vars
  BY <1>1, <1>6 DEF CleanupHistory, vars
<1> QED BY <1>1, <1>2, <1>3, <1>4, <1>5, <1>6 DEF CalmQuiet

(* What a request that is served carries on, and what it brings back.      *)
LEMMA ServeCarries ==
    ASSUME TypeInv, NEW t \in Tabs, Serve(t)
    PROVE  /\ calls'[t] # Idle =>
                \/ calls'[t].op = "reply" /\ calls'[t].at \in {"keep", "clear"}
                     /\ calls'[t].sent = EmptyJar
                \/ calls'[t].op = calls[t].op /\ calls'[t].sent = calls[t].sent
                     /\ calls[t].op # "login"
                \/ /\ createBrowserSession(t) /\ At(t, "reply", "set")'
                   /\ At(t, "login", "insert") /\ calls[t].sid \in Sessions
                   /\ calls'[t].sent = [access |-> calls[t].sid, refresh |-> <<calls[t].sid, 0>>]
                \/ \E s \in Sessions : \E n \in Generations :
                     /\ IssueTokens(t) /\ At(t, "reply", "set")'
                     /\ At(t, "refresh", "issue") /\ calls[t].sent.refresh = <<s, n>>
                     /\ n + 1 \in Generations
                     /\ calls'[t].sent = [access |-> s, refresh |-> <<s, n + 1>>]
           /\ \A h \in Holders :
                \/ jar'[h] = jar[h]
                \/ /\ h = HolderOf[t] /\ calls'[t] = Idle
                   /\ \/ At(t, "reply", "clear") /\ jar'[h] = EmptyJar
                      \/ At(t, "reply", "set") /\ jar'[h] = calls[t].sent
<1> USE DEF At, Goto, Reply, SetCookies, ClearCookies, KeepCookies
<1>0. DOMAIN calls = Tabs /\ (calls[t] = Idle \/ calls[t] \in Call) /\ CallOK(calls[t])
      /\ Idle.op = "none"
  BY DEF TypeInv, CallOK, Idle
<1>1. CASE createBrowserSession(t)
  BY <1>0, <1>1 DEF createBrowserSession, CallOK, Idle
<1>2. CASE rotateRefreshToken(t)
  <2>1. calls[t].op = "refresh" /\ calls[t] \in Call /\ jar' = jar
    BY <1>0, <1>2 DEF rotateRefreshToken
  <2>2. calls'[t].op = calls[t].op /\ calls'[t].sent = calls[t].sent
    BY <1>0, <1>2, <2>1 DEF rotateRefreshToken, Call
  <2> QED BY <2>1, <2>2
<1>3. CASE ClassifyReuse(t)
  BY <1>0, <1>3 DEF ClassifyReuse
<1>4. CASE IssueTokens(t)
  <2>1. calls[t].sent.refresh \in Tokens /\ calls[t].sent.refresh[2] < MaxRotations
    BY <1>0, <1>4 DEF IssueTokens, CallOK, Idle
  <2>2. PICK s \in Sessions, n \in Generations : calls[t].sent.refresh = <<s, n>>
    BY <2>1 DEF Tokens
  <2>3. n + 1 \in Generations
    BY <2>1, <2>2, SessionsAssumption DEF Generations
  <2>4. CASE SetCookies(t, s, n + 1)
    <3>1. /\ calls'[t].sent = [access |-> s, refresh |-> <<s, n + 1>>] /\ At(t, "reply", "set")'
          /\ jar' = jar
      BY <1>0, <1>4, <2>4 DEF IssueTokens
    <3> QED BY <1>4, <2>2, <2>3, <3>1 DEF IssueTokens
  <2>5. CASE ClearCookies(t)
    BY <1>0, <1>4, <2>5 DEF IssueTokens
  <2>6. SetCookies(t, s, n + 1) \/ ClearCookies(t)
    BY <1>4, <2>2 DEF IssueTokens
  <2> QED BY <2>4, <2>5, <2>6
<1>11. CASE RefreshFails(t)
  BY <1>0, <1>11 DEF RefreshFails, rowVars
<1>5. CASE RevokeGuard(t)
  <2>1. jar' = jar
    BY <1>5 DEF RevokeGuard
  <2> QED BY <1>0, <1>5, <2>1, Guards
<1>6. CASE LogoutGuard(t)
  <2>1. jar' = jar
    BY <1>6 DEF LogoutGuard
  <2> QED BY <1>6, <2>1, Guards
<1>7. CASE LogoutByID(t)
  <2>1. calls[t].op = "logout" /\ calls[t] \in Call /\ jar' = jar
    BY <1>0, <1>7 DEF LogoutByID
  <2>2. calls'[t].op = calls[t].op /\ calls'[t].sent = calls[t].sent
    BY <1>0, <1>7, <2>1 DEF LogoutByID, Call
  <2> QED BY <2>1, <2>2
<1>10. CASE LogoutByHash(t)
  BY <1>0, <1>10 DEF LogoutByHash
<1>8. CASE AuthSessionRevoke(t) \/ AuthRevokeAllSessions(t)
  BY <1>0, <1>8 DEF AuthSessionRevoke, AuthRevokeAllSessions, userVars
<1>9. CASE Receive(t)
  <2>1. calls'[t] = Idle
    BY <1>0, <1>9 DEF Receive
  <2>2. \/ At(t, "reply", "set") /\ jar' = [jar EXCEPT ![HolderOf[t]] = calls[t].sent]
        \/ At(t, "reply", "clear") /\ jar' = [jar EXCEPT ![HolderOf[t]] = EmptyJar]
        \/ jar' = jar
    BY <1>0, <1>9 DEF Receive, CallOK, Idle
  <2> QED BY <2>1, <2>2 DEF TypeInv
<1> QED BY <1>1, <1>2, <1>3, <1>4, <1>5, <1>6, <1>7, <1>8, <1>9, <1>10, <1>11 DEF Serve

LEMMA CookiesOf ==
    ASSUME NEW s \in Sessions, NEW n \in Generations
    PROVE  SessionsIn([access |-> s, refresh |-> <<s, n>>]) = {s}
<1> DEFINE c == [access |-> s, refresh |-> <<s, n>>]
<1>1. c.access = s /\ c.refresh = <<s, n>>
  OBVIOUS
<1> HIDE DEF c
<1>2. \A x \in Sessions : x \in SessionsIn(c) <=> x = s
  BY <1>1 DEF SessionsIn
<1>3. SessionsIn(c) \subseteq Sessions
  BY DEF SessionsIn
<1> QED BY <1>2, <1>3 DEF c

(* Only a login gives a browser a session.                                 *)
LEMMA ServeUses ==
    ASSUME TypeInv, NEW t \in Tabs, Serve(t)
    PROVE  /\ \A u \in Tabs : \A s \in Sessions : Carries(u, s)' => Carries(u, s)
           /\ \A h \in Holders : \A s \in Sessions : Uses(h, s)' => Uses(h, s)
<1>1. ASSUME NEW s \in Sessions, Carries(t, s)' PROVE Carries(t, s)
  <2>1. calls[t] # Idle /\ calls'[t] # Idle /\ calls'[t].op # "login"
    BY <1>1, Requests DEF Carries
  <2>2. s \in SessionsIn(calls'[t].sent)
    BY <1>1, <2>1 DEF Carries, At, SessionsIn
  <2>3. CASE calls'[t].sent = EmptyJar
    BY <2>2, <2>3, EmptyHasNone
  <2>4. CASE calls'[t].sent = calls[t].sent
    BY <2>1, <2>2, <2>4 DEF Carries
  <2>5. CASE /\ At(t, "login", "insert") /\ calls[t].sid \in Sessions
             /\ calls'[t].sent = [access |-> calls[t].sid, refresh |-> <<calls[t].sid, 0>>]
    <3>1. 0 \in Generations
      BY SessionsAssumption DEF Generations
    <3>2. s = calls[t].sid
      BY <2>2, <2>5, <3>1, CookiesOf
    <3> QED BY <2>1, <2>5, <3>2 DEF Carries
  <2>6. ASSUME NEW x \in Sessions, NEW n \in Generations, calls[t].sent.refresh = <<x, n>>,
               n + 1 \in Generations, calls'[t].sent = [access |-> x, refresh |-> <<x, n + 1>>]
        PROVE  Carries(t, s)
    <3>1. s = x
      BY <2>2, <2>6, CookiesOf
    <3>2. s \in SessionsIn(calls[t].sent)
      BY <2>6, <3>1 DEF SessionsIn
    <3> QED BY <2>1, <3>2 DEF Carries
  <2> QED BY <2>1, <2>3, <2>4, <2>5, <2>6, ServeCarries
<1>2. ASSUME NEW u \in Tabs, NEW s \in Sessions, Carries(u, s)' PROVE Carries(u, s)
  <2>1. u # t => calls'[u] = calls[u]
    BY Requests
  <2>2. u # t => Carries(u, s)
    BY <1>2, <2>1 DEF Carries, At, SessionsIn
  <2> QED BY <1>1, <1>2, <2>2
<1>3. ASSUME NEW h \in Holders, NEW s \in Sessions, Uses(h, s)' PROVE Uses(h, s)
  <2>1. CASE s \in SessionsIn(jar'[h])
    <3>1. CASE jar'[h] = jar[h]
      BY <2>1, <3>1 DEF Uses
    <3>2. CASE jar'[h] = EmptyJar
      BY <2>1, <3>2, EmptyHasNone
    <3>3. CASE h = HolderOf[t] /\ At(t, "reply", "set") /\ jar'[h] = calls[t].sent
      <4>1. calls[t] # Idle
        BY <3>3 DEF At, Idle
      <4> QED BY <2>1, <3>3, <4>1 DEF Uses, Carries
    <3> QED BY <3>1, <3>2, <3>3, ServeCarries
  <2>2. CASE \E u \in Tabs : HolderOf[u] = h /\ Carries(u, s)'
    BY <1>2, <2>2 DEF Uses
  <2> QED BY <1>3, <2>1, <2>2 DEF Uses, SessionsIn
<1> QED BY <1>2, <1>3

LEMMA SendUses ==
    ASSUME TypeInv, NEW t \in Tabs, Sends(t)
    PROVE  \A h \in Holders : \A s \in Sessions : Uses(h, s)' => Uses(h, s)
<1>0. /\ jar' = jar /\ calls'[t].sent = jar[HolderOf[t]] /\ calls'[t].op # "login"
      /\ \A u \in Tabs : u # t => calls'[u] = calls[u]
  BY SendSteps
<1>1. ASSUME NEW h \in Holders, NEW s \in Sessions, NEW u \in Tabs, HolderOf[u] = h, Carries(u, s)'
      PROVE  Uses(h, s)
  <2>1. CASE u # t
    <3>1. Carries(u, s)
      BY <1>0, <1>1, <2>1 DEF Carries, At, SessionsIn
    <3> QED BY <1>1, <3>1 DEF Uses
  <2>2. CASE u = t
    <3>1. s \in SessionsIn(calls'[t].sent)
      BY <1>0, <1>1, <2>2 DEF Carries, At, SessionsIn
    <3> QED BY <1>0, <1>1, <2>2, <3>1 DEF Uses
  <2> QED BY <2>1, <2>2
<1> QED BY <1>0, <1>1 DEF Uses, SessionsIn

LEMMA QuietUses ==
    ASSUME TypeInv, CalmQuiet
    PROVE  /\ \A h \in Holders : SessionsIn(jar'[h]) \subseteq SessionsIn(jar[h])
           /\ \A h \in Holders : \A s \in Sessions : Uses(h, s)' => Uses(h, s)
<1>1. \A h \in Holders : SessionsIn(jar'[h]) \subseteq SessionsIn(jar[h])
  BY QuietCalm, SessionsAssumption DEF SessionsIn
<1>2. calls' = calls
  BY QuietCalm
<1>3. \A t \in Tabs : \A s \in Sessions : Carries(t, s)' => Carries(t, s)
  BY <1>2 DEF Carries, At, SessionsIn
<1> QED BY <1>1, <1>3 DEF Uses, SessionsIn

LEMMA LoginUses ==
    ASSUME TypeInv, NEW t \in Tabs, NEW x \in Sessions, SendLogin(t, x),
           NEW h \in Holders, NEW s \in Sessions, Uses(h, s)'
    PROVE  Uses(h, s) \/ (h = HolderOf[t] /\ s = x)
<1>1. /\ jar' = jar /\ calls'[t].sent = EmptyJar /\ calls'[t].sid = x
      /\ \A u \in Tabs : u # t => calls'[u] = calls[u]
  BY DEF SendLogin, Send, TypeInv
<1>2. CASE s \in SessionsIn(jar[h])
  BY <1>2 DEF Uses
<1>3. ASSUME NEW u \in Tabs, HolderOf[u] = h, Carries(u, s)'
      PROVE  Uses(h, s) \/ (h = HolderOf[t] /\ s = x)
  <2>1. CASE u # t
    <3>1. Carries(u, s)
      BY <1>1, <1>3, <2>1 DEF Carries, At, SessionsIn
    <3> QED BY <1>3, <3>1 DEF Uses
  <2>2. CASE u = t
    <3>1. s \notin SessionsIn(calls'[t].sent)
      BY <1>1, EmptyHasNone
    <3>2. s = x
      BY <1>1, <1>3, <2>2, <3>1 DEF Carries, At, SessionsIn
    <3> QED BY <1>3, <2>2, <3>2
  <2> QED BY <2>1, <2>2
<1> QED BY <1>1, <1>2, <1>3 DEF Uses, SessionsIn

LEMMA OwnStep ==
    ASSUME TypeInv, Calm, OwnInv, [Next]_vars
    PROVE  OwnInv'
<1>1. ASSUME \A h \in Holders : \A s \in Sessions : Uses(h, s)' => Uses(h, s), used \subseteq used'
      PROVE  OwnInv'
  BY <1>1 DEF OwnInv
<1>2. ASSUME NEW t \in Tabs, Serve(t) PROVE OwnInv'
  BY <1>1, <1>2, ServeUses, Requests
<1>3. ASSUME NEW t \in Tabs, Sends(t) PROVE OwnInv'
  BY <1>1, <1>3, SendUses, SendSteps DEF rowVars
<1>4. ASSUME NEW t \in Tabs, NEW x \in Sessions, SendLogin(t, x) PROVE OwnInv'
  <2> DEFINE b == HolderOf[t]
  <2>0. b \in Holders
    BY SessionsAssumption
  <2>1. /\ x \notin used /\ used' = used \cup {x} /\ jar' = jar
        /\ jar[b] = EmptyJar /\ \A u \in Tabs : HolderOf[u] = b => calls[u] = Idle
        /\ calls'[t].sent = EmptyJar /\ calls'[t].sid = x
        /\ \A u \in Tabs : u # t => calls'[u] = calls[u]
    BY <1>4 DEF SendLogin, Send, Busy, TypeInv
  <2>2. \A s \in Sessions : ~Uses(b, s)
    BY <2>1, EmptyHasNone DEF Uses, Carries
  <2>3. ASSUME NEW h \in Holders, NEW s \in Sessions, Uses(h, s)'
        PROVE  Uses(h, s) \/ (h = b /\ s = x)
    BY <1>4, <2>3, LoginUses
  <2>4. \A h \in Holders : ~Uses(h, x)
    BY <2>1 DEF OwnInv
  <2> HIDE DEF b
  <2> QED BY <2>0, <2>1, <2>2, <2>3, <2>4 DEF OwnInv
<1>5. CASE CalmQuiet
  BY <1>1, <1>5, QuietUses, QuietCalm
<1> QED BY <1>2, <1>3, <1>4, <1>5, CalmSteps

(* The one step that changes gen.                                          *)
Rotates(t) == rotateRefreshToken(t) /\ Rotatable(calls[t].sent.refresh)

LEMMA RotateStep ==
    ASSUME TypeInv, NEW t \in Tabs, Rotates(t)
    PROVE  \E s \in Sessions : \E n \in Generations :
              /\ calls[t].sent.refresh = <<s, n>> /\ Asks(t, s, n)
              /\ n = gen[s] /\ n + 1 \in Generations /\ s \in rows /\ lapsed[s] <= gen[s]
              /\ gen'[s] = n + 1 /\ \A x \in Sessions : x # s => gen'[x] = gen[x]
              /\ history' = history \cup {[token |-> <<s, n>>, client |-> HolderOf[t], recent |-> TRUE]}
              /\ calls'[t].op = "refresh" /\ calls'[t].at = "issue"
              /\ calls'[t].sent = calls[t].sent
              /\ \A u \in Tabs : u # t => calls'[u] = calls[u]
              /\ UNCHANGED <<rows, used, revoked, lapsed, jar, touched>>
<1>1. /\ calls[t] \in Call /\ calls[t].op = "refresh" /\ calls[t].at = "find"
      /\ calls[t].sent.refresh \in Tokens /\ calls[t].sent.refresh[2] < MaxRotations
  BY DEF Rotates, rotateRefreshToken, At, TypeInv, CallOK, Idle
<1>2. PICK s \in Sessions, n \in Generations : calls[t].sent.refresh = <<s, n>>
  BY <1>1 DEF Tokens
<1>3. Asks(t, s, n)
  BY <1>1, <1>2 DEF Asks, At
<1>4. n = gen[s] /\ s \in rows /\ lapsed[s] <= gen[s]
  BY <1>2 DEF Rotates, Rotatable, IsCurrent, Live
<1>5. n + 1 \in Generations
  BY <1>1, <1>2, SessionsAssumption DEF Generations
<1>6. /\ gen' = [gen EXCEPT ![s] = n + 1]
      /\ history' = history \cup {[token |-> <<s, n>>, client |-> HolderOf[t], recent |-> TRUE]}
      /\ calls' = [calls EXCEPT ![t].at = "issue"]
      /\ UNCHANGED <<rows, used, revoked, lapsed, jar, touched>>
  BY <1>2, <1>4 DEF Rotates, rotateRefreshToken, Goto, userVars
<1>7. /\ calls'[t].op = "refresh" /\ calls'[t].at = "issue" /\ calls'[t].sent = calls[t].sent
      /\ \A u \in Tabs : u # t => calls'[u] = calls[u]
  BY <1>1, <1>6 DEF TypeInv, Call
<1>8. gen'[s] = n + 1 /\ \A x \in Sessions : x # s => gen'[x] = gen[x]
  BY <1>6 DEF TypeInv
<1> QED BY <1>2, <1>3, <1>4, <1>5, <1>6, <1>7, <1>8

LEMMA OnlyRotates ==
    ASSUME TypeInv, [Next]_vars
    PROVE  gen' = gen \/ \E t \in Tabs : Rotates(t)
<1>2. ASSUME NEW t \in Tabs, Serve(t)
      PROVE  gen' = gen \/ Rotates(t)
  BY <1>2, Requests DEF Rotates, rotateRefreshToken
<1>3. ASSUME NEW t \in Tabs, Lose(t) \/ Sends(t) PROVE gen' = gen
  BY <1>3, SendSteps DEF Lose, rowVars
<1>4. ASSUME NEW t \in Tabs, NEW x \in Sessions, SendLogin(t, x) PROVE gen' = gen
  BY <1>4 DEF SendLogin
<1>5. CASE Quiet
  BY <1>5, QuietSteps
<1> QED BY <1>2, <1>3, <1>4, <1>5, Steps

LEMMA GenGrows ==
    ASSUME TypeInv, [Next]_vars, NEW s \in Sessions
    PROVE  /\ gen[s] <= gen'[s]
           /\ gen'[s] # gen[s] => lapsed[s] <= gen[s]
<1>1. gen[s] \in Int
  BY DEF TypeInv, Generations
<1>2. ASSUME NEW t \in Tabs, Rotates(t)
      PROVE  gen'[s] = gen[s] \/ (gen'[s] = gen[s] + 1 /\ lapsed[s] <= gen[s])
  BY <1>2, RotateStep
<1> QED BY <1>1, <1>2, OnlyRotates

LEMMA OverStays ==
    ASSUME TypeInv, TypeInv', IdsInv, IdsInv', [Next]_vars, NEW s \in Sessions, Over(s)
    PROVE  Over(s)'
<1>1. /\ lapsed[s] \in Int /\ lapsed'[s] \in Int /\ gen[s] \in Int /\ gen'[s] \in Int
  BY DEF TypeInv, Generations
<1>2. lapsed'[s] >= lapsed[s] /\ touched \subseteq touched'
      /\ (Known(s) => Known(s)') /\ (Known(s) /\ s \notin rows => s \notin rows')
  BY KnownStays
<1> QED BY <1>1, <1>2, GenGrows DEF Over

LEMMA IssueAfterRotation ==
    ASSUME TypeInv, NEW t \in Tabs, Serve(t), At(t, "refresh", "issue")'
    PROVE  Rotates(t)
<1> USE DEF At, Goto, Reply, SetCookies, ClearCookies, KeepCookies
<1>0. DOMAIN calls = Tabs /\ (calls[t] = Idle \/ calls[t] \in Call) /\ Idle.op = "none"
  BY DEF TypeInv, CallOK, Idle
<1>1. CASE rotateRefreshToken(t)
  BY <1>0, <1>1 DEF rotateRefreshToken, Rotates, Call
<1>2. CASE createBrowserSession(t) \/ ClassifyReuse(t) \/ IssueTokens(t) \/ RefreshFails(t)
  BY <1>0, <1>2 DEF createBrowserSession, ClassifyReuse, IssueTokens, RefreshFails
<1>3. CASE LogoutByID(t) \/ LogoutByHash(t)
  BY <1>0, <1>3 DEF LogoutByID, LogoutByHash, Call
<1>4. CASE AuthSessionRevoke(t) \/ AuthRevokeAllSessions(t) \/ Receive(t)
  BY <1>0, <1>4 DEF AuthSessionRevoke, AuthRevokeAllSessions, Receive, Call
<1>5. CASE LogoutGuard(t) \/ RevokeGuard(t)
  BY <1>0, <1>5, Guards
<1> QED BY <1>1, <1>2, <1>3, <1>4, <1>5 DEF Serve

LEMMA CookieStep ==
    ASSUME TypeInv, TypeInv', IdsInv, IdsInv', CookieInv, [Next]_vars
    PROVE  CookieInv'
<1> DEFINE Sound(c) == /\ \A s \in SessionsIn(c) : Known(s)'
                       /\ \A s \in Sessions : \A n \in Generations :
                             c.refresh = <<s, n>> => n <= gen'[s]
           Issued(u) == \A s \in Sessions : \A n \in Generations :
                             calls'[u].sent.refresh = <<s, n>> => n < gen'[s]
           Kept(u) == /\ Sound(calls'[u].sent)
                      /\ calls'[u].op = "login" => SessionsIn(calls'[u].sent) = {}
                      /\ At(u, "refresh", "issue")' => Issued(u)
<1>1. \A s \in Sessions : Known(s) => Known(s)'
  BY KnownStays
<1>2. \A s \in Sessions : \A n \in Generations :
          /\ n <= gen[s] => n <= gen'[s]
          /\ n < gen[s] => n < gen'[s] /\ n + 1 <= gen'[s]
  <2> SUFFICES ASSUME NEW s \in Sessions, NEW n \in Generations
               PROVE  /\ n <= gen[s] => n <= gen'[s]
                      /\ n < gen[s] => n < gen'[s] /\ n + 1 <= gen'[s]
    OBVIOUS
  <2>1. gen[s] <= gen'[s]
    BY GenGrows
  <2>2. gen[s] \in Int /\ gen'[s] \in Int /\ n \in Int
    BY DEF TypeInv, Generations
  <2> QED BY <2>1, <2>2
<1>3. ASSUME NEW h \in Holders PROVE Sound(jar[h])
  <2>1. \A s \in SessionsIn(jar[h]) : Known(s)'
    BY <1>1 DEF CookieInv, SessionsIn
  <2>2. \A s \in Sessions : \A n \in Generations : jar[h].refresh = <<s, n>> => n <= gen[s]
    BY DEF CookieInv
  <2> QED BY <1>2, <2>1, <2>2
<1>4. ASSUME NEW u \in Tabs, calls[u] # Idle PROVE Sound(calls[u].sent)
  <2>1. \A s \in SessionsIn(calls[u].sent) : Known(s)'
    BY <1>1, <1>4 DEF CookieInv, SessionsIn
  <2>2. \A s \in Sessions : \A n \in Generations :
            calls[u].sent.refresh = <<s, n>> => n <= gen[s]
    BY <1>4 DEF CookieInv
  <2> QED BY <1>2, <2>1, <2>2
<1>5. ASSUME NEW u \in Tabs, calls'[u] = calls[u], calls[u] # Idle PROVE Kept(u)
  <2>1. ASSUME At(u, "refresh", "issue")', NEW s \in Sessions, NEW n \in Generations,
               calls'[u].sent.refresh = <<s, n>>
        PROVE  n < gen'[s]
    <3>1. At(u, "refresh", "issue")
      BY <1>5, <2>1 DEF At
    <3>2. n < gen[s]
      BY <1>5, <2>1, <3>1 DEF CookieInv
    <3> QED BY <1>2, <3>2
  <2>2. calls'[u].op = "login" => SessionsIn(calls'[u].sent) = {}
    BY <1>5 DEF CookieInv
  <2>3. Sound(calls'[u].sent)
    BY <1>4, <1>5
  <2> HIDE DEF Sound
  <2> QED BY <2>1, <2>2, <2>3
<1>6. Sound(EmptyJar)
  BY EmptyHasNone
<1>7. SUFFICES /\ \A h \in Holders : Sound(jar'[h])
               /\ \A u \in Tabs : calls'[u] # Idle => Kept(u)
  BY <1>7 DEF CookieInv, SessionsIn
<1> HIDE DEF Sound
<1>8. ASSUME NEW t \in Tabs, Serve(t)
      PROVE  /\ \A h \in Holders : Sound(jar'[h])
             /\ \A u \in Tabs : calls'[u] # Idle => Kept(u)
  <2>1. ASSUME NEW h \in Holders PROVE Sound(jar'[h])
    <3>1. CASE jar'[h] = jar[h]
      BY <1>3, <3>1
    <3>2. CASE At(t, "reply", "clear") /\ jar'[h] = EmptyJar
      BY <1>6, <3>2
    <3>3. CASE At(t, "reply", "set") /\ jar'[h] = calls[t].sent
      <4>1. calls[t] # Idle
        BY <1>8, Requests
      <4>2. Sound(calls[t].sent)
        BY <1>4, <4>1
      <4> QED BY <3>3, <4>2
    <3> QED BY <1>8, <3>1, <3>2, <3>3, ServeCarries
  <2>2. At(t, "refresh", "issue")' => Issued(t)
    <3> SUFFICES ASSUME At(t, "refresh", "issue")' PROVE Issued(t)
      OBVIOUS
    <3>1. Rotates(t)
      BY <1>8, IssueAfterRotation
    <3>2. PICK s \in Sessions, n \in Generations :
              calls'[t].sent.refresh = <<s, n>> /\ gen'[s] = n + 1
      BY <3>1, RotateStep
    <3>3. \A x \in Sessions : \A m \in Generations :
              calls'[t].sent.refresh = <<x, m>> => x = s /\ m = n
      BY <3>2
    <3>4. n < gen'[s]
      BY <3>2 DEF Generations
    <3> QED BY <3>3, <3>4
  <2>3. ASSUME calls'[t] # Idle PROVE Kept(t)
    <3>0. calls'[t].op # "login" /\ calls[t] # Idle
      BY <1>8, Requests
    <3>1. CASE calls'[t].sent = EmptyJar
      BY <1>6, <2>2, <3>0, <3>1
    <3>2. CASE calls'[t].sent = calls[t].sent
      BY <1>4, <2>2, <3>0, <3>2
    <3>3. CASE /\ createBrowserSession(t) /\ At(t, "login", "insert") /\ calls[t].sid \in Sessions
               /\ calls'[t].sent = [access |-> calls[t].sid, refresh |-> <<calls[t].sid, 0>>]
      <4>0. PICK s \in Sessions : s = calls[t].sid
        BY <3>3
      <4>1. Known(s)'
        <5>1. s \in used'
          BY <1>8, <3>3, <4>0, Requests DEF IdsInv
        <5>2. ASSUME NEW u \in Tabs, At(u, "login", "insert")', calls'[u].sid = s
              PROVE  FALSE
          <6>1. u # t
            BY <3>0, <5>2 DEF At
          <6>2. calls'[u] = calls[u]
            BY <1>8, <6>1, Requests
          <6>3. At(u, "login", "insert") /\ calls[u].sid = calls[t].sid
            BY <4>0, <5>2, <6>2 DEF At
          <6> QED BY <3>3, <6>1, <6>3 DEF IdsInv
        <5> QED BY <5>1, <5>2 DEF Known, Inserting
      <4>2. 0 \in Generations /\ 0 <= gen'[s]
        BY SessionsAssumption DEF Generations, TypeInv
      <4>3. SessionsIn(calls'[t].sent) = {s} /\ calls'[t].sent.refresh = <<s, 0>>
        BY <3>3, <4>0, <4>2, CookiesOf
      <4>4. ASSUME NEW x \in Sessions, NEW n \in Generations, calls'[t].sent.refresh = <<x, n>>
            PROVE  n <= gen'[x]
        <5>1. x = s /\ n = 0
          BY <4>3, <4>4
        <5> QED BY <4>2, <5>1
      <4>5. \A x \in SessionsIn(calls'[t].sent) : Known(x)'
        BY <4>1, <4>3
      <4>6. Sound(calls'[t].sent)
        BY <4>4, <4>5 DEF Sound
      <4> QED BY <2>2, <3>0, <4>6
    <3>4. ASSUME NEW s \in Sessions, NEW n \in Generations, At(t, "refresh", "issue"),
                 calls[t].sent.refresh = <<s, n>>, n + 1 \in Generations,
                 calls'[t].sent = [access |-> s, refresh |-> <<s, n + 1>>]
          PROVE  Kept(t)
      <4>1. n < gen[s] /\ s \in SessionsIn(calls[t].sent)
        BY <3>0, <3>4 DEF CookieInv, SessionsIn
      <4>2. Known(s)'
        BY <1>1, <3>0, <4>1 DEF CookieInv
      <4>3. n + 1 <= gen'[s]
        BY <1>2, <4>1
      <4>4. SessionsIn(calls'[t].sent) = {s} /\ calls'[t].sent.refresh = <<s, n + 1>>
        BY <3>4, CookiesOf
      <4>5. Sound(calls'[t].sent)
        BY <4>2, <4>3, <4>4 DEF Sound
      <4> QED BY <2>2, <3>0, <4>5
    <3> QED BY <1>8, <2>3, <3>1, <3>2, <3>3, <3>4, ServeCarries
  <2>4. ASSUME NEW u \in Tabs, calls'[u] # Idle PROVE Kept(u)
    BY <1>5, <1>8, <2>3, <2>4, Requests
  <2> QED BY <2>1, <2>4
<1>9. ASSUME NEW t \in Tabs, Sends(t)
      PROVE  /\ \A h \in Holders : Sound(jar'[h])
             /\ \A u \in Tabs : calls'[u] # Idle => Kept(u)
  <2>1. HolderOf[t] \in Holders
    BY SessionsAssumption
  <2>2. Kept(t)
    BY <1>3, <1>9, <2>1, SendSteps DEF At
  <2> QED BY <1>3, <1>5, <1>9, <2>2, SendSteps
<1>10. ASSUME NEW t \in Tabs, NEW x \in Sessions, SendLogin(t, x)
       PROVE  /\ \A h \in Holders : Sound(jar'[h])
              /\ \A u \in Tabs : calls'[u] # Idle => Kept(u)
  <2>1. /\ jar' = jar /\ calls'[t].sent = EmptyJar /\ calls'[t].op = "login"
        /\ \A u \in Tabs : u # t => calls'[u] = calls[u]
    BY <1>10 DEF SendLogin, Send, TypeInv
  <2>2. Kept(t)
    BY <1>6, <2>1, EmptyHasNone DEF At
  <2> QED BY <1>3, <1>5, <2>1, <2>2
<1>11. CASE CalmQuiet
  <2>1. calls' = calls
    BY <1>11, QuietCalm
  <2>2. ASSUME NEW h \in Holders PROVE Sound(jar'[h])
    <3>1. SessionsIn(jar'[h]) \subseteq SessionsIn(jar[h]) /\ jar'[h].refresh = jar[h].refresh
      BY <1>11, QuietUses, QuietCalm
    <3> QED BY <1>3, <3>1 DEF Sound
  <2> QED BY <1>5, <2>1, <2>2
<1>12. ASSUME NEW h \in Holders, NEW k \in Holders, CopyProfile(h, k)
       PROVE  /\ \A x \in Holders : Sound(jar'[x])
              /\ \A u \in Tabs : calls'[u] # Idle => Kept(u)
  <2>1. calls' = calls /\ jar' = [jar EXCEPT ![k] = jar[h]]
    BY <1>12 DEF CopyProfile
  <2>2. \A x \in Holders : jar'[x] \in {jar[x], jar[h]}
    BY <2>1 DEF TypeInv
  <2> QED BY <1>3, <1>5, <2>1, <2>2
<1>13. ASSUME NEW t \in Tabs, Lose(t)
       PROVE  /\ \A x \in Holders : Sound(jar'[x])
              /\ \A u \in Tabs : calls'[u] # Idle => Kept(u)
  <2>1. jar' = jar /\ calls'[t] = Idle /\ \A u \in Tabs : u # t => calls'[u] = calls[u]
    BY <1>13 DEF Lose, TypeInv
  <2> QED BY <1>3, <1>5, <2>1
<1>14. Quiet => CalmQuiet \/ \E h \in Holders : \E k \in Holders : CopyProfile(h, k)
  BY DEF Quiet, CalmQuiet
<1> QED BY <1>8, <1>9, <1>10, <1>11, <1>12, <1>13, <1>14, Steps

-----------------------------------------------------------------------------
(* The end of a session                                                    *)

(* A session that has outlived its tokens is not refreshed any more.       *)
Dead(s) == Finished(s) \/ lapsed[s] > gen[s]

(* What excuses an end that was reported but is none.                      *)
Excused(e) == Overtaken(e) \/ ("error" \in env /\ e.by \in {"logout", "revokeAll"})

(* A logout with an access token has ended the session of it, or is going  *)
(* to, unless statements fail.                                             *)
LogoutInv ==
    "error" \notin env =>
        \A t \in Tabs : calls[t].op = "logout" /\ calls[t].sent.access # None =>
            /\ calls[t].at = "byId" => calls[t].sid = calls[t].sent.access
            /\ calls[t].at = "byHash" => Dead(calls[t].sent.access)

EndedInv == LogoutInv /\ \A e \in ended : Dead(e.sid) \/ Excused(e)

LEMMA DeadOrLive ==
    ASSUME TypeInv, NEW s \in Sessions, Known(s), ~Live(s)
    PROVE  Dead(s)
BY DEF Dead, Finished, Live, TypeInv, Generations

LEMMA DeadStays ==
    ASSUME TypeInv, TypeInv', IdsInv, IdsInv', [Next]_vars, NEW s \in Sessions, Dead(s)
    PROVE  Dead(s)'
<1>1. /\ lapsed[s] \in Int /\ lapsed'[s] \in Int /\ gen[s] \in Int /\ gen'[s] \in Int
  BY DEF TypeInv, Generations
<1>2. lapsed'[s] >= lapsed[s] /\ (Finished(s) => Finished(s)')
  BY KnownStays
<1> QED BY <1>1, <1>2, GenGrows DEF Dead

LEMMA ExcusedStays ==
    ASSUME TypeInv, TypeInv', [Next]_vars, NEW e \in Ends, Excused(e)
    PROVE  Excused(e)'
<1>1. env' = env
  BY CalmStays
<1>2. e.sid \in Sessions /\ gen[e.sid] \in Int /\ gen'[e.sid] \in Int /\ gen[e.sid] <= gen'[e.sid]
  BY GenGrows DEF Ends, TypeInv, Generations
<1>3. Overtaken(e) => Overtaken(e)'
  BY <1>2 DEF Overtaken, Generations
<1> QED BY <1>1, <1>3 DEF Excused

(* What a request reports as an end is one, or excused.                    *)
LEMMA EndedServe ==
    ASSUME TypeInv, TypeInv', IdsInv, IdsInv', CookieInv, EndedInv, [Next]_vars,
           NEW t \in Tabs, Serve(t), NEW e \in ended', e \notin ended
    PROVE  Dead(e.sid)' \/ Excused(e)'
<1>0. e \in Ends /\ env' = env
  BY CalmStays DEF TypeInv
<1>1. CASE LogoutByHash(t)
  <2> DEFINE c == calls[t].sent
             s == e.sid
  <2>1. calls[t] \in Call /\ calls[t].op = "logout" /\ calls[t].at = "byHash" /\ calls[t] # Idle
    BY <1>1 DEF LogoutByHash, At, TypeInv, CallOK, Idle
  <2>2. s \in SessionsIn(c) /\ e.by = "logout" /\ e.sent = c
    BY <1>1 DEF LogoutByHash, Reported
  <2>3. s \in Sessions /\ s # None /\ Known(s)
    BY <2>1, <2>2, SessionsAssumption DEF SessionsIn, CookieInv
  <2>4. CASE "error" \in env
    BY <1>0, <2>2, <2>4 DEF Excused
  <2>5. CASE "error" \notin env /\ c.access = s
    <3>1. Dead(s)
      BY <2>1, <2>3, <2>5 DEF EndedInv, LogoutInv
    <3> QED BY <2>3, <3>1, DeadStays
  <2>6. CASE "error" \notin env /\ c.access # s
    <3>1. PICK n \in Generations : c.refresh = <<s, n>>
      BY <2>2, <2>6 DEF SessionsIn
    <3>2. n <= gen[s] /\ n \in Int /\ gen[s] \in Int /\ gen'[s] \in Int /\ gen[s] <= gen'[s]
      BY <2>1, <2>3, <3>1, GenGrows DEF CookieInv, TypeInv, Generations
    <3>3. CASE IsCurrent(c.refresh)
      <4>1. c.refresh # None
        BY <2>3, <3>1, SessionsAssumption DEF Generations
      <4>2. s \in revoked'
        BY <1>1, <2>6, <3>1, <3>3, <4>1 DEF LogoutByHash
      <4> QED BY <4>2 DEF Dead, Finished
    <3>4. CASE s \notin rows
      <4>1. Dead(s)
        BY <2>3, <3>4 DEF Dead, Finished
      <4> QED BY <2>3, <4>1, DeadStays
    <3>5. CASE ~IsCurrent(c.refresh) /\ s \in rows
      <4>1. gen[s] # n
        BY <3>1, <3>5 DEF IsCurrent
      <4>2. n < gen'[s]
        BY <3>2, <4>1
      <4> QED BY <2>2, <2>6, <3>1, <4>2 DEF Excused, Overtaken
    <3> QED BY <3>3, <3>4, <3>5
  <2> QED BY <2>4, <2>5, <2>6
<1>2. CASE AuthSessionRevoke(t)
  BY <1>2 DEF AuthSessionRevoke, Reported, Dead, Finished
<1>3. CASE AuthRevokeAllSessions(t)
  <2>1. e.sid \in rows /\ e.by = "revokeAll"
    BY <1>3 DEF AuthRevokeAllSessions, Reported
  <2>2. CASE "error" \in env
    BY <1>0, <2>1, <2>2 DEF Excused
  <2>3. CASE "error" \notin env
    BY <1>3, <2>1, <2>3 DEF AuthRevokeAllSessions, Dead, Finished
  <2> QED BY <2>2, <2>3
<1>4. CASE ClassifyReuse(t)
  BY <1>4 DEF ClassifyReuse, Reported, Dead, Finished
<1>5. CASE \/ createBrowserSession(t) \/ rotateRefreshToken(t) \/ IssueTokens(t)
           \/ RefreshFails(t) \/ LogoutGuard(t) \/ LogoutByID(t) \/ RevokeGuard(t) \/ Receive(t)
  BY <1>5 DEF createBrowserSession, rotateRefreshToken, IssueTokens, RefreshFails, LogoutGuard,
              LogoutByID, RevokeGuard, Receive, userVars
<1> QED BY <1>1, <1>2, <1>3, <1>4, <1>5 DEF Serve

(* A logout looks at the access token, and ends the session of it, before  *)
(* it looks at the refresh token.                                          *)
LEMMA LogoutServe ==
    ASSUME TypeInv, TypeInv', IdsInv, IdsInv', CookieInv, LogoutInv, [Next]_vars,
           "error" \notin env, NEW t \in Tabs, Serve(t),
           calls'[t].op = "logout", calls'[t].sent.access # None
    PROVE  /\ calls'[t].at = "byId" => calls'[t].sid = calls'[t].sent.access
           /\ calls'[t].at = "byHash" => Dead(calls[t].sent.access)'
<1> USE DEF At, Goto, Reply, SetCookies, ClearCookies, KeepCookies
<1>0. DOMAIN calls = Tabs /\ (calls[t] = Idle \/ calls[t] \in Call) /\ Idle.op = "none"
  BY DEF TypeInv, CallOK, Idle
<1>1. CASE LogoutGuard(t) \/ LogoutByID(t)
  <2>0. /\ calls[t] \in Call /\ calls[t].op = "logout" /\ calls[t] # Idle
    BY <1>0, <1>1, Guards DEF LogoutByID
  <2>1. /\ calls[t] \in Call /\ calls[t].op = "logout" /\ calls[t] # Idle
        /\ calls'[t].sent = calls[t].sent
    BY <1>0, <1>1, <2>0, Guards DEF LogoutByID, Call
  <2>2. PICK s \in Sessions : s = calls[t].sent.access
    BY <2>1 DEF Call, Jars
  <2>3. Known(s) /\ s # None
    BY <2>1, <2>2 DEF CookieInv, SessionsIn
  <2>4. CASE LogoutGuard(t)
    <3>2. PICK x \in currentRequestUser(t) :
              calls'[t].sid = x /\ calls'[t].at = (IF x = None THEN "byHash" ELSE "byId")
      BY <2>4, Guards
    <3>3. CASE x # None
      BY <2>1, <3>2, <3>3, RequestUser
    <3>4. CASE x = None
      <4>1. ~Live(s)
        BY <2>2, <2>3, <3>4, RequestUser
      <4>2. Dead(s)'
        BY <2>3, <4>1, DeadOrLive, DeadStays
      <4> QED BY <2>1, <2>2, <3>2, <3>4, <4>2
    <3> QED BY <3>3, <3>4
  <2>5. CASE LogoutByID(t)
    <3>1. calls[t].sid = s
      BY <2>1, <2>2, <2>3, <2>5 DEF LogoutByID, LogoutInv
    <3>2. revoked' = revoked \cup Revocable(s)
      BY <2>5, <3>1 DEF LogoutByID
    <3>3. CASE s \in rows
      <4>1. Dead(s)'
        BY <3>2, <3>3 DEF Revocable, Dead, Finished
      <4> QED BY <1>0, <2>1, <2>2, <2>5, <4>1 DEF LogoutByID, Call
    <3>4. CASE s \notin rows
      <4>1. Dead(s)
        BY <2>3, <3>4 DEF Dead, Finished
      <4>2. Dead(s)'
        BY <4>1, DeadStays
      <4> QED BY <1>0, <2>1, <2>2, <2>5, <4>2 DEF LogoutByID, Call
    <3> QED BY <3>3, <3>4
  <2> QED BY <1>1, <2>4, <2>5
<1>2. CASE LogoutByHash(t) \/ Receive(t)
  BY <1>0, <1>2 DEF LogoutByHash, Receive
<1>3. CASE createBrowserSession(t) \/ ClassifyReuse(t) \/ IssueTokens(t) \/ RefreshFails(t)
  BY <1>0, <1>3 DEF createBrowserSession, ClassifyReuse, IssueTokens, RefreshFails
<1>6. CASE rotateRefreshToken(t)
  BY <1>0, <1>6 DEF rotateRefreshToken, Call
<1>4. CASE AuthSessionRevoke(t) \/ AuthRevokeAllSessions(t)
  BY <1>0, <1>4 DEF AuthSessionRevoke, AuthRevokeAllSessions, Call
<1>5. CASE RevokeGuard(t)
  BY <1>0, <1>5, Guards
<1> QED BY <1>1, <1>2, <1>3, <1>4, <1>5, <1>6 DEF Serve

LEMMA EndedInductive ==
    ASSUME TypeInv, TypeInv', IdsInv, IdsInv', CookieInv, EndedInv, [Next]_vars
    PROVE  EndedInv'
<1> DEFINE Looked(u) ==
        calls'[u].op = "logout" /\ calls'[u].sent.access # None =>
            /\ calls'[u].at = "byId" => calls'[u].sid = calls'[u].sent.access
            /\ calls'[u].at = "byHash" => Dead(calls[u].sent.access)'
           Ended(e) == Dead(e.sid)' \/ Excused(e)'
<1>1. ASSUME NEW e \in ended PROVE Ended(e)
  <2>1. e \in Ends /\ e.sid \in Sessions
    BY DEF TypeInv, Ends
  <2> QED BY <1>1, <2>1, DeadStays, ExcusedStays DEF EndedInv
<1>2. ASSUME "error" \notin env, NEW u \in Tabs, calls'[u] = calls[u] PROVE Looked(u)
  <2> SUFFICES ASSUME calls[u].op = "logout", calls[u].sent.access # None PROVE Looked(u)
    BY <1>2
  <2>1. calls[u] \in Call /\ calls[u].sent.access \in Sessions
    BY DEF TypeInv, CallOK, Idle, Call, Jars
  <2>2. calls[u].at = "byHash" => Dead(calls[u].sent.access)'
    <3>1. PICK s \in Sessions : s = calls[u].sent.access
      BY <2>1
    <3>2. calls[u].at = "byHash" => Dead(s)
      BY <1>2, <3>1 DEF EndedInv, LogoutInv
    <3>3. calls[u].at = "byHash" => Dead(s)'
      BY <3>2, DeadStays
    <3> QED BY <1>2, <3>1, <3>3 DEF Dead, Finished, Known, Inserting, At
  <2> QED BY <1>2, <2>2 DEF EndedInv, LogoutInv
<1>3. env' = env
  BY CalmStays
<1>4. SUFFICES /\ \A e \in ended' : e \notin ended => Ended(e)
               /\ "error" \notin env => \A u \in Tabs : calls'[u] # calls[u] => Looked(u)
  BY <1>1, <1>2, <1>3, <1>4 DEF EndedInv, LogoutInv
<1>5. ASSUME NEW t \in Tabs, Serve(t)
      PROVE  /\ \A e \in ended' : e \notin ended => Ended(e)
             /\ "error" \notin env => \A u \in Tabs : calls'[u] # calls[u] => Looked(u)
  <2>1. \A e \in ended' : e \notin ended => Ended(e)
    BY <1>5, EndedServe
  <2>2. ASSUME "error" \notin env PROVE Looked(t)
    BY <1>5, <2>2, LogoutServe DEF EndedInv
  <2>3. \A u \in Tabs : calls'[u] # calls[u] => u = t
    BY <1>5, Requests
  <2> HIDE DEF Looked, Ended
  <2> QED BY <2>1, <2>2, <2>3
<1>6. ASSUME NEW t \in Tabs, Lose(t)
      PROVE  ended' = ended /\ \A u \in Tabs : calls'[u] # calls[u] => calls'[u].op # "logout"
  BY <1>6 DEF Lose, Idle, TypeInv, userVars
<1>7. ASSUME NEW t \in Tabs, Sends(t)
      PROVE  ended' = ended /\ \A u \in Tabs : calls'[u] # calls[u] =>
                 calls'[u].at \in {"guard", "find"}
  BY <1>7, SendSteps
<1>8. ASSUME NEW t \in Tabs, NEW x \in Sessions, SendLogin(t, x)
      PROVE  ended' = ended /\ \A u \in Tabs : calls'[u] # calls[u] => calls'[u].op # "logout"
  BY <1>8 DEF SendLogin, Send, TypeInv, userVars
<1>9. CASE Quiet
  BY <1>9, QuietSteps
<1> QED BY <1>5, <1>6, <1>7, <1>8, <1>9, Steps

(* EndedStaysEnded: every end of a session that the API reports is one for *)
(* good, whatever refreshes, logins, cleanups and other ends are under     *)
(* way, except where a refresh overtakes a logout without an access token, *)
(* and where a statement of a logout or of DELETE /v1/auth/sessions fails. *)
THEOREM EndedStays == Spec => []EndedStaysEnded
<1> DEFINE Inv == IdsInv /\ CookieInv /\ EndedInv
<1>1. Init => Inv
  <2> SUFFICES ASSUME Init PROVE Inv
    OBVIOUS
  <2>1. IdsInv
    BY DEF Init, IdsInv, Known, Inserting, At, Idle
  <2>2. CookieInv
    BY EmptyHasNone DEF Init, CookieInv
  <2>3. EndedInv
    BY DEF Init, EndedInv, LogoutInv, Idle
  <2> QED BY <2>1, <2>2, <2>3
<1>2. TypeInv /\ TypeInv' /\ Inv /\ [Next]_vars => Inv'
  BY IdsInductive, CookieStep, EndedInductive
<1>3. TypeInv /\ Inv => EndedStaysEnded
  BY DEF TypeInv, Ends, Generations, EndedStaysEnded, EndedInv, Excused, Dead, Finished, Live
<1> QED BY <1>1, <1>2, <1>3, SessionTypes, PTL DEF Spec

-----------------------------------------------------------------------------
(* Calm, continued: the tokens                                             *)

(* While its browser waits for an answer, the grace period of a token goes *)
(* on.                                                                     *)
LEMMA RecentStays ==
    ASSUME TypeInv, TypeInv', IdsInv, IdsInv', Calm, [Next]_vars,
           NEW s \in Sessions, NEW n \in Generations, NEW h \in Holders,
           Recent(s, n, h), Busy(h), ~Over(s)'
    PROVE  Recent(s, n, h)'
<1> DEFINE r == [token |-> <<s, n>>, client |-> h, recent |-> TRUE]
<1>0. /\ r \in history /\ r.token = <<s, n>> /\ r.token[1] = s /\ r.token[2] = n
      /\ r.client = h /\ r.recent
  BY DEF Recent
<1>1. n >= lapsed[s] /\ n \in Int /\ lapsed[s] \in Int
  BY DEF Recent, TypeInv, Generations
<1> HIDE DEF r
<1> SUFFICES lapsed'[s] = lapsed[s] /\ r \in history'
  BY <1>1 DEF Recent, r
<1>2. ASSUME NEW t \in Tabs, Serve(t) PROVE lapsed' = lapsed /\ history \subseteq history'
  BY <1>2, Requests DEF rotateRefreshToken
<1>3. ASSUME NEW t \in Tabs, Sends(t) PROVE lapsed' = lapsed /\ history' = history
  BY <1>3, SendSteps DEF rowVars
<1>4. ASSUME NEW t \in Tabs, NEW x \in Sessions, SendLogin(t, x)
      PROVE  lapsed' = lapsed /\ history' = history
  BY <1>4 DEF SendLogin
<1>5. ASSUME NEW k \in Holders, AccessExpires(k) PROVE lapsed' = lapsed /\ history' = history
  BY <1>5 DEF AccessExpires, rowVars
<1>6. ASSUME NEW x \in history, GraceEnds(x) PROVE lapsed' = lapsed /\ r \in history'
  <2>1. x # r
    BY <1>0, <1>6 DEF GraceEnds, Calm
  <2> QED BY <1>0, <1>6, <2>1 DEF GraceEnds
<1>7. ASSUME NEW x \in Sessions, Lapse(x) PROVE lapsed'[s] = lapsed[s] /\ history' = history
  <2>1. x # s
    BY <1>0, <1>7 DEF Lapse, Calm
  <2> QED BY <1>7, <2>1 DEF Lapse, TypeInv
<1>8. CASE CleanupHistory
  <2>1. r \notin Obsolete
    BY <1>0, <1>1 DEF Obsolete
  <2> QED BY <1>0, <1>8, <2>1 DEF CleanupHistory
<1>9. ASSUME NEW old \in SUBSET rows, CleanupSessions(old) PROVE lapsed' = lapsed /\ r \in history'
  <2> DEFINE gone == old \cup {x \in rows : lapsed[x] > gen[x]}
  <2>1. /\ rows' = rows \ gone /\ history' = {x \in history : x.token[1] \notin gone}
        /\ lapsed' = lapsed /\ gone \subseteq rows
    BY <1>9 DEF CleanupSessions
  <2> HIDE DEF gone
  <2>2. CASE s \in gone
    <3>1. s \in rows /\ s \notin rows'
      BY <2>1, <2>2
    <3>2. Known(s)'
      BY <3>1, KnownStays DEF IdsInv
    <3> QED BY <3>1, <3>2 DEF Over
  <2>3. CASE s \notin gone
    BY <1>0, <2>1, <2>3
  <2> QED BY <2>2, <2>3
<1>10. CASE UNCHANGED vars
  BY <1>0, <1>10 DEF vars, rowVars
<1> QED BY <1>0, <1>2, <1>3, <1>4, <1>5, <1>6, <1>7, <1>8, <1>9, <1>10, CalmSteps DEF CalmQuiet

(* A token presented again is a sign of reuse only if the session is over. *)
LEMMA ReuseIsOver ==
    ASSUME TypeInv, Calm, EndingInv, TokenInv, NEW t \in Tabs, ClassifyReuse(t)
    PROVE  \E s \in Sessions : \E n \in Generations :
              /\ calls[t].sent.refresh = <<s, n>>
              /\ revoked' \subseteq revoked \cup {s}
              /\ Over(s) \/ (KeepCookies(t) /\ revoked' = revoked)
<1>1. calls[t].sent.refresh \in Tokens
  BY DEF ClassifyReuse, At, TypeInv, CallOK, Idle
<1>2. PICK s \in Sessions, n \in Generations : calls[t].sent.refresh = <<s, n>>
  BY <1>1 DEF Tokens
<1>3. revoked' \subseteq revoked \cup {s}
  BY <1>2 DEF ClassifyReuse
<1>4. CASE ~Over(s)
  <2> DEFINE r == [token |-> <<s, n>>, client |-> HolderOf[t], recent |-> TRUE]
  <2>1. Late(t, s, n)
    BY <1>2 DEF ClassifyReuse, Late
  <2>2. n >= lapsed[s] /\ r \in history
    BY <1>4, <2>1 DEF TokenInv, TokenAt, Recent
  <2>3. s \notin revoked
    BY <1>4 DEF EndingInv
  <2>4. /\ r.token = <<s, n>> /\ r.token[1] = s /\ r.token[2] = n
        /\ r.client = HolderOf[t] /\ r.recent
    OBVIOUS
  <2> HIDE DEF r
  <2>5. Tolerated(r, t)
    BY <2>2, <2>3, <2>4 DEF Tolerated
  <2>6. \E x \in {y \in history : y.token = calls[t].sent.refresh} : Tolerated(x, t)
    BY <1>2, <2>2, <2>4, <2>5
  <2>7. KeepCookies(t) /\ revoked' = revoked
    BY <2>6 DEF ClassifyReuse
  <2> QED BY <1>2, <1>3, <2>7
<1> QED BY <1>2, <1>3, <1>4

LEMMA ServeSid ==
    ASSUME TypeInv, Calm, NEW t \in Tabs, Serve(t), calls'[t] # Idle, calls'[t].op = calls[t].op
    PROVE  \/ calls'[t].sid = calls[t].sid
           \/ calls[t].op = "logout" /\ calls'[t].sid \in {None, calls[t].sent.access}
           \/ calls'[t].op \notin {"logout", "revoke"}
<1> USE DEF At, Goto, Reply, SetCookies, ClearCookies, KeepCookies
<1>0. DOMAIN calls = Tabs /\ (calls[t] = Idle \/ calls[t] \in Call) /\ Idle.op = "none"
  BY DEF TypeInv, CallOK, Idle
<1>1. CASE \/ createBrowserSession(t) \/ rotateRefreshToken(t) \/ ClassifyReuse(t)
           \/ IssueTokens(t) \/ RefreshFails(t) \/ Receive(t) \/ AuthRevokeAllSessions(t)
  BY <1>0, <1>1 DEF createBrowserSession, rotateRefreshToken, ClassifyReuse, IssueTokens,
                    RefreshFails, Receive, AuthRevokeAllSessions
<1>2. CASE LogoutGuard(t)
  BY <1>2, Guards, RequestUser
<1>3. CASE LogoutByID(t) \/ RevokeGuard(t)
  BY <1>0, <1>3 DEF LogoutByID, RevokeGuard, Call
<1>4. CASE LogoutByHash(t) \/ AuthSessionRevoke(t)
  BY <1>0, <1>4 DEF LogoutByHash, AuthSessionRevoke
<1> QED BY <1>1, <1>2, <1>3, <1>4 DEF Serve

LEMMA AskedStep ==
    ASSUME TypeInv, TypeInv', IdsInv, IdsInv', Calm, AskedInv, [Next]_vars
    PROVE  AskedInv'
<1> DEFINE Asked(u) ==
        /\ calls'[u].op = "logout" =>
              /\ SessionsIn(calls'[u].sent) \subseteq touched' /\ SessionsIn(calls'[u].sent) # {}
              /\ calls'[u].sid \in {None, calls'[u].sent.access}
        /\ calls'[u].op = "revoke" => calls'[u].sid \in touched'
        /\ calls'[u].op \in {"revoke", "revokeAll"} => calls'[u].sent.access # None
<1> SUFFICES \A u \in Tabs : Asked(u)
  BY DEF AskedInv, SessionsIn
<1>0. Idle.op = "none"
  BY DEF Idle
<1>1. ASSUME NEW u \in Tabs, calls'[u] = calls[u], touched \subseteq touched' PROVE Asked(u)
  BY <1>1 DEF AskedInv
<1>2. ASSUME NEW t \in Tabs, Serve(t), NEW u \in Tabs PROVE Asked(u)
  <2>1. touched \subseteq touched' /\ (u # t => calls'[u] = calls[u])
    BY <1>2, Requests
  <2>2. CASE u = t /\ calls'[t] # Idle /\ calls'[t].op # "reply"
    <3>1. calls'[t].op = calls[t].op /\ calls'[t].sent = calls[t].sent
      BY <1>2, <2>2, ServeCarries DEF At
    <3> QED BY <1>2, <2>1, <2>2, <3>1, ServeSid DEF AskedInv
  <2>3. CASE u = t /\ (calls'[t] = Idle \/ calls'[t].op = "reply")
    BY <1>0, <2>3
  <2> QED BY <1>1, <2>1, <2>2, <2>3
<1>3. ASSUME NEW t \in Tabs, Sends(t), NEW u \in Tabs PROVE Asked(u)
  <2>0. /\ jar[HolderOf[t]] \in Jars /\ DOMAIN calls = Tabs /\ touched \subseteq touched'
        /\ (u # t => calls'[u] = calls[u]) /\ HolderOf[t] \in Holders
    BY <1>3, SendSteps, SessionsAssumption DEF TypeInv
  <2>1. CASE SendRefresh(t)
    BY <1>1, <2>0, <2>1 DEF SendRefresh, Send
  <2>2. CASE SendLogout(t)
    <3>1. /\ calls'[t].op = "logout" /\ calls'[t].sent = jar[HolderOf[t]] /\ calls'[t].sid = None
          /\ touched' = touched \cup SessionsIn(jar[HolderOf[t]]) /\ jar[HolderOf[t]] # EmptyJar
      BY <2>0, <2>2 DEF SendLogout, Send
    <3>2. SessionsIn(jar[HolderOf[t]]) # {}
      <4>1. PICK c \in Jars : c = jar[HolderOf[t]]
        BY <2>0
      <4>2. c.access # None \/ c.refresh # None
        BY <3>1, <4>1 DEF Jars, EmptyJar
      <4>3. CASE c.access # None
        <5>1. c.access \in Sessions
          BY <4>3 DEF Jars
        <5> QED BY <4>1, <5>1 DEF SessionsIn
      <4>4. CASE c.refresh # None
        <5>1. PICK s \in Sessions, n \in Generations : c.refresh = <<s, n>>
          BY <4>4 DEF Jars, Tokens
        <5>2. s \in SessionsIn(c)
          BY <5>1 DEF SessionsIn
        <5> QED BY <4>1, <5>2
      <4> QED BY <4>2, <4>3, <4>4
    <3> QED BY <1>1, <2>0, <3>1, <3>2
  <2>3. ASSUME NEW s \in Sessions, SendRevoke(t, "revoke", {s}) PROVE Asked(u)
    <3>1. (CHOOSE x \in {s} : TRUE) = s
      OBVIOUS
    <3> QED BY <1>1, <2>0, <2>3, <3>1 DEF SendRevoke, Send
  <2>4. CASE SendRevoke(t, "revokeAll", used)
    BY <1>1, <2>0, <2>4 DEF SendRevoke, Send
  <2> QED BY <1>3, <2>1, <2>2, <2>3, <2>4 DEF Sends
<1>4. ASSUME NEW t \in Tabs, NEW x \in Sessions, SendLogin(t, x), NEW u \in Tabs PROVE Asked(u)
  <2>1. touched' = touched /\ calls'[t].op = "login" /\ (u # t => calls'[u] = calls[u])
    BY <1>4 DEF SendLogin, Send, TypeInv, userVars
  <2> QED BY <1>1, <2>1
<1>5. CASE CalmQuiet
  BY <1>1, <1>5, QuietCalm
<1> QED BY <1>2, <1>3, <1>4, <1>5, CalmSteps

LEMMA EndServe ==
    ASSUME TypeInv, TypeInv', IdsInv, IdsInv', Calm, CookieInv, EndingInv, TokenInv, [Next]_vars,
           NEW t \in Tabs, Serve(t)
    PROVE  /\ \A s \in revoked' : s \in revoked \/ Over(s)'
           /\ At(t, "reply", "clear")' => \E s \in SessionsIn(calls[t].sent) : Over(s)'
<1> USE DEF At, Goto, Reply, SetCookies, ClearCookies, KeepCookies
<1>0. /\ DOMAIN calls = Tabs /\ (calls[t] = Idle \/ calls[t] \in Call) /\ Idle.op = "none"
      /\ "error" \notin env
  BY DEF TypeInv, CallOK, Idle, Calm
<1>1. \A s \in Sessions : Over(s) => Over(s)'
  BY OverStays
<1>2. \A s \in Sessions : s \in touched => Over(s)
  BY DEF Over
<1>3. CASE createBrowserSession(t) \/ IssueTokens(t)
  BY <1>0, <1>3 DEF createBrowserSession, IssueTokens
<1>4. CASE rotateRefreshToken(t) \/ RefreshFails(t) \/ LogoutGuard(t) \/ RevokeGuard(t) \/ Receive(t)
  <2>1. revoked' = revoked
    BY <1>4 DEF rotateRefreshToken, RefreshFails, LogoutGuard, RevokeGuard, Receive, rowVars
  <2>2. calls'[t] = Idle \/ calls'[t].op = calls[t].op \/ calls'[t].at # "clear"
    <3>1. CASE rotateRefreshToken(t)
      BY <1>0, <3>1 DEF rotateRefreshToken, Call
    <3>2. CASE RefreshFails(t) \/ Receive(t)
      BY <1>0, <3>2 DEF RefreshFails, Receive
    <3>3. CASE LogoutGuard(t)
      BY <1>0, <3>3 DEF LogoutGuard, Call
    <3>4. CASE RevokeGuard(t)
      BY <1>0, <3>4 DEF RevokeGuard, Call
    <3> QED BY <1>4, <3>1, <3>2, <3>3, <3>4
  <2>3. calls[t].op = "reply" => calls'[t] = Idle
    BY <1>0, <1>4 DEF rotateRefreshToken, RefreshFails, LogoutGuard, RevokeGuard, Receive
  <2> QED BY <1>0, <2>1, <2>2, <2>3
<1>5. CASE ClassifyReuse(t)
  <2>1. PICK s \in Sessions, n \in Generations :
              /\ calls[t].sent.refresh = <<s, n>>
              /\ revoked' \subseteq revoked \cup {s}
              /\ Over(s) \/ (KeepCookies(t) /\ revoked' = revoked)
    BY <1>5, ReuseIsOver
  <2>2. s \in SessionsIn(calls[t].sent)
    BY <2>1 DEF SessionsIn
  <2>3. CASE Over(s)
    BY <1>1, <2>1, <2>2, <2>3
  <2>4. CASE KeepCookies(t) /\ revoked' = revoked
    BY <1>0, <2>4
  <2> QED BY <2>1, <2>3, <2>4
<1>6. CASE LogoutByID(t)
  <2>1. calls[t].op = "logout" /\ calls[t].at = "byId" /\ calls[t] \in Call
    BY <1>0, <1>6 DEF LogoutByID
  <2>2. calls[t].sid \in Sessions /\ calls[t].sid # None
    BY <2>1, SessionsAssumption DEF TypeInv, CallOK, Idle
  <2>3. calls[t].sid \in touched
    BY <2>1, <2>2 DEF EndingInv, AskedInv, SessionsIn
  <2>4. revoked' \subseteq revoked \cup {calls[t].sid}
    BY <1>6 DEF LogoutByID, Revocable
  <2>5. calls'[t].op = "logout"
    BY <1>0, <1>6, <2>1 DEF LogoutByID, Call
  <2> QED BY <1>1, <1>2, <2>2, <2>3, <2>4, <2>5
<1>7. CASE LogoutByHash(t)
  <2>1. calls[t].op = "logout" /\ calls[t] \in Call
    BY <1>0, <1>7 DEF LogoutByHash
  <2>2. SessionsIn(calls[t].sent) \subseteq touched /\ SessionsIn(calls[t].sent) # {}
    BY <2>1 DEF EndingInv, AskedInv
  <2>3. \A s \in SessionsIn(calls[t].sent) : Over(s)'
    BY <1>1, <1>2, <2>2 DEF SessionsIn
  <2>4. ASSUME NEW s \in revoked', s \notin revoked PROVE s \in SessionsIn(calls[t].sent)
    <3>1. calls[t].sent.refresh # None /\ s = calls[t].sent.refresh[1]
      BY <1>7, <2>4 DEF LogoutByHash
    <3>2. PICK x \in Sessions, n \in Generations : calls[t].sent.refresh = <<x, n>>
      BY <2>1, <3>1 DEF Call, Jars, Tokens
    <3> QED BY <3>1, <3>2 DEF SessionsIn
  <2> QED BY <2>2, <2>3, <2>4
<1>8. CASE AuthSessionRevoke(t)
  <2>1. calls[t].op = "revoke" /\ calls[t].sid \in Sessions
    BY <1>8 DEF AuthSessionRevoke, TypeInv, CallOK, Idle
  <2>2. calls[t].sid \in touched
    BY <2>1 DEF EndingInv, AskedInv
  <2>3. revoked' \subseteq revoked \cup {calls[t].sid}
    BY <1>8 DEF AuthSessionRevoke
  <2>4. At(t, "reply", "clear")' => calls[t].sid = calls[t].sent.access
    BY <1>0, <1>8 DEF AuthSessionRevoke
  <2>5. \A x \in Sessions : x = calls[t].sid => Over(x)'
    BY <1>1, <1>2, <2>2
  <2>6. calls[t].sid = calls[t].sent.access => calls[t].sid \in SessionsIn(calls[t].sent)
    BY <2>1 DEF SessionsIn
  <2> QED BY <2>1, <2>3, <2>4, <2>5, <2>6 DEF TypeInv
<1>9. CASE AuthRevokeAllSessions(t)
  <2>1. calls[t].op = "revokeAll" /\ calls[t] \in Call
    BY <1>0, <1>9 DEF AuthRevokeAllSessions
  <2>2. PICK s \in Sessions : s = calls[t].sent.access
    BY <2>1 DEF EndingInv, AskedInv, Call, Jars
  <2>3. s \in SessionsIn(calls[t].sent)
    BY <2>2 DEF SessionsIn
  <2>4. revoked' = revoked \cup rows /\ touched' = touched \cup rows
    BY <1>0, <1>9 DEF AuthRevokeAllSessions
  <2>5. \A x \in rows : Over(x)'
    BY <2>4 DEF Over
  <2>6. Over(s)'
    <3>1. CASE s \in rows
      BY <2>5, <3>1
    <3>2. CASE s \notin rows
      <4>1. calls[t] # Idle
        BY <1>0, <2>1
      <4>2. Known(s)
        BY <2>3, <4>1 DEF CookieInv
      <4>3. Over(s)
        BY <3>2, <4>2 DEF Over
      <4> QED BY <1>1, <4>3
    <3> QED BY <3>1, <3>2
  <2> QED BY <2>3, <2>4, <2>5, <2>6
<1> QED BY <1>3, <1>4, <1>5, <1>6, <1>7, <1>8, <1>9 DEF Serve

LEMMA EndingStep ==
    ASSUME TypeInv, TypeInv', IdsInv, IdsInv', Calm, OwnInv, CookieInv, EndingInv, TokenInv,
           [Next]_vars
    PROVE  EndingInv'
<1>1. \A s \in Sessions : Over(s) => Over(s)'
  BY OverStays
<1>2. AskedInv'
  BY AskedStep DEF EndingInv
<1> DEFINE Spared(u) == \A s \in Sessions : Uses(HolderOf[u], s)' => Over(s)'
<1>3. ASSUME NEW u \in Tabs, At(u, "reply", "clear"),
             \A s \in Sessions : Uses(HolderOf[u], s)' => Uses(HolderOf[u], s)
      PROVE  Spared(u)
  BY <1>1, <1>3 DEF EndingInv
<1>4. ASSUME \A s \in revoked' : s \in revoked \/ Over(s)' PROVE \A s \in revoked' : Over(s)'
  BY <1>1, <1>4 DEF EndingInv, TypeInv
<1> SUFFICES /\ \A s \in revoked' : s \in revoked \/ Over(s)'
             /\ \A u \in Tabs : At(u, "reply", "clear")' => Spared(u)
  BY <1>2, <1>4 DEF EndingInv
<1> USE SessionsAssumption
<1>5. ASSUME NEW t \in Tabs, Serve(t)
      PROVE  /\ \A s \in revoked' : s \in revoked \/ Over(s)'
             /\ \A u \in Tabs : At(u, "reply", "clear")' => Spared(u)
  <2>1. ASSUME NEW u \in Tabs, u # t, At(u, "reply", "clear")' PROVE Spared(u)
    <3>1. At(u, "reply", "clear")
      BY <1>5, <2>1, Requests DEF At
    <3> QED BY <1>3, <1>5, <3>1, ServeUses
  <2>2. ASSUME At(t, "reply", "clear")' PROVE Spared(t)
    <3>1. PICK x \in SessionsIn(calls[t].sent) : Over(x)'
      BY <1>5, <2>2, EndServe
    <3>2. x \in Sessions /\ calls[t] # Idle
      BY <1>5, Requests DEF SessionsIn
    <3>3. Uses(HolderOf[t], x)
      BY <3>1, <3>2 DEF Uses, Carries
    <3>4. ASSUME NEW s \in Sessions, Uses(HolderOf[t], s)' PROVE Over(s)'
      <4>1. Uses(HolderOf[t], s)
        BY <1>5, <3>4, ServeUses
      <4>2. s = x
        BY <3>2, <3>3, <4>1 DEF OwnInv
      <4> QED BY <3>1, <4>2
    <3> QED BY <3>4
  <2> HIDE DEF Spared
  <2> QED BY <1>5, <2>1, <2>2, EndServe
<1>6. ASSUME NEW t \in Tabs, Sends(t)
      PROVE  /\ \A s \in revoked' : s \in revoked \/ Over(s)'
             /\ \A u \in Tabs : At(u, "reply", "clear")' => Spared(u)
  <2>1. ASSUME NEW u \in Tabs, At(u, "reply", "clear")' PROVE At(u, "reply", "clear")
    BY <1>6, <2>1, SendSteps DEF At
  <2> QED BY <1>3, <1>6, <2>1, SendUses, SendSteps DEF rowVars
<1>7. ASSUME NEW t \in Tabs, NEW x \in Sessions, SendLogin(t, x)
      PROVE  /\ \A s \in revoked' : s \in revoked \/ Over(s)'
             /\ \A u \in Tabs : At(u, "reply", "clear")' => Spared(u)
  <2>1. /\ revoked' = revoked /\ calls'[t].op = "login" /\ ~Busy(HolderOf[t])
        /\ \A u \in Tabs : u # t => calls'[u] = calls[u]
    BY <1>7 DEF SendLogin, Send, TypeInv
  <2>2. ASSUME NEW u \in Tabs, At(u, "reply", "clear")' PROVE Spared(u)
    <3>1. At(u, "reply", "clear") /\ calls[u] # Idle
      BY <2>1, <2>2 DEF At, Idle
    <3>2. HolderOf[u] # HolderOf[t]
      BY <2>1, <3>1 DEF Busy
    <3>3. \A s \in Sessions : Uses(HolderOf[u], s)' => Uses(HolderOf[u], s)
      BY <1>7, <3>2, LoginUses
    <3> QED BY <1>3, <3>1, <3>3
  <2> QED BY <2>1, <2>2
<1>8. CASE CalmQuiet
  <2>1. calls' = calls /\ revoked' = revoked
    BY <1>8, QuietCalm
  <2>2. ASSUME NEW u \in Tabs, At(u, "reply", "clear")' PROVE At(u, "reply", "clear")
    BY <2>1, <2>2 DEF At
  <2> QED BY <1>3, <1>8, <2>1, <2>2, QuietUses
<1> QED BY <1>5, <1>6, <1>7, <1>8, CalmSteps

LEMMA BusyTabs ==
    ASSUME NEW t \in Tabs, NEW s, NEW n, Asks(t, s, n) \/ Late(t, s, n) \/ Brings(t, s, n)
    PROVE  Busy(HolderOf[t])
BY DEF Asks, Late, Brings, At, Busy, Idle

(* Steps that do not touch the tokens of a session, other than that a      *)
(* browser presents the one it has, or is told that it is spent.           *)
LEMMA TokensKept ==
    ASSUME TypeInv, TypeInv', IdsInv, IdsInv', Calm, [Next]_vars,
           NEW s \in Sessions, ~Over(s)', TokenAt(s), gen'[s] = gen[s], Known(s)' => Known(s),
           \A h \in Holders : \A n \in Generations : Has(h, s, n)' => Has(h, s, n),
           \A h \in Holders : Has(h, s, gen[s]) => Has(h, s, gen[s])',
           \A t \in Tabs : \A n \in Generations : Brings(t, s, n)' <=> Brings(t, s, n),
           \A t \in Tabs : \A n \in Generations :
              Asks(t, s, n)' => Asks(t, s, n) \/ Has(HolderOf[t], s, n),
           \A t \in Tabs : \A n \in Generations :
              Late(t, s, n)' => Late(t, s, n) \/ (Asks(t, s, n) /\ n # gen[s])
    PROVE  TokenAt(s)'
<1>0. gen[s] \in Generations /\ \A t \in Tabs : HolderOf[t] \in Holders
  BY SessionsAssumption DEF TypeInv
<1>1. \A h \in Holders : \A n \in Generations : Recent(s, n, h) /\ Busy(h) => Recent(s, n, h)'
  BY RecentStays
<1>2. ASSUME NEW h \in Holders, NEW n \in Generations, Has(h, s, n)'
      PROVE  \/ n = gen[s]
             \/ /\ Recent(s, n, h)'
                /\ \E t \in Tabs : HolderOf[t] = h /\ Brings(t, s, gen[s])'
  <2>1. Has(h, s, n)
    BY <1>2
  <2>2. CASE n # gen[s]
    <3>1. PICK t \in Tabs : HolderOf[t] = h /\ Brings(t, s, gen[s]) /\ Recent(s, n, h)
      BY <2>1, <2>2 DEF TokenAt
    <3>2. Busy(h)
      BY <3>1, BusyTabs
    <3> QED BY <1>0, <1>1, <3>1, <3>2
  <2> QED BY <2>2
<1>3. ASSUME NEW t \in Tabs, NEW n \in Generations, Asks(t, s, n)'
      PROVE  n = gen[s] \/ Recent(s, n, HolderOf[t])'
  <2>1. CASE Asks(t, s, n)
    BY <1>0, <1>1, <2>1, BusyTabs DEF TokenAt
  <2>2. CASE Has(HolderOf[t], s, n) /\ n # gen[s]
    <3>1. PICK u \in Tabs : HolderOf[u] = HolderOf[t] /\ Brings(u, s, gen[s])
                            /\ Recent(s, n, HolderOf[t])
      BY <1>0, <2>2 DEF TokenAt
    <3>2. Busy(HolderOf[t])
      BY <3>1, BusyTabs
    <3> QED BY <1>0, <1>1, <3>1, <3>2
  <2> QED BY <1>3, <2>1, <2>2
<1>4. ASSUME NEW t \in Tabs, NEW n \in Generations, Late(t, s, n)'
      PROVE  Recent(s, n, HolderOf[t])'
  <2>1. Recent(s, n, HolderOf[t]) /\ Busy(HolderOf[t])
    BY <1>4, BusyTabs DEF TokenAt
  <2> QED BY <1>0, <1>1, <2>1
<1>5. ASSUME NEW t \in Tabs, NEW n \in Generations, Brings(t, s, n)' PROVE n = gen[s]
  BY <1>5 DEF TokenAt
<1>6. ASSUME NEW t \in Tabs, Brings(t, s, gen[s])
      PROVE  /\ \A h \in Holders : ~Has(h, s, gen[s])'
             /\ \A u \in Tabs : ~Asks(u, s, gen[s])' /\ (Brings(u, s, gen[s])' => u = t)
  BY <1>0, <1>6 DEF TokenAt
<1>7. Known(s)' => \/ \E h \in Holders : Has(h, s, gen[s])'
                   \/ \E t \in Tabs : Brings(t, s, gen[s])'
  BY <1>0 DEF TokenAt
<1> QED BY <1>0, <1>2, <1>3, <1>4, <1>5, <1>6, <1>7 DEF TokenAt

LEMMA TokenQuiet ==
    ASSUME TypeInv, TypeInv', IdsInv, IdsInv', Calm, [Next]_vars,
           NEW s \in Sessions, ~Over(s)', TokenAt(s), CalmQuiet
    PROVE  TokenAt(s)'
<1>1. gen' = gen /\ calls' = calls /\ used' = used
  BY QuietCalm
<1>2. \A h \in Holders : jar'[h].refresh = jar[h].refresh
  BY QuietCalm
<1>3. Known(s)' => Known(s)
  BY <1>1 DEF Known, Inserting, At
<1>4. \A t \in Tabs : \A n \in Generations : /\ Asks(t, s, n)' <=> Asks(t, s, n)
                                             /\ Late(t, s, n)' <=> Late(t, s, n)
                                             /\ Brings(t, s, n)' <=> Brings(t, s, n)
  BY <1>1 DEF Asks, Late, Brings, At
<1>5. \A h \in Holders : \A n \in Generations : Has(h, s, n)' <=> Has(h, s, n)
  BY <1>2 DEF Has
<1>6. gen[s] \in Generations
  BY DEF TypeInv
<1>7. \A h \in Holders : Has(h, s, gen[s]) => Has(h, s, gen[s])'
  BY <1>1, <1>2 DEF Has
<1> QED BY <1>1, <1>3, <1>4, <1>5, <1>7, TokensKept

LEMMA TokenSends ==
    ASSUME TypeInv, TypeInv', IdsInv, IdsInv', Calm, [Next]_vars,
           NEW s \in Sessions, ~Over(s)', TokenAt(s), NEW t \in Tabs, Sends(t)
    PROVE  TokenAt(s)'
<1>1. /\ gen' = gen /\ jar' = jar /\ used' = used
      /\ calls[t] = Idle /\ calls'[t].op # "login" /\ calls'[t].op # "reply"
      /\ calls'[t].at \in {"guard", "find"} /\ calls'[t].sent = jar[HolderOf[t]]
      /\ \A u \in Tabs : u # t => calls'[u] = calls[u]
  BY SendSteps DEF rowVars
<1>2. Idle.op = "none"
  BY DEF Idle
<1>3. Known(s)' => Known(s)
  BY <1>1, <1>2 DEF Known, Inserting, At
<1>4. ASSUME NEW u \in Tabs, NEW n \in Generations
      PROVE  /\ Asks(u, s, n)' => Asks(u, s, n) \/ Has(HolderOf[u], s, n)
             /\ Late(u, s, n)' => Late(u, s, n)
             /\ Brings(u, s, n)' <=> Brings(u, s, n)
  <2>1. CASE u # t
    <3>1. calls'[u] = calls[u]
      BY <1>1, <2>1
    <3> QED BY <3>1 DEF Asks, Late, Brings, At
  <2>2. CASE u = t
    BY <1>1, <1>2, <2>2 DEF Asks, Late, Brings, At, Has
  <2> QED BY <2>1, <2>2
<1>5. \A h \in Holders : \A n \in Generations : Has(h, s, n)' <=> Has(h, s, n)
  BY <1>1 DEF Has
<1>6. \A h \in Holders : Has(h, s, gen[s]) => Has(h, s, gen[s])'
  BY <1>1 DEF Has
<1> QED BY <1>1, <1>3, <1>4, <1>5, <1>6, TokensKept

LEMMA TokenLogin ==
    ASSUME TypeInv, TypeInv', IdsInv, IdsInv', Calm, [Next]_vars,
           NEW s \in Sessions, ~Over(s)', TokenAt(s),
           NEW t \in Tabs, NEW x \in Sessions, SendLogin(t, x)
    PROVE  TokenAt(s)'
<1>1. /\ gen' = gen /\ jar' = jar /\ used' = used \cup {x}
      /\ calls[t] = Idle /\ calls'[t].op = "login" /\ calls'[t].at = "insert" /\ calls'[t].sid = x
      /\ \A u \in Tabs : u # t => calls'[u] = calls[u]
  BY DEF SendLogin, Send, TypeInv
<1>2. Idle.op = "none"
  BY DEF Idle
<1>3. Known(s)' => Known(s)
  BY <1>1, <1>2 DEF Known, Inserting, At
<1>4. ASSUME NEW u \in Tabs, NEW n \in Generations
      PROVE  /\ Asks(u, s, n)' <=> Asks(u, s, n)
             /\ Late(u, s, n)' <=> Late(u, s, n)
             /\ Brings(u, s, n)' <=> Brings(u, s, n)
  <2>1. CASE u # t
    <3>1. calls'[u] = calls[u]
      BY <1>1, <2>1
    <3> QED BY <3>1 DEF Asks, Late, Brings, At
  <2>2. CASE u = t
    BY <1>1, <1>2, <2>2 DEF Asks, Late, Brings, At
  <2> QED BY <2>1, <2>2
<1>5. \A h \in Holders : \A n \in Generations : Has(h, s, n)' <=> Has(h, s, n)
  BY <1>1 DEF Has
<1>6. \A h \in Holders : Has(h, s, gen[s]) => Has(h, s, gen[s])'
  BY <1>1 DEF Has
<1> QED BY <1>1, <1>3, <1>4, <1>5, <1>6, TokensKept

(* Requests that neither create a session, nor rotate or deliver a token.  *)
Ordinary(t) ==
    Serve(t) /\ ~createBrowserSession(t) /\ ~Rotates(t) /\ ~(Receive(t) /\ At(t, "reply", "set"))

LEMMA OrdinaryTokens ==
    ASSUME TypeInv, Calm, CookieInv, EndingInv, NEW t \in Tabs, Ordinary(t),
           NEW s \in Sessions, NEW n \in Generations, ~Over(s)
    PROVE  /\ ~Asks(t, s, n)'
           /\ Late(t, s, n)' => Asks(t, s, n) /\ n # gen[s]
           /\ Brings(t, s, n)' <=> Brings(t, s, n)
<1> USE DEF At, Goto, Reply, SetCookies, ClearCookies, KeepCookies, Asks, Late, Brings
<1>0. /\ DOMAIN calls = Tabs /\ (calls[t] = Idle \/ calls[t] \in Call) /\ Idle.op = "none"
      /\ "error" \notin env
  BY DEF TypeInv, CallOK, Idle, Calm
<1>1. CASE rotateRefreshToken(t)
  <2>1. ~Rotatable(calls[t].sent.refresh)
    BY <1>1 DEF Ordinary, Rotates
  <2>2. calls[t].op = "refresh" /\ calls[t].at = "find" /\ calls[t] \in Call
    BY <1>0, <1>1 DEF rotateRefreshToken
  <2>3. /\ calls'[t].op = "refresh" /\ calls'[t].at = "history" /\ calls'[t].sent = calls[t].sent
    BY <1>0, <1>1, <2>1, <2>2 DEF rotateRefreshToken, Call
  <2>4. ASSUME calls[t].sent.refresh = <<s, n>> PROVE n # gen[s]
    <3>1. s \in SessionsIn(calls[t].sent) /\ calls[t] # Idle
      BY <1>0, <2>2, <2>4 DEF SessionsIn
    <3>2. s \in rows /\ ~(lapsed[s] > gen[s])
      BY <3>1 DEF CookieInv, Over
    <3>3. s \notin revoked
      BY DEF EndingInv
    <3>4. lapsed[s] \in Int /\ gen[s] \in Int
      BY DEF TypeInv, Generations
    <3>5. Live(s)
      BY <3>2, <3>3, <3>4 DEF Live
    <3> QED BY <2>1, <2>4, <3>2, <3>5 DEF Rotatable, IsCurrent
  <2> QED BY <2>2, <2>3, <2>4
<1>2. CASE IssueTokens(t)
  <2>1. calls[t].sent.refresh \in Tokens
    BY <1>0, <1>2 DEF IssueTokens, TypeInv, CallOK, Idle
  <2>2. PICK x \in Sessions, m \in Generations : calls[t].sent.refresh = <<x, m>>
    BY <2>1 DEF Tokens
  <2>3. /\ calls[t].op = "refresh" /\ calls[t].at = "issue"
        /\ calls'[t].op = "reply" /\ calls'[t].at = "set"
        /\ calls'[t].sent = [access |-> x, refresh |-> <<x, m + 1>>]
    BY <1>0, <1>2, <2>2 DEF IssueTokens
  <2>4. calls'[t].sent.refresh = <<s, n>> <=> s = x /\ n = m + 1
    BY <2>3
  <2>5. calls[t].sent.refresh = <<s, n - 1>> <=> s = x /\ n - 1 = m
    BY <2>2
  <2>6. n = m + 1 <=> n - 1 = m
    BY DEF Generations
  <2> QED BY <2>3, <2>4, <2>5, <2>6
<1>3. CASE ClassifyReuse(t) \/ RefreshFails(t)
  BY <1>0, <1>3 DEF ClassifyReuse, RefreshFails
<1>4. CASE LogoutGuard(t)
  <2>1. calls[t].op = "logout" /\ calls[t] \in Call
    BY <1>0, <1>4 DEF LogoutGuard
  <2>2. calls'[t].op = "logout"
    BY <1>0, <1>4, <2>1 DEF LogoutGuard, Call
  <2> QED BY <2>1, <2>2
<1>5. CASE LogoutByID(t)
  <2>1. calls[t].op = "logout" /\ calls[t] \in Call
    BY <1>0, <1>5 DEF LogoutByID
  <2>2. calls'[t].op = "logout"
    BY <1>0, <1>5, <2>1 DEF LogoutByID, Call
  <2> QED BY <2>1, <2>2
<1>6. CASE LogoutByHash(t) \/ AuthSessionRevoke(t) \/ AuthRevokeAllSessions(t)
  BY <1>0, <1>6 DEF LogoutByHash, AuthSessionRevoke, AuthRevokeAllSessions
<1>7. CASE RevokeGuard(t)
  <2>1. calls[t].op \in {"revoke", "revokeAll"} /\ calls[t] \in Call
    BY <1>0, <1>7 DEF RevokeGuard
  <2>2. calls'[t].op = calls[t].op \/ (calls'[t].op = "reply" /\ calls'[t].at = "keep")
    BY <1>0, <1>7, <2>1 DEF RevokeGuard, Call
  <2> QED BY <2>1, <2>2
<1>8. CASE Receive(t)
  BY <1>0, <1>8 DEF Receive, Ordinary
<1> QED BY <1>1, <1>2, <1>3, <1>4, <1>5, <1>6, <1>7, <1>8 DEF Ordinary, Serve

(* Only the INSERT makes an id known.                                      *)
LEMMA KnownBack ==
    ASSUME TypeInv, NEW t \in Tabs, Serve(t), ~createBrowserSession(t), NEW s \in Sessions, Known(s)'
    PROVE  Known(s)
<1>1. used' = used /\ \A u \in Tabs : u # t => calls'[u] = calls[u]
  BY Requests
<1>2. calls[t].op # "login"
  <2>1. calls[t].op = "login" => calls[t].at = "insert"
    BY DEF TypeInv, CallOK, Idle
  <2> QED BY <2>1 DEF Serve, rotateRefreshToken, ClassifyReuse, IssueTokens, RefreshFails,
          LogoutGuard, LogoutByID, LogoutByHash, RevokeGuard, AuthSessionRevoke,
          AuthRevokeAllSessions, Receive, At
<1> QED BY <1>1, <1>2 DEF Known, Inserting, At

LEMMA TokenServe ==
    ASSUME TypeInv, TypeInv', IdsInv, IdsInv', Calm, CookieInv, EndingInv, [Next]_vars,
           NEW s \in Sessions, ~Over(s)', TokenAt(s), NEW t \in Tabs, Ordinary(t)
    PROVE  TokenAt(s)'
<1>1. ~Over(s)
  BY OverStays
<1>2. gen' = gen
  BY Requests DEF Ordinary, Rotates, rotateRefreshToken
<1>3. Known(s)' => Known(s)
  BY KnownBack DEF Ordinary
<1>4. ASSUME NEW u \in Tabs, NEW n \in Generations
      PROVE  /\ Asks(u, s, n)' => Asks(u, s, n)
             /\ Late(u, s, n)' => Late(u, s, n) \/ (Asks(u, s, n) /\ n # gen[s])
             /\ Brings(u, s, n)' <=> Brings(u, s, n)
  <2>1. CASE u # t
    <3>1. calls'[u] = calls[u]
      BY <2>1, Requests DEF Ordinary
    <3> QED BY <3>1 DEF Asks, Late, Brings, At
  <2>2. CASE u = t
    BY <1>1, <2>2, OrdinaryTokens
  <2> QED BY <2>1, <2>2
<1>5. ASSUME NEW h \in Holders
      PROVE  \/ jar'[h] = jar[h]
             \/ jar'[h] = EmptyJar /\ ~Uses(h, s)
  <2>1. CASE At(t, "reply", "clear") /\ jar'[h] = EmptyJar /\ h = HolderOf[t]
    BY <1>1, <2>1 DEF EndingInv
  <2>2. CASE At(t, "reply", "set") /\ jar'[h] # jar[h]
    BY <2>2, Requests DEF Ordinary
  <2> QED BY <2>1, <2>2, ServeCarries DEF Ordinary
<1>6. \A h \in Holders : \A n \in Generations : Has(h, s, n)' => Has(h, s, n)
  BY <1>5, EmptyHasNone DEF Has
<1>7. ASSUME NEW h \in Holders, Has(h, s, gen[s]) PROVE Has(h, s, gen[s])'
  <2>1. gen[s] \in Generations
    BY DEF TypeInv
  <2>2. Uses(h, s)
    BY <1>7, <2>1 DEF Uses, SessionsIn, Has
  <2>3. jar'[h] = jar[h]
    BY <1>5, <2>2
  <2> QED BY <1>2, <1>7, <2>3 DEF Has
<1> QED BY <1>2, <1>3, <1>4, <1>6, <1>7, TokensKept

(* A tab that has a session under way uses it.                             *)
LEMMA TokenUsed ==
    ASSUME NEW s \in Sessions, NEW n \in Generations
    PROVE  /\ \A h \in Holders : Has(h, s, n) => Uses(h, s)
           /\ \A t \in Tabs : calls[t] # Idle /\ calls[t].sent.refresh = <<s, n>> =>
                  s \in SessionsIn(calls[t].sent) /\ Uses(HolderOf[t], s)
<1>1. \A h \in Holders : Has(h, s, n) => Uses(h, s)
  BY DEF Has, Uses, SessionsIn
<1>2. ASSUME NEW t \in Tabs, calls[t] # Idle, calls[t].sent.refresh = <<s, n>>
      PROVE  s \in SessionsIn(calls[t].sent) /\ Uses(HolderOf[t], s)
  <2>1. s \in SessionsIn(calls[t].sent)
    BY <1>2 DEF SessionsIn
  <2> QED BY <1>2, <2>1 DEF Uses, Carries
<1> QED BY <1>1, <1>2

(* A new row, whose first token is on its way.                             *)
LEMMA TokenCreated ==
    ASSUME TypeInv, TypeInv', IdsInv, IdsInv', Calm, CookieInv, [Next]_vars,
           NEW s \in Sessions, ~Over(s)', TokenAt(s),
           NEW t \in Tabs, Serve(t), createBrowserSession(t)
    PROVE  TokenAt(s)'
<1>0. /\ DOMAIN calls = Tabs /\ "error" \notin env /\ Idle.op = "none"
      /\ calls[t].op = "login" /\ calls[t].at = "insert" /\ calls[t].sid \in Sessions
  BY DEF TypeInv, Calm, createBrowserSession, At, CallOK, Idle
<1>1. PICK x \in Sessions : x = calls[t].sid
  BY <1>0
<1>2. /\ UNCHANGED <<used, gen, history, lapsed, jar>>
      /\ calls'[t].op = "reply" /\ calls'[t].at = "set" /\ calls'[t].sent.refresh = <<x, 0>>
      /\ \A u \in Tabs : u # t => calls'[u] = calls[u]
  BY <1>0, <1>1 DEF createBrowserSession, SetCookies, Reply
<1>3. ASSUME NEW u \in Tabs, NEW n \in Generations
      PROVE  /\ Asks(u, s, n)' => Asks(u, s, n)
             /\ Late(u, s, n)' => Late(u, s, n)
             /\ Brings(u, s, n)' <=> Brings(u, s, n) \/ (u = t /\ s = x /\ n = 0)
  <2>1. CASE u # t
    <3>1. calls'[u] = calls[u]
      BY <1>2, <2>1
    <3> QED BY <2>1, <3>1 DEF Asks, Late, Brings, At
  <2>2. CASE u = t
    BY <1>0, <1>2, <2>2 DEF Asks, Late, Brings, At
  <2> QED BY <2>1, <2>2
<1>4. \A h \in Holders : \A n \in Generations : Has(h, s, n)' <=> Has(h, s, n)
  BY <1>2 DEF Has
<1>5. CASE s # x
  <2>1. Known(s)' => Known(s)
    <3>1. \A u \in Tabs : At(u, "login", "insert") /\ calls[u].sid = s => u # t
      BY <1>1, <1>5
    <3> QED BY <1>2, <3>1 DEF Known, Inserting, At
  <2>2. \A h \in Holders : Has(h, s, gen[s]) => Has(h, s, gen[s])'
    BY <1>2 DEF Has
  <2> QED BY <1>2, <1>3, <1>4, <1>5, <2>1, <2>2, TokensKept
<1>6. CASE s = x
  <2>1. ~Known(s)
    BY <1>0, <1>1, <1>6 DEF Known, Inserting, At
  <2>2. gen[s] = 0 /\ gen'[s] = 0 /\ 0 \in Generations
    BY <1>2, <2>1, SessionsAssumption DEF IdsInv, Generations
  <2>3. \A h \in Holders : \A n \in Generations : ~Has(h, s, n)
    BY <2>1 DEF CookieInv, Has, SessionsIn
  <2>4. ASSUME NEW u \in Tabs, NEW n \in Generations
        PROVE  ~Asks(u, s, n) /\ ~Late(u, s, n)
    <3>1. Asks(u, s, n) \/ Late(u, s, n) => calls[u] # Idle /\ calls[u].sent.refresh = <<s, n>>
      BY <1>0 DEF Asks, Late, At
    <3> QED BY <2>1, <3>1, TokenUsed DEF CookieInv
  <2>5. ASSUME NEW u \in Tabs, NEW n \in Generations, Brings(u, s, n) PROVE FALSE
    <3>1. calls[u] # Idle
      BY <1>0, <2>5 DEF Brings, At
    <3>2. calls[u].sent.refresh \in Tokens
      BY <2>5 DEF Brings, At, TypeInv, CallOK, Idle
    <3>3. PICK y \in Sessions, m \in Generations : calls[u].sent.refresh = <<y, m>>
      BY <3>2 DEF Tokens
    <3>4. y = s
      BY <2>5, <3>3 DEF Brings
    <3> QED BY <2>1, <3>1, <3>3, <3>4, TokenUsed DEF CookieInv
  <2>6. Brings(t, s, 0)'
    BY <1>3, <1>6, <2>2
  <2>7. \A u \in Tabs : \A n \in Generations :
            ~Asks(u, s, n)' /\ ~Late(u, s, n)' /\ (Brings(u, s, n)' => u = t /\ n = 0)
    BY <1>3, <2>4, <2>5
  <2>8. \A h \in Holders : \A n \in Generations : ~Has(h, s, n)'
    BY <1>4, <2>3
  <2> QED BY <2>2, <2>6, <2>7, <2>8 DEF TokenAt
<1> QED BY <1>5, <1>6

(* The rotation: the token that was current is spent, and the new one is   *)
(* on its way to the browser that had it.                                  *)
LEMMA TokenRotated ==
    ASSUME TypeInv, TypeInv', IdsInv, IdsInv', Calm, OwnInv, CookieInv, [Next]_vars,
           NEW s \in Sessions, ~Over(s)', TokenAt(s), NEW t \in Tabs, Serve(t), Rotates(t)
    PROVE  TokenAt(s)'
<1>1. PICK x \in Sessions, n \in Generations :
              /\ calls[t].sent.refresh = <<x, n>> /\ Asks(t, x, n)
              /\ n = gen[x] /\ n + 1 \in Generations /\ x \in rows /\ lapsed[x] <= gen[x]
              /\ gen'[x] = n + 1 /\ \A y \in Sessions : y # x => gen'[y] = gen[y]
              /\ history' = history \cup {[token |-> <<x, n>>, client |-> HolderOf[t], recent |-> TRUE]}
              /\ calls'[t].op = "refresh" /\ calls'[t].at = "issue"
              /\ calls'[t].sent = calls[t].sent
              /\ \A u \in Tabs : u # t => calls'[u] = calls[u]
              /\ UNCHANGED <<rows, used, revoked, lapsed, jar, touched>>
  BY RotateStep
<1>2. calls[t].op = "refresh" /\ calls[t].at = "find"
  BY <1>1 DEF Asks, At
<1>3. ASSUME NEW u \in Tabs, NEW m \in Generations
      PROVE  /\ Asks(u, s, m)' => Asks(u, s, m) /\ u # t
             /\ Late(u, s, m)' => Late(u, s, m)
             /\ Brings(u, s, m)' <=> Brings(u, s, m) \/ (u = t /\ s = x /\ m = n + 1)
  <2>1. CASE u # t
    <3>1. calls'[u] = calls[u]
      BY <1>1, <2>1
    <3> QED BY <2>1, <3>1 DEF Asks, Late, Brings, At
  <2>2. CASE u = t
    <3>1. n = m - 1 <=> m = n + 1
      BY DEF Generations
    <3>2. calls[t].sent.refresh = <<s, m - 1>> <=> s = x /\ m = n + 1
      BY <1>1, <3>1
    <3> QED BY <1>1, <1>2, <2>2, <3>2 DEF Asks, Late, Brings, At
  <2> QED BY <2>1, <2>2
<1>4. \A h \in Holders : \A m \in Generations : Has(h, s, m)' <=> Has(h, s, m)
  BY <1>1 DEF Has
<1>5. CASE s # x
  <2>1. Known(s)' => Known(s)
    BY <1>1, <1>2 DEF Known, Inserting, At
  <2>2. gen'[s] = gen[s]
    BY <1>1, <1>5
  <2>3. \A h \in Holders : Has(h, s, gen[s]) => Has(h, s, gen[s])'
    BY <1>1, <2>2 DEF Has
  <2> QED BY <1>3, <1>4, <1>5, <2>1, <2>2, <2>3, TokensKept
<1>6. CASE s = x
  <2> DEFINE b == HolderOf[t]
  <2>0. b \in Holders /\ \A u \in Tabs : HolderOf[u] \in Holders
    BY SessionsAssumption
  <2>1. Asks(t, s, n) /\ n = gen[s] /\ gen'[s] = n + 1 /\ n + 1 # n
    BY <1>1, <1>6 DEF Generations
  <2>2. Uses(b, s)
    <3>1. calls[t] # Idle
      BY <1>2 DEF Idle
    <3> QED BY <1>1, <1>6, <3>1, TokenUsed
  <2>3. \A u \in Tabs : \A m \in Generations : ~Brings(u, s, m)
    BY <2>1 DEF TokenAt
  <2>4. \A m \in Generations : \A h \in Holders : Recent(s, m, h) => Recent(s, m, h)'
    BY <1>1 DEF Recent
  <2>5. Recent(s, n, b)'
    <3>1. n >= lapsed'[s]
      BY <1>1, <1>6 DEF TypeInv, Generations
    <3> QED BY <1>1, <1>6, <3>1 DEF Recent
  <2>6. Brings(t, s, n + 1)'
    BY <1>1, <1>3, <1>6
  <2> HIDE DEF b
  <2>7. ASSUME NEW h \in Holders, NEW m \in Generations, Has(h, s, m)'
        PROVE  m = n /\ h = b
    <3>1. Has(h, s, m)
      BY <1>4, <2>7
    <3>2. m = n
      BY <1>1, <1>6, <2>1, <2>3, <3>1 DEF TokenAt
    <3>3. Uses(h, s)
      BY <3>1, TokenUsed
    <3> QED BY <2>0, <2>2, <3>2, <3>3 DEF OwnInv
  <2>8. ASSUME NEW u \in Tabs, NEW m \in Generations, Asks(u, s, m)'
        PROVE  Recent(s, m, HolderOf[u])' /\ m # n + 1
    <3>1. Asks(u, s, m)
      BY <1>3, <2>8
    <3>2. calls[u] # Idle /\ calls[u].sent.refresh = <<s, m>>
      BY <3>1 DEF Asks, At, Idle
    <3>3. HolderOf[u] = b
      BY <2>0, <2>2, <3>2, TokenUsed DEF OwnInv
    <3>4. m <= n
      BY <2>1, <3>2 DEF CookieInv
    <3>5. CASE m = n
      BY <2>1, <2>5, <3>3, <3>5
    <3>6. CASE m # n
      <4>1. Recent(s, m, HolderOf[u])
        BY <2>1, <3>1, <3>6 DEF TokenAt
      <4>2. m # n + 1
        BY <3>4 DEF Generations
      <4> QED BY <2>0, <2>4, <4>1, <4>2
    <3> QED BY <3>5, <3>6
  <2>9. ASSUME NEW u \in Tabs, NEW m \in Generations
        PROVE  /\ Late(u, s, m)' => Recent(s, m, HolderOf[u])'
               /\ Brings(u, s, m)' => u = t /\ m = n + 1
    <3>1. Late(u, s, m) => Recent(s, m, HolderOf[u])
      BY DEF TokenAt
    <3> QED BY <1>3, <2>0, <2>3, <2>4, <3>1
  <2>10. b = HolderOf[t]
    BY DEF b
  <2> QED BY <1>1, <2>0, <2>1, <2>5, <2>6, <2>7, <2>8, <2>9, <2>10 DEF TokenAt
<1> QED BY <1>5, <1>6

(* The response arrives: the browser has the current token.                *)
LEMMA TokenReceived ==
    ASSUME TypeInv, TypeInv', IdsInv, IdsInv', Calm, OwnInv, CookieInv, [Next]_vars,
           NEW s \in Sessions, ~Over(s)', TokenAt(s),
           NEW t \in Tabs, Serve(t), Receive(t), At(t, "reply", "set")
    PROVE  TokenAt(s)'
<1> DEFINE b == HolderOf[t]
<1>0. b \in Holders /\ \A u \in Tabs : HolderOf[u] \in Holders
  BY SessionsAssumption
<1>1. /\ calls[t].op = "reply" /\ calls[t].at = "set" /\ calls[t] # Idle
      /\ calls[t].sent.refresh \in Tokens
  BY DEF At, TypeInv, CallOK, Idle
<1>2. PICK x \in Sessions, n \in Generations : calls[t].sent.refresh = <<x, n>>
  BY <1>1 DEF Tokens
<1>3. /\ UNCHANGED <<gen, used, rows, lapsed, history>> /\ calls'[t] = Idle
      /\ jar'[b] = calls[t].sent /\ \A h \in Holders : h # b => jar'[h] = jar[h]
      /\ \A u \in Tabs : u # t => calls'[u] = calls[u]
  BY <1>0, <1>1 DEF Receive, rowVars, TypeInv
<1>4. Idle.op = "none"
  BY DEF Idle
<1> HIDE DEF b
<1>5. Uses(b, x)
  BY <1>1, <1>2, TokenUsed DEF b
<1>6. ASSUME NEW u \in Tabs, NEW m \in Generations
      PROVE  /\ Asks(u, s, m)' => Asks(u, s, m)
             /\ Late(u, s, m)' => Late(u, s, m)
             /\ Brings(u, s, m)' <=> Brings(u, s, m) /\ u # t
  <2>1. CASE u # t
    <3>1. calls'[u] = calls[u]
      BY <1>3, <2>1
    <3> QED BY <2>1, <3>1 DEF Asks, Late, Brings, At
  <2>2. CASE u = t
    BY <1>3, <1>4, <2>2 DEF Asks, Late, Brings, At
  <2> QED BY <2>1, <2>2
<1>7. \A h \in Holders : \A m \in Generations :
          Has(h, s, m)' <=> IF h = b THEN s = x /\ m = n ELSE Has(h, s, m)
  BY <1>2, <1>3 DEF Has
<1>8. Known(s)' => Known(s)
  BY <1>1, <1>3, <1>4 DEF Known, Inserting, At
<1>9. gen[s] \in Generations /\ gen'[s] = gen[s]
  BY <1>3 DEF TypeInv
<1>10. CASE s # x
  <2>1. ASSUME NEW m \in Generations PROVE ~Brings(t, s, m) /\ ~Has(b, s, m)
    <3>1. ~Brings(t, s, m)
      BY <1>1, <1>2, <1>10 DEF Brings, At
    <3>2. ~Uses(b, s)
      BY <1>0, <1>5, <1>10 DEF OwnInv
    <3> QED BY <1>0, <3>1, <3>2, TokenUsed
  <2>2. \A u \in Tabs : \A m \in Generations : Brings(u, s, m)' <=> Brings(u, s, m)
    BY <1>6, <2>1
  <2>3. \A h \in Holders : \A m \in Generations : Has(h, s, m)' <=> Has(h, s, m)
    BY <1>7, <1>10, <2>1
  <2>4. \A h \in Holders : Has(h, s, gen[s]) => Has(h, s, gen[s])'
    BY <1>3, <1>9, <2>3 DEF Has
  <2> QED BY <1>6, <1>8, <1>9, <2>2, <2>3, <2>4, TokensKept
<1>11. CASE s = x
  <2>1. Brings(t, s, n)
    BY <1>1, <1>2, <1>11 DEF Brings, At
  <2>2. n = gen[s]
    BY <2>1 DEF TokenAt
  <2>3. ASSUME NEW h \in Holders, NEW m \in Generations, Has(h, s, m)' PROVE m = gen[s]
    <3>1. CASE h = b
      BY <1>7, <2>2, <2>3, <3>1
    <3>2. CASE h # b
      <4>1. Uses(h, s)
        BY <1>7, <2>3, <3>2, TokenUsed
      <4> QED BY <1>0, <1>5, <1>11, <3>2, <4>1 DEF OwnInv
    <3> QED BY <3>1, <3>2
  <2>4. ASSUME NEW u \in Tabs, NEW m \in Generations
        PROVE  /\ Asks(u, s, m)' => m = gen[s] \/ Recent(s, m, HolderOf[u])'
               /\ Late(u, s, m)' => Recent(s, m, HolderOf[u])'
               /\ ~Brings(u, s, m)'
    <3>1. \A h \in Holders : Recent(s, m, h) => Recent(s, m, h)'
      BY <1>3 DEF Recent
    <3>2. ~Brings(u, s, m)'
      BY <1>6, <2>1, <2>2 DEF TokenAt
    <3> QED BY <1>0, <1>6, <3>1, <3>2 DEF TokenAt
  <2>5. Has(b, s, gen[s])'
    BY <1>2, <1>3, <1>11, <2>2 DEF Has
  <2> QED BY <1>0, <1>9, <2>3, <2>4, <2>5 DEF TokenAt
<1> QED BY <1>10, <1>11

LEMMA TokenStep ==
    ASSUME TypeInv, TypeInv', IdsInv, IdsInv', Calm, OwnInv, CookieInv, EndingInv, TokenInv,
           [Next]_vars
    PROVE  TokenInv'
<1> SUFFICES ASSUME NEW s \in Sessions, ~Over(s)' PROVE TokenAt(s)'
  BY DEF TokenInv
<1>0. TokenAt(s)
  BY OverStays DEF TokenInv
<1>1. ASSUME NEW t \in Tabs, Serve(t) PROVE TokenAt(s)'
  <2>1. CASE createBrowserSession(t)
    BY <1>0, <1>1, <2>1, TokenCreated
  <2>2. CASE Rotates(t)
    BY <1>0, <1>1, <2>2, TokenRotated
  <2>3. CASE Receive(t) /\ At(t, "reply", "set")
    BY <1>0, <1>1, <2>3, TokenReceived
  <2>4. CASE Ordinary(t)
    BY <1>0, <2>4, TokenServe
  <2> QED BY <1>1, <2>1, <2>2, <2>3, <2>4 DEF Ordinary
<1>2. ASSUME NEW t \in Tabs, Sends(t) PROVE TokenAt(s)'
  BY <1>0, <1>2, TokenSends
<1>3. ASSUME NEW t \in Tabs, NEW x \in Sessions, SendLogin(t, x) PROVE TokenAt(s)'
  BY <1>0, <1>3, TokenLogin
<1>4. CASE CalmQuiet
  BY <1>0, <1>4, TokenQuiet
<1> QED BY <1>1, <1>2, <1>3, <1>4, CalmSteps

LEMMA CalmInit == ASSUME Init PROVE CalmInv
<1>1. \A h \in Holders : jar[h] = EmptyJar
  BY DEF Init
<1>2. \A t \in Tabs : calls[t] = Idle /\ calls[t].op = "none"
  BY DEF Init, Idle
<1>3. \A h \in Holders : \A s \in Sessions : ~Uses(h, s)
  BY <1>1, <1>2, EmptyHasNone DEF Uses, Carries
<1>4. OwnInv
  BY <1>3 DEF OwnInv
<1>5. CookieInv
  BY <1>1, <1>2, EmptyHasNone DEF CookieInv
<1>6. EndingInv
  BY <1>2 DEF EndingInv, AskedInv, At, Init
<1>7. \A s \in Sessions : ~Known(s) /\ gen[s] = 0
  BY DEF Init, Known
<1>8. \A h \in Holders : \A s \in Sessions : \A n \in Generations : ~Has(h, s, n)
  BY <1>1, EmptyHasNone DEF Has
<1>9. \A t \in Tabs : \A s, n : ~Asks(t, s, n) /\ ~Late(t, s, n) /\ ~Brings(t, s, n)
  BY <1>2 DEF Asks, Late, Brings, At
<1>10. TokenInv
  BY <1>7, <1>8, <1>9 DEF TokenInv, TokenAt
<1> QED BY <1>4, <1>5, <1>6, <1>10 DEF CalmInv

LEMMA CalmInductive ==
    ASSUME TypeInv, TypeInv', IdsInv, IdsInv', CalmInv, [Next]_vars
    PROVE  CalmInv'
<1> SUFFICES ASSUME Calm' PROVE OwnInv' /\ CookieInv' /\ EndingInv' /\ TokenInv'
  BY DEF CalmInv
<1>1. Calm
  BY CalmStays DEF Calm
<1> QED BY <1>1, OwnStep, CookieStep, EndingStep, TokenStep DEF CalmInv

(* UndisturbedSessionIsUsable: a session that nobody asked to end is not   *)
(* revoked, and its browser has the current refresh token or is about to   *)
(* receive it, however the requests of its tabs, the cleanup and the       *)
(* passing of time interleave.                                             *)
THEOREM UndisturbedStays == Spec => []UndisturbedSessionIsUsable
<1>1. Init => IdsInv /\ CalmInv
  BY CalmInit DEF Init, IdsInv, Known, Inserting, At, Idle
<1>2. TypeInv /\ TypeInv' /\ IdsInv /\ CalmInv /\ [Next]_vars => IdsInv' /\ CalmInv'
  BY IdsInductive, CalmInductive
<1>3. TypeInv /\ IdsInv /\ CalmInv => UndisturbedSessionIsUsable
  <2> SUFFICES ASSUME TypeInv, IdsInv, CalmInv, Calm,
                      NEW s \in rows \ touched, lapsed[s] <= gen[s]
               PROVE  /\ s \notin revoked
                      /\ \/ \E h \in Holders : jar[h].refresh = <<s, gen[s]>>
                         \/ \E t \in Tabs :
                               \/ At(t, "reply", "set") /\ calls[t].sent.refresh = <<s, gen[s]>>
                               \/ At(t, "refresh", "issue")
                                    /\ calls[t].sent.refresh = <<s, gen[s] - 1>>
    BY DEF UndisturbedSessionIsUsable, Calm
  <2>1. s \in Sessions /\ Known(s)
    BY DEF TypeInv, IdsInv
  <2>2. lapsed[s] \in Int /\ gen[s] \in Int
    BY <2>1 DEF TypeInv, Generations
  <2>3. ~Over(s)
    BY <2>1, <2>2 DEF Over
  <2>4. s \notin revoked
    BY <2>3 DEF CalmInv, EndingInv
  <2>5. \/ \E h \in Holders : Has(h, s, gen[s])
        \/ \E t \in Tabs : Brings(t, s, gen[s])
    BY <2>1, <2>3 DEF CalmInv, TokenInv, TokenAt
  <2> QED BY <2>4, <2>5 DEF Has, Brings
<1> QED BY <1>1, <1>2, <1>3, SessionTypes, PTL DEF Spec

=============================================================================
