--------------------------- MODULE CredentialsProofs ---------------------------
(***************************************************************************)
(* Theorems about passwords, one-time tokens, the second factor and the    *)
(* external login, for any number of requests in any order.                *)
(***************************************************************************)
EXTENDS Credentials, TLAPS

Named    == Makers \cup {none}
Fresh    == {"new", "away", "resend", "resend2", "forgot", "forgot2", "send"}
Upserts  == {"identify", "find", "create", "link", "update"}
Places   == Fresh \cup Upserts \cup
            {"refused", "done", "wrong", "right", "open", "verify", "reset", "revoke",
             "unrevoked", "enable", "mark", "confirm"}
Local    == [password : Named, failed : Nat, token : Named, session : Named, secret : Named,
             raced : BOOLEAN, account : Named, email : BOOLEAN, made : BOOLEAN,
             linked : BOOLEAN]
Token    == [purpose : Purposes \cup {"oauth_state"},
             state : {"live", "deleted", "expired", "consumed"}]
Session  == [account : Named, password : Named, live : BOOLEAN, mfa : BOOLEAN]
SecondFactor == [enabled : BOOLEAN, secret : Named, pending : Named]

TypeInv ==
    /\ pc \in [Requests -> Places] /\ local \in [Requests -> Local]
    /\ password \in Makers /\ verified \in BOOLEAN /\ failed \in Nat /\ locked \in BOOLEAN
    /\ mfa \in SecondFactor
    /\ DOMAIN tokens \subseteq Makers /\ tokens \in [DOMAIN tokens -> Token]
    /\ mailed \subseteq Makers
    /\ DOMAIN sessions \subseteq Makers /\ sessions \in [DOMAIN sessions -> Session]
    /\ DOMAIN accounts \subseteq Makers /\ accounts \in [DOMAIN accounts -> BOOLEAN]
    /\ identity \in Named /\ cookie \in Named

(* A request has read nothing before its first statement, and what an      *)
(* external login makes and links is its own until its transaction ends.   *)
PhaseInv ==
    \A q \in Requests :
        /\ pc[q] \in Fresh => local[q] = Blank
        /\ pc[q] \in {"wrong", "right"} => local[q].token = none
        /\ local[q].made => pc[q] \in {"link", "update"} /\ local[q].account = q
        /\ local[q].made /\ pc[q] = "update" => local[q].linked
        /\ local[q].linked => pc[q] = "update" /\ identity = none

(* The account an external login goes on with is the one the identity      *)
(* leads to, or will when its transaction commits.                         *)
IdentityInv ==
    /\ \A q \in Requests :
        /\ pc[q] \in {"link", "update"} => local[q].account # none
        /\ pc[q] = "update" => local[q].linked \/ identity = local[q].account
        /\ pc[q] = "open" /\ local[q].token # none =>
              local[q].account = identity /\ identity # none
        /\ q \in DOMAIN sessions => /\ pc[q] = "done"
                                    /\ local[q].token # none => identity # none
    /\ \A p, q \in Requests : local[p].linked /\ local[q].linked => p = q
    /\ OneAccountPerIdentity

(* A token is made once, is used up by whoever comes through with it, and  *)
(* what a request does next is what its token is for.                      *)
TokenInv ==
    /\ mailed \subseteq DOMAIN tokens
    /\ first \in DOMAIN tokens => Registered /\ accounts[first]
    /\ \A q \in Requests :
        /\ q \in DOMAIN tokens => pc[q] \notin {"new", "resend", "resend2", "forgot", "forgot2"}
        /\ pc[q] = "send" => q \in DOMAIN tokens
        /\ local[q].token # none => /\ local[q].token \in DOMAIN tokens
                                    /\ tokens[local[q].token].state = "consumed"
        /\ pc[q] = "reset" \/ password = q =>
              /\ local[q].token # none
              /\ tokens[local[q].token].purpose = "reset_password"
        /\ pc[q] = "verify" => /\ local[q].token # none
                               /\ tokens[local[q].token].purpose = "verify_email"
    /\ TokenWorksOnce

(* A login that is under way goes on with the password of the account, or  *)
(* a reset has marked it.                                                  *)
ResetInv ==
    /\ \A q \in Requests : pc[q] \in {"right", "open"} =>
          local[q].password = password \/ local[q].raced
    /\ \A q \in Requests \cap DOMAIN sessions : pc[q] = "done"
    /\ \A s \in DOMAIN sessions :
          SignedIn(s) /\ sessions[s].password # password =>
              \/ password \in Requests /\ pc[password] \in {"revoke", "unrevoked"}
              \/ s \in Requests /\ local[s].raced

(* An enable that is under way has checked the secret that is pending, or  *)
(* a setup or another enable has come in between.                          *)
FactorInv ==
    /\ \A q \in Requests : pc[q] = "enable" =>
          local[q].secret # none /\ (local[q].secret = mfa.pending \/ local[q].raced)
    /\ SecondFactorIsHeld

-----------------------------------------------------------------------------
(* Types                                                                   *)

LEMMA AddType ==
    ASSUME NEW S, NEW f, f \in [DOMAIN f -> S], NEW x, NEW v \in S
    PROVE  /\ DOMAIN Add(f, x, v) = DOMAIN f \cup {x}
           /\ Add(f, x, v) \in [DOMAIN f \cup {x} -> S]
           /\ Add(f, x, v)[x] = v
           /\ \A y \in DOMAIN f : y # x => Add(f, x, v)[y] = f[y]
BY DEF Add

LEMMA AddFlag ==
    ASSUME NEW f, f \in [DOMAIN f -> BOOLEAN], NEW x, NEW v \in BOOLEAN
    PROVE  /\ DOMAIN Add(f, x, v) = DOMAIN f \cup {x}
           /\ Add(f, x, v) \in [DOMAIN f \cup {x} -> BOOLEAN]
BY DEF Add

LEMMA FlagRaised ==
    ASSUME NEW f, f \in [DOMAIN f -> BOOLEAN], NEW x, NEW b \in BOOLEAN
    PROVE  /\ DOMAIN [f EXCEPT ![x] = @ \/ b] = DOMAIN f
           /\ [f EXCEPT ![x] = @ \/ b] \in [DOMAIN f -> BOOLEAN]
OBVIOUS

LEMMA AccountNoted ==
    ASSUME NEW l \in Local, NEW x \in Named, NEW b \in BOOLEAN, NEW c \in BOOLEAN
    PROVE  /\ [l EXCEPT !.account = x] \in Local
           /\ [l EXCEPT !.account = x, !.made = b] \in Local
           /\ [l EXCEPT !.made = b, !.linked = c] \in Local
           /\ [l EXCEPT !.linked = c] \in Local
<1>0. ASSUME NEW k \in Local
      PROVE  /\ [k EXCEPT !.account = x] \in Local
             /\ [k EXCEPT !.made = b] \in Local
             /\ [k EXCEPT !.linked = c] \in Local
  BY DEF Local
<1>1. [l EXCEPT !.account = x] \in Local /\ [l EXCEPT !.linked = c] \in Local
  BY <1>0
<1>2. [l EXCEPT !.account = x, !.made = b] = [[l EXCEPT !.account = x] EXCEPT !.made = b]
  OBVIOUS
<1>3. [l EXCEPT !.made = b, !.linked = c] = [[l EXCEPT !.made = b] EXCEPT !.linked = c]
  OBVIOUS
<1>4. [l EXCEPT !.made = b] \in Local
  BY <1>0
<1>5. [[l EXCEPT !.account = x] EXCEPT !.made = b] \in Local
  BY <1>0, <1>1
<1>6. [[l EXCEPT !.made = b] EXCEPT !.linked = c] \in Local
  BY <1>0, <1>4
<1> QED BY <1>1, <1>2, <1>3, <1>5, <1>6

LEMMA BlankType == Blank \in Local
BY DEF Blank, Local, Named, Makers

(* Everything but the last two steps is a step of one request.             *)
Acts(q) ==
    \/ AuthRegisterEmail(q) \/ LoginRead(q) \/ LoginFails(q) \/ LoginClears(q) \/ createBrowserSession(q)
    \/ \E purpose \in Purposes : AskForToken(q, purpose)
    \/ DeleteTokens(q) \/ InsertToken(q) \/ SendMail(q)
    \/ \E t \in mailed, purpose \in Purposes : consumeOneTimeToken(q, t, purpose)
    \/ VerifyEmail(q) \/ ResetPassword(q) \/ revokeAllUserSessions(q)
    \/ AuthMFASetup(q)
    \/ \E s \in DOMAIN sessions : EnableChecks(q, s) \/ VerifyChecks(q, s)
    \/ EnableWrites(q) \/ MarkSession(q)
    \/ beginOIDC(q) \/ \E t \in DOMAIN tokens : finishOIDC(q, t)
    \/ FindIdentity(q) \/ FindByEmail(q) \/ CreateUser(q) \/ LinkIdentity(q)
    \/ UpdateUser(q) \/ RollBack(q)

Quiet == LockExpires \/ (\E t \in DOMAIN tokens : TokenExpires(t)) \/ UNCHANGED vars

LEMMA Steps ==
    ASSUME [Next]_vars
    PROVE  (\E q \in Requests : Acts(q)) \/ Quiet
BY DEF Next, Acts, Quiet
LEMMA HolderHasIt ==
    ASSUME Taken
    PROVE  Holder \in DOMAIN accounts /\ accounts[Holder]
BY DEF Taken, Holder

(* Every variable keeps its type.                                          *)
THEOREM CredentialTypes == Spec => []TypeInv
<1> USE CredentialsAssumption, BlankType DEF Named, Makers, Places, Fresh, Upserts
<1>1. Init => TypeInv
  <2> SUFFICES ASSUME Init PROVE TypeInv
    OBVIOUS
  <2>1. local \in [Requests -> Local] /\ pc \in [Requests -> Places]
    BY DEF Init
  <2>2. mfa \in SecondFactor
    BY DEF Init, SecondFactor
  <2>3. /\ DOMAIN tokens \subseteq Makers /\ tokens \in [DOMAIN tokens -> Token]
        /\ DOMAIN sessions \subseteq Makers /\ sessions \in [DOMAIN sessions -> Session]
        /\ DOMAIN accounts \subseteq Makers /\ accounts \in [DOMAIN accounts -> BOOLEAN]
    <3>1. CASE mailed = {}
      BY <3>1 DEF Init
    <3>2. CASE mailed = {first}
      <4>1. /\ [purpose |-> "verify_email", state |-> "consumed"] \in Token
            /\ [account |-> first, password |-> first, live |-> TRUE, mfa |-> FALSE] \in Session
        BY DEF Token, Session, Purposes
      <4> QED BY <3>2, <4>1 DEF Init
    <3> QED BY <3>1, <3>2 DEF Init
  <2> QED BY <2>1, <2>2, <2>3 DEF Init, TypeInv
<1>2. TypeInv /\ [Next]_vars => TypeInv'
  <2> SUFFICES ASSUME TypeInv, [Next]_vars PROVE TypeInv'
    OBVIOUS
  <2> USE DEF user, oidc, Goto, Step, Keep
  <2>1. ASSUME NEW q \in Requests, Acts(q) PROVE TypeInv'
    <3>0. local[q] \in Local /\ pc[q] \in Places
      BY DEF TypeInv
    <3>1. CASE AuthRegisterEmail(q)
      <4>1. Add(accounts, first, TRUE) \in [DOMAIN accounts \cup {first} -> BOOLEAN]
        BY AddType DEF TypeInv
      <4>2. [purpose |-> "verify_email", state |-> "live"] \in Token
        BY DEF Token, Purposes
      <4>3. Add(tokens, first, [purpose |-> "verify_email", state |-> "live"])
                \in [DOMAIN tokens \cup {first} -> Token]
        BY <4>2, AddType DEF TypeInv
      <4>4. pc' \in [Requests -> Places]
        BY <3>1 DEF AuthRegisterEmail, TypeInv
      <4>5. \/ UNCHANGED <<accounts, tokens, mailed>>
            \/ /\ accounts' = Add(accounts, first, TRUE)
               /\ tokens' = Add(tokens, first, [purpose |-> "verify_email", state |-> "live"])
               /\ mailed' \in {mailed, mailed \cup {first}}
        BY <3>1 DEF AuthRegisterEmail
      <4>6. UNCHANGED <<local, user, sessions, identity, cookie>>
        BY <3>1 DEF AuthRegisterEmail
      <4> QED BY <4>1, <4>3, <4>4, <4>5, <4>6 DEF TypeInv
    <3>2. CASE LoginRead(q) \/ LoginFails(q) \/ LoginClears(q)
      <4>1. [Blank EXCEPT !.password = password, !.failed = failed] \in Local
        BY DEF Local, Blank, TypeInv
      <4>2. CASE LoginRead(q)
        BY <4>1, <4>2 DEF LoginRead, TypeInv
      <4>3. CASE LoginFails(q)
        <5>1. local[q].failed + 1 \in Nat
          BY <3>0 DEF Local
        <5>2. failed' \in Nat
          BY <4>3, <5>1 DEF LoginFails, TypeInv
        <5>3. locked' \in BOOLEAN
          BY <4>3 DEF LoginFails, TypeInv
        <5>4. pc' \in [Requests -> Places]
          BY <4>3 DEF LoginFails, TypeInv
        <5> QED BY <4>3, <5>2, <5>3, <5>4 DEF LoginFails, TypeInv
      <4>4. CASE LoginClears(q)
        <5>1. failed' \in Nat
          BY <4>4 DEF LoginClears, TypeInv
        <5>2. locked' \in BOOLEAN
          BY <4>4 DEF LoginClears, TypeInv
        <5>3. pc' \in [Requests -> Places]
          BY <4>4 DEF LoginClears, TypeInv
        <5> QED BY <4>4, <5>1, <5>2, <5>3 DEF LoginClears, TypeInv
      <4> QED BY <3>2, <4>2, <4>3, <4>4
    <3>3. CASE createBrowserSession(q)
      <4> DEFINE row == [account |-> local[q].account, password |-> local[q].password,
                         live |-> TRUE, mfa |-> FALSE]
      <4>1. row \in Session
        BY <3>0 DEF Session, Local
      <4>2. Add(sessions, q, row) \in [DOMAIN sessions \cup {q} -> Session]
        BY <4>1, AddType DEF TypeInv
      <4>3. sessions' = Add(sessions, q, row) \/ sessions' = sessions
        BY <3>3 DEF createBrowserSession
      <4> HIDE DEF row
      <4>4. pc' \in [Requests -> Places] /\ UNCHANGED <<local, user, tokens, mailed, oidc>>
        BY <3>3 DEF createBrowserSession, TypeInv
      <4> QED BY <4>2, <4>3, <4>4 DEF TypeInv
    <3>4. ASSUME NEW purpose \in Purposes, AskForToken(q, purpose) PROVE TypeInv'
      BY <3>4 DEF AskForToken, TypeInv
    <3>5. CASE DeleteTokens(q)
      <4>1. \/ tokens' = tokens
            \/ tokens' = [t \in DOMAIN tokens |->
                  IF tokens[t].purpose = PurposeAt(pc[q]) /\ tokens[t].state # "consumed"
                    THEN [tokens[t] EXCEPT !.state = "deleted"] ELSE tokens[t]]
        BY <3>5 DEF DeleteTokens
      <4>2. \A t \in DOMAIN tokens : [tokens[t] EXCEPT !.state = "deleted"] \in Token
        BY DEF TypeInv, Token
      <4>3. DOMAIN tokens' = DOMAIN tokens /\ tokens' \in [DOMAIN tokens' -> Token]
        BY <4>1, <4>2 DEF TypeInv
      <4>4. pc' \in [Requests -> Places] /\ UNCHANGED <<local, user, mailed, sessions, oidc>>
        BY <3>5 DEF DeleteTokens, TypeInv
      <4> QED BY <4>3, <4>4 DEF TypeInv
    <3>6. CASE InsertToken(q)
      <4>1. [purpose |-> PurposeAt(pc[q]), state |-> "live"] \in Token
        BY DEF Token, Purposes, PurposeAt
      <4>2. Add(tokens, q, [purpose |-> PurposeAt(pc[q]), state |-> "live"])
                \in [DOMAIN tokens \cup {q} -> Token]
        BY <4>1, AddType DEF TypeInv
      <4>3. \/ tokens' = tokens
            \/ tokens' = Add(tokens, q, [purpose |-> PurposeAt(pc[q]), state |-> "live"])
        BY <3>6 DEF InsertToken
      <4>4. pc' \in [Requests -> Places] /\ UNCHANGED <<local, user, mailed, sessions, oidc>>
        BY <3>6 DEF InsertToken, TypeInv
      <4> QED BY <4>2, <4>3, <4>4 DEF TypeInv
    <3>7. CASE SendMail(q)
      BY <3>7 DEF SendMail, TypeInv
    <3>8. ASSUME NEW t \in mailed, NEW purpose \in Purposes, consumeOneTimeToken(q, t, purpose)
          PROVE  TypeInv'
      <4>1. [Blank EXCEPT !.token = t] \in Local
        BY DEF Local, Blank, TypeInv
      <4>2. DOMAIN tokens' = DOMAIN tokens /\ tokens' \in [DOMAIN tokens' -> Token]
        BY <3>8 DEF consumeOneTimeToken, TypeInv, Token
      <4>3. local' \in [Requests -> Local] /\ pc' \in [Requests -> Places]
        BY <3>8, <4>1 DEF consumeOneTimeToken, TypeInv
      <4>4. UNCHANGED <<user, mailed, sessions, oidc>>
        BY <3>8 DEF consumeOneTimeToken
      <4> QED BY <4>2, <4>3, <4>4 DEF TypeInv
    <3>9. CASE VerifyEmail(q)
      BY <3>9 DEF VerifyEmail, TypeInv
    <3>10. CASE ResetPassword(q)
      <4>1. ASSUME NEW p \in Requests
            PROVE  [local[p] EXCEPT !.raced = @ \/ pc[p] \in {"right", "open"}] \in Local
        <5>1. local[p] \in Local
          BY DEF TypeInv
        <5>2. (local[p].raced \/ pc[p] \in {"right", "open"}) \in BOOLEAN
          OBVIOUS
        <5>3. ASSUME NEW b \in BOOLEAN PROVE [local[p] EXCEPT !.raced = b] \in Local
          BY <5>1 DEF Local
        <5> QED BY <5>2, <5>3
      <4>2. \/ local' = local
            \/ local' = [p \in Requests |->
                  [local[p] EXCEPT !.raced = @ \/ pc[p] \in {"right", "open"}]]
        BY <3>10 DEF ResetPassword
      <4>3. local' \in [Requests -> Local]
        BY <4>1, <4>2 DEF TypeInv
      <4>4. /\ password' \in Makers /\ failed' \in Nat /\ locked' \in BOOLEAN
            /\ pc' \in [Requests -> Places]
        <5>1. password' \in Makers /\ failed' \in Nat
          BY <3>10 DEF ResetPassword, TypeInv
        <5>2. locked' \in BOOLEAN
          BY <3>10 DEF ResetPassword, TypeInv
        <5>3. pc' \in [Requests -> Places]
          BY <3>10 DEF ResetPassword, TypeInv
        <5> QED BY <5>1, <5>2, <5>3
      <4>5. UNCHANGED <<verified, mfa, tokens, mailed, sessions, oidc>>
        BY <3>10 DEF ResetPassword
      <4> QED BY <4>3, <4>4, <4>5 DEF TypeInv
    <3>11. CASE revokeAllUserSessions(q)
      <4>1. ASSUME NEW s \in DOMAIN sessions
            PROVE  [sessions[s] EXCEPT !.live = @ /\ sessions[s].account # first] \in Session
        <5>1. sessions[s] \in Session
          BY DEF TypeInv
        <5>2. (sessions[s].live /\ sessions[s].account # first) \in BOOLEAN
          OBVIOUS
        <5>3. ASSUME NEW b \in BOOLEAN PROVE [sessions[s] EXCEPT !.live = b] \in Session
          BY <5>1 DEF Session
        <5> QED BY <5>2, <5>3
      <4>2. DOMAIN sessions' = DOMAIN sessions /\ sessions' \in [DOMAIN sessions' -> Session]
        BY <3>11, <4>1 DEF revokeAllUserSessions, RevokedAll, TypeInv
      <4> QED BY <3>11, <4>2 DEF revokeAllUserSessions, TypeInv
    <3>12. CASE AuthMFASetup(q) \/ EnableWrites(q)
      <4>1. ASSUME NEW p \in Requests
            PROVE  [local[p] EXCEPT !.raced = @ \/ (p # q /\ pc[p] = "enable")] \in Local
        <5>1. local[p] \in Local
          BY DEF TypeInv
        <5>2. (local[p].raced \/ (p # q /\ pc[p] = "enable")) \in BOOLEAN
          OBVIOUS
        <5>3. ASSUME NEW b \in BOOLEAN PROVE [local[p] EXCEPT !.raced = b] \in Local
          BY <5>1 DEF Local
        <5> QED BY <5>2, <5>3
      <4>2. Overtaken(q) \in [Requests -> Local]
        BY <4>1 DEF Overtaken
      <4>3. mfa' \in SecondFactor
        <5>1. Pending(q) \in SecondFactor
          BY DEF Pending, SecondFactor, TypeInv
        <5>2. [enabled |-> TRUE, secret |-> mfa.pending, pending |-> none] \in SecondFactor
          BY DEF SecondFactor, TypeInv
        <5> QED BY <3>12, <5>1, <5>2 DEF AuthMFASetup, EnableWrites, TypeInv
      <4> QED BY <3>12, <4>2, <4>3 DEF AuthMFASetup, EnableWrites, TypeInv
    <3>13. ASSUME NEW s \in DOMAIN sessions, EnableChecks(q, s) \/ VerifyChecks(q, s)
           PROVE  TypeInv'
      <4>1. \A x \in {mfa.pending, mfa.secret} :
                [Blank EXCEPT !.session = s, !.secret = x] \in Local
        BY DEF Local, Blank, TypeInv, SecondFactor
      <4>2. local' \in [Requests -> Local]
        BY <3>13, <4>1 DEF EnableChecks, VerifyChecks, TypeInv
      <4> QED BY <3>13, <4>2 DEF EnableChecks, VerifyChecks, TypeInv
    <3>14. CASE MarkSession(q)
      <4> DEFINE s == local[q].session
      <4>1. DOMAIN sessions' = DOMAIN sessions /\ sessions' \in [DOMAIN sessions' -> Session]
        <5>1. \/ sessions' = sessions
              \/ \E b \in BOOLEAN : sessions' = [sessions EXCEPT ![s].mfa = b]
          <6>1. (sessions[s].mfa \/ pc[q] = "mark" \/ SignedIn(s)) \in BOOLEAN
            OBVIOUS
          <6> QED BY <3>14, <6>1 DEF MarkSession
        <5>2. ASSUME NEW b \in BOOLEAN, sessions' = [sessions EXCEPT ![s].mfa = b]
              PROVE  DOMAIN sessions' = DOMAIN sessions /\ sessions' \in [DOMAIN sessions' -> Session]
          <6>1. s \in DOMAIN sessions => [sessions[s] EXCEPT !.mfa = b] \in Session
            BY DEF TypeInv, Session
          <6> HIDE DEF s
          <6> QED BY <5>2, <6>1 DEF TypeInv
        <5> QED BY <5>1, <5>2 DEF TypeInv
      <4> QED BY <3>14, <4>1 DEF MarkSession, TypeInv
    <3>15. CASE beginOIDC(q)
      <4>1. [purpose |-> "oauth_state", state |-> "live"] \in Token
        BY DEF Token
      <4>2. Add(tokens, q, [purpose |-> "oauth_state", state |-> "live"])
                \in [DOMAIN tokens \cup {q} -> Token]
        BY <4>1, AddType DEF TypeInv
      <4>3. \/ UNCHANGED <<tokens, cookie>>
            \/ /\ tokens' = Add(tokens, q, [purpose |-> "oauth_state", state |-> "live"])
               /\ cookie' = q
        BY <3>15 DEF beginOIDC
      <4>4. /\ pc' \in [Requests -> Places]
            /\ UNCHANGED <<local, user, mailed, sessions, accounts, identity>>
        BY <3>15 DEF beginOIDC, TypeInv
      <4> QED BY <4>2, <4>3, <4>4 DEF TypeInv
    <3>16. ASSUME NEW t \in DOMAIN tokens, finishOIDC(q, t) PROVE TypeInv'
      <4>1. \A b \in BOOLEAN :
                [Blank EXCEPT !.token = t, !.account = none, !.email = b] \in Local
        BY DEF Local, Blank, TypeInv
      <4>2. \A claims \in Claims : claims.email \in BOOLEAN
        BY DEF Claims
      <4>3. local' \in [Requests -> Local] /\ pc' \in [Requests -> Places]
        <5>1. \/ local' = local
              \/ \E claims \in Claims : local' = [local EXCEPT ![q] =
                    [Blank EXCEPT !.token = t, !.account = none, !.email = claims.email]]
          BY <3>16 DEF finishOIDC
        <5>2. local' \in [Requests -> Local]
          <6>1. \A claims \in Claims :
                   [Blank EXCEPT !.token = t, !.account = none, !.email = claims.email] \in Local
            BY <4>1, <4>2
          <6>2. ASSUME NEW r \in Local, local' = [local EXCEPT ![q] = r]
                PROVE  local' \in [Requests -> Local]
            BY <6>2 DEF TypeInv
          <6> QED BY <5>1, <6>1, <6>2 DEF TypeInv
        <5>3. pc' \in [Requests -> Places]
          BY <3>16 DEF finishOIDC, TypeInv
        <5> QED BY <5>2, <5>3
      <4>4. DOMAIN tokens' = DOMAIN tokens /\ tokens' \in [DOMAIN tokens' -> Token]
        <5>1. tokens' = tokens \/ tokens' = [tokens EXCEPT ![t].state = "consumed"]
          BY <3>16 DEF finishOIDC
        <5> QED BY <5>1 DEF TypeInv, Token
      <4> QED BY <3>16, <4>3, <4>4 DEF finishOIDC, TypeInv
    <3>17. CASE FindIdentity(q) \/ FindByEmail(q) \/ CreateUser(q) \/ LinkIdentity(q)
                \/ RollBack(q)
      <4>1. ASSUME NEW x \in Named, NEW b \in BOOLEAN, NEW c \in BOOLEAN
            PROVE  /\ [local[q] EXCEPT !.account = x] \in Local
                   /\ [local[q] EXCEPT !.account = x, !.made = b] \in Local
                   /\ [local[q] EXCEPT !.made = b, !.linked = c] \in Local
                   /\ [local[q] EXCEPT !.linked = c] \in Local
        BY <3>0, AccountNoted
      <4>2. Taken => Holder \in Named
        BY HolderHasIt DEF TypeInv
      <4>3. local' \in [Requests -> Local]
        <5>1. ASSUME NEW r \in Local, local' = [local EXCEPT ![q] = r]
              PROVE  local' \in [Requests -> Local]
          BY <5>1 DEF TypeInv
        <5>2. CASE FindIdentity(q) \/ FindByEmail(q)
          BY <4>1, <4>2, <5>1, <5>2 DEF FindIdentity, FindByEmail, TypeInv
        <5>3. CASE CreateUser(q)
          BY <4>1, <4>2, <5>1, <5>3 DEF CreateUser
        <5>4. CASE LinkIdentity(q)
          BY <4>1, <5>1, <5>4 DEF LinkIdentity, Yielded, TypeInv
        <5>5. CASE RollBack(q)
          BY <4>1, <5>1, <5>5 DEF RollBack
        <5> QED BY <3>17, <5>2, <5>3, <5>4, <5>5
      <4>4. pc' \in [Requests -> Places]
        BY <3>17 DEF FindIdentity, FindByEmail, CreateUser, LinkIdentity, RollBack, TypeInv
      <4>5. UNCHANGED <<user, tokens, mailed, sessions, oidc>>
        BY <3>17 DEF FindIdentity, FindByEmail, CreateUser, LinkIdentity, RollBack
      <4> QED BY <4>3, <4>4, <4>5 DEF TypeInv
    <3>18. CASE UpdateUser(q)
      <4> DEFINE u    == local[q].account
                 made == IF local[q].made THEN Add(accounts, q, local[q].email) ELSE accounts
      <4>1. /\ DOMAIN made \subseteq Makers /\ made \in [DOMAIN made -> BOOLEAN]
            /\ local[q].email \in BOOLEAN /\ u \in Named
        <5>1. local[q].email \in BOOLEAN /\ u \in Named
          BY <3>0 DEF Local
        <5>2. CASE local[q].made
          <6>1. made = Add(accounts, q, local[q].email)
            BY <5>2
          <6>2. /\ DOMAIN Add(accounts, q, local[q].email) = DOMAIN accounts \cup {q}
                /\ Add(accounts, q, local[q].email) \in [DOMAIN accounts \cup {q} -> BOOLEAN]
            <7>1. accounts \in [DOMAIN accounts -> BOOLEAN]
              BY DEF TypeInv
            <7> QED BY <5>1, <7>1, AddFlag
          <6>3. DOMAIN accounts \cup {q} \subseteq Makers
            BY DEF TypeInv
          <6>4. DOMAIN made = DOMAIN accounts \cup {q} /\ made \in [DOMAIN made -> BOOLEAN]
            BY <6>1, <6>2
          <6> HIDE DEF made
          <6> QED BY <5>1, <6>3, <6>4
        <5>3. CASE ~local[q].made
          <6>1. made = accounts
            BY <5>3
          <6> HIDE DEF made
          <6> QED BY <5>1, <6>1 DEF TypeInv
        <5> QED BY <5>1, <5>2, <5>3
      <4>2. accounts' = [made EXCEPT ![u] = @ \/ local[q].email]
        BY <3>18 DEF UpdateUser
      <4>3. DOMAIN accounts' \subseteq Makers /\ accounts' \in [DOMAIN accounts' -> BOOLEAN]
        <5> HIDE DEF made
        <5> HIDE DEF u
        <5>1. /\ DOMAIN [made EXCEPT ![u] = @ \/ local[q].email] = DOMAIN made
              /\ [made EXCEPT ![u] = @ \/ local[q].email] \in [DOMAIN made -> BOOLEAN]
          BY ONLY <4>1, FlagRaised
        <5> QED BY <4>1, <4>2, <5>1
      <4>4. [local[q] EXCEPT !.made = FALSE, !.linked = FALSE, !.password = password] \in Local
        BY <3>0 DEF Local, TypeInv
      <4>5. local' \in [Requests -> Local] /\ pc' \in [Requests -> Places]
        BY <3>18, <4>4 DEF UpdateUser, TypeInv
      <4>6. /\ identity' \in Named
            /\ verified' \in BOOLEAN
            /\ UNCHANGED <<password, failed, locked, mfa, tokens, mailed, sessions, cookie>>
        BY <3>18, <4>1 DEF UpdateUser, TypeInv
      <4> QED BY <4>3, <4>5, <4>6 DEF TypeInv
    <3> QED BY <2>1, <3>1, <3>2, <3>3, <3>4, <3>5, <3>6, <3>7, <3>8, <3>9, <3>10, <3>11, <3>12,
               <3>13, <3>14, <3>15, <3>16, <3>17, <3>18 DEF Acts
  <2>2. CASE LockExpires \/ UNCHANGED vars
    BY <2>2 DEF LockExpires, vars, TypeInv
  <2>3. ASSUME NEW t \in DOMAIN tokens, TokenExpires(t) PROVE TypeInv'
    BY <2>3 DEF TokenExpires, TypeInv, Token
  <2> QED BY <2>1, <2>2, <2>3, Steps DEF Quiet
<1> QED BY <1>1, <1>2, PTL DEF Spec
-----------------------------------------------------------------------------
(* What a request leaves alone                                             *)

(* Others see nothing of a request in their own variables, but that a      *)
(* reset, a setup or an enable has come in between.                        *)
Same(p) ==
    /\ pc'[p] = pc[p]
    /\ local'[p].password = local[p].password /\ local'[p].token = local[p].token
    /\ local'[p].secret = local[p].secret /\ local'[p].session = local[p].session
    /\ local'[p].account = local[p].account /\ local'[p].email = local[p].email
    /\ local'[p].made = local[p].made /\ local'[p].linked = local[p].linked
    /\ local[p].raced => local'[p].raced
    /\ pc[p] \notin {"right", "open", "enable"} => local'[p] = local[p]

Marks(q) == ResetPassword(q) \/ AuthMFASetup(q) \/ EnableWrites(q)

LEMMA OwnRecord ==
    ASSUME TypeInv, NEW q \in Requests, Acts(q), ~Marks(q)
    PROVE  \A p \in Requests \ {q} : pc'[p] = pc[p] /\ local'[p] = local[p]
<1> USE DEF user, oidc, Goto, Step, Keep, Marks
<1>0. DOMAIN pc = Requests /\ DOMAIN local = Requests
  BY DEF TypeInv
<1>1. CASE AuthRegisterEmail(q) \/ LoginRead(q) \/ LoginFails(q) \/ LoginClears(q)
  BY <1>0, <1>1 DEF AuthRegisterEmail, LoginRead, LoginFails, LoginClears
<1>2. CASE createBrowserSession(q) \/ MarkSession(q) \/ DeleteTokens(q) \/ InsertToken(q)
  BY <1>0, <1>2 DEF createBrowserSession, MarkSession, DeleteTokens, InsertToken
<1>3. CASE SendMail(q) \/ VerifyEmail(q) \/ revokeAllUserSessions(q) \/ beginOIDC(q)
  BY <1>0, <1>3 DEF SendMail, VerifyEmail, revokeAllUserSessions, beginOIDC
<1>4. ASSUME NEW purpose, AskForToken(q, purpose)
      PROVE  \A p \in Requests \ {q} : pc'[p] = pc[p] /\ local'[p] = local[p]
  BY <1>0, <1>4 DEF AskForToken
<1>5. ASSUME NEW t, NEW purpose, consumeOneTimeToken(q, t, purpose) \/ finishOIDC(q, t)
      PROVE  \A p \in Requests \ {q} : pc'[p] = pc[p] /\ local'[p] = local[p]
  BY <1>0, <1>5 DEF consumeOneTimeToken, finishOIDC
<1>6. ASSUME NEW s, EnableChecks(q, s) \/ VerifyChecks(q, s)
      PROVE  \A p \in Requests \ {q} : pc'[p] = pc[p] /\ local'[p] = local[p]
  BY <1>0, <1>6 DEF EnableChecks, VerifyChecks
<1>7. CASE FindIdentity(q) \/ FindByEmail(q) \/ CreateUser(q) \/ LinkIdentity(q)
  BY <1>0, <1>7 DEF FindIdentity, FindByEmail, CreateUser, LinkIdentity
<1>8. CASE UpdateUser(q) \/ RollBack(q)
  BY <1>0, <1>8 DEF UpdateUser, RollBack
<1> QED BY <1>1, <1>2, <1>3, <1>4, <1>5, <1>6, <1>7, <1>8 DEF Acts

LEMMA Others ==
    ASSUME TypeInv, NEW q \in Requests, Acts(q), NEW p \in Requests, p # q
    PROVE  Same(p)
<1>0. DOMAIN pc = Requests /\ DOMAIN local = Requests /\ local[p] \in Local
  BY DEF TypeInv
<1>1. CASE ~Marks(q)
  BY <1>1, OwnRecord DEF Same
<1>2. CASE Marks(q)
  <2>1. pc'[p] = pc[p]
    BY <1>0, <1>2 DEF Marks, ResetPassword, AuthMFASetup, EnableWrites, Goto
  <2>2. \/ local'[p] = local[p]
        \/ local'[p] = [local[p] EXCEPT !.raced = @ \/ pc[p] \in {"right", "open"}]
        \/ local'[p] = [local[p] EXCEPT !.raced = @ \/ (p # q /\ pc[p] = "enable")]
    BY <1>0, <1>2 DEF Marks, ResetPassword, AuthMFASetup, EnableWrites, Overtaken
  <2>3. CASE local'[p] = local[p]
    BY <2>1, <2>3 DEF Same
  <2>4. CASE local'[p] = [local[p] EXCEPT !.raced = @ \/ pc[p] \in {"right", "open"}]
    BY <1>0, <2>1, <2>4 DEF Same, Local
  <2>5. CASE local'[p] = [local[p] EXCEPT !.raced = @ \/ (p # q /\ pc[p] = "enable")]
    BY <1>0, <2>1, <2>5 DEF Same, Local
  <2> QED BY <2>2, <2>3, <2>4, <2>5
<1> QED BY <1>1, <1>2

LEMMA QuietSame ==
    ASSUME TypeInv, Quiet
    PROVE  /\ UNCHANGED <<pc, local, password, verified, mfa, mailed, sessions, accounts,
                          identity, cookie>>
           /\ DOMAIN tokens' = DOMAIN tokens
           /\ \A t \in DOMAIN tokens : /\ tokens'[t].purpose = tokens[t].purpose
                                       /\ tokens[t].state # "live" => tokens'[t] = tokens[t]
<1>1. CASE LockExpires \/ UNCHANGED vars
  BY <1>1 DEF LockExpires, vars, oidc
<1>2. ASSUME NEW x \in DOMAIN tokens, TokenExpires(x)
      PROVE  /\ UNCHANGED <<pc, local, password, verified, mfa, mailed, sessions, accounts,
                            identity, cookie>>
             /\ DOMAIN tokens' = DOMAIN tokens
             /\ \A t \in DOMAIN tokens : /\ tokens'[t].purpose = tokens[t].purpose
                                         /\ tokens[t].state # "live" => tokens'[t] = tokens[t]
  <2>1. tokens[x] \in Token /\ tokens' = [tokens EXCEPT ![x].state = "expired"]
        /\ tokens[x].state = "live"
    BY <1>2 DEF TokenExpires, TypeInv
  <2>2. /\ DOMAIN tokens' = DOMAIN tokens
        /\ \A t \in DOMAIN tokens : /\ tokens'[t].purpose = tokens[t].purpose
                                    /\ tokens[t].state # "live" => tokens'[t] = tokens[t]
    BY <2>1 DEF Token
  <2> QED BY <1>2, <2>2 DEF TokenExpires, user, oidc
<1> QED BY <1>1, <1>2 DEF Quiet

(* What a request does with its own transaction.                           *)
LEMMA PhaseInductive ==
    ASSUME TypeInv, PhaseInv, IdentityInv, [Next]_vars
    PROVE  PhaseInv'
<1> USE DEF user, oidc, Goto, Step, Keep
<1> DEFINE Own(q) == /\ pc[q] \in Fresh => local[q] = Blank
                     /\ pc[q] \in {"wrong", "right"} => local[q].token = none
                     /\ local[q].made => pc[q] \in {"link", "update"} /\ local[q].account = q
                     /\ local[q].made /\ pc[q] = "update" => local[q].linked
                     /\ local[q].linked => pc[q] = "update" /\ identity = none
<1>1. ASSUME NEW q \in Requests, Acts(q)
      PROVE  Own(q)' /\ (identity' = identity \/ UpdateUser(q))
  <2> USE DEF Fresh
  <2>0. DOMAIN pc = Requests /\ DOMAIN local = Requests /\ local[q] \in Local /\ Own(q)
    BY DEF TypeInv, PhaseInv
  <2>1. CASE AuthRegisterEmail(q) \/ LoginFails(q) \/ LoginClears(q)
    BY <2>0, <2>1 DEF AuthRegisterEmail, LoginFails, LoginClears, Blank
  <2>2. CASE LoginRead(q)
    BY <2>0, <2>2 DEF LoginRead, Blank
  <2>3. CASE createBrowserSession(q) \/ MarkSession(q) \/ DeleteTokens(q) \/ InsertToken(q)
    <3>1. CASE createBrowserSession(q)
      BY <2>0, <3>1 DEF createBrowserSession, Blank
    <3>2. CASE MarkSession(q)
      BY <2>0, <3>2 DEF MarkSession, Blank
    <3>3. CASE DeleteTokens(q) \/ InsertToken(q)
      BY <2>0, <3>3 DEF DeleteTokens, InsertToken, Blank
    <3> QED BY <2>3, <3>1, <3>2, <3>3
  <2>4. CASE SendMail(q) \/ VerifyEmail(q) \/ revokeAllUserSessions(q) \/ beginOIDC(q)
    <3>1. CASE SendMail(q)
      BY <2>0, <3>1 DEF SendMail, Blank
    <3>2. CASE VerifyEmail(q)
      BY <2>0, <3>2 DEF VerifyEmail, Blank
    <3>3. CASE revokeAllUserSessions(q) \/ beginOIDC(q)
      BY <2>0, <3>3 DEF revokeAllUserSessions, beginOIDC, Blank
    <3> QED BY <2>4, <3>1, <3>2, <3>3
  <2>5. ASSUME NEW purpose, AskForToken(q, purpose)
        PROVE  Own(q)' /\ identity' = identity
    BY <2>0, <2>5 DEF AskForToken, Blank
  <2>6. ASSUME NEW t, NEW purpose, consumeOneTimeToken(q, t, purpose)
        PROVE  Own(q)' /\ identity' = identity
    BY <2>0, <2>6 DEF consumeOneTimeToken, Blank
  <2>7. ASSUME NEW t, finishOIDC(q, t)
        PROVE  Own(q)' /\ identity' = identity
    <3>1. /\ pc'[q] \in {"refused", "identify"}
          /\ ~local'[q].made /\ ~local'[q].linked
          /\ identity' = identity
      <4>1. identity' = identity /\ pc[q] \in Fresh /\ pc'[q] \in {"refused", "identify"}
        BY <2>0, <2>7 DEF finishOIDC, Returning
      <4>2. ~local[q].made /\ ~local[q].linked
        BY <2>0, <4>1 DEF Blank
      <4>3. \/ local' = local
            \/ \E claims \in Claims :
                   local'[q] = [Blank EXCEPT !.token = t, !.account = none, !.email = claims.email]
        BY <2>0, <2>7 DEF finishOIDC
      <4> QED BY <4>1, <4>2, <4>3 DEF Blank
    <3> QED BY <3>1
  <2>8. ASSUME NEW s, EnableChecks(q, s) \/ VerifyChecks(q, s)
        PROVE  Own(q)' /\ identity' = identity
    <3>1. CASE EnableChecks(q, s)
      <4>1. identity' = identity /\ pc[q] = "new" /\ pc'[q] \in {"refused", "enable"}
        BY <2>0, <3>1 DEF EnableChecks
      <4>2. ~local[q].made /\ ~local[q].linked
        BY <2>0, <4>1 DEF Blank
      <4>3. \/ local' = local
            \/ local'[q] = [Blank EXCEPT !.session = s, !.secret = mfa.pending]
        BY <2>0, <3>1 DEF EnableChecks
      <4>4. ~local'[q].made /\ ~local'[q].linked
        BY <4>2, <4>3 DEF Blank
      <4> QED BY <4>1, <4>4
    <3>2. CASE VerifyChecks(q, s)
      BY <2>0, <3>2 DEF VerifyChecks, Blank
    <3> QED BY <2>8, <3>1, <3>2
  <2>9. CASE FindIdentity(q) \/ FindByEmail(q)
    BY <2>0, <2>9 DEF FindIdentity, FindByEmail, Local
  <2>10. CASE CreateUser(q)
    BY <2>0, <2>10 DEF CreateUser, Local
  <2>11. CASE LinkIdentity(q)
    BY <2>0, <2>11 DEF LinkIdentity, Yielded, Local
  <2>12. CASE UpdateUser(q)
    BY <2>0, <2>12 DEF UpdateUser, Local
  <2>13. CASE RollBack(q)
    BY <2>0, <2>13 DEF RollBack, Local
  <2>14. CASE ResetPassword(q)
    BY <2>0, <2>14 DEF ResetPassword, Local, Blank
  <2>15. CASE AuthMFASetup(q) \/ EnableWrites(q)
    BY <2>0, <2>15 DEF AuthMFASetup, EnableWrites, Overtaken, Local, Blank
  <2> QED BY <1>1, <2>1, <2>2, <2>3, <2>4, <2>5, <2>6, <2>7, <2>8, <2>9, <2>10, <2>11, <2>12,
             <2>13, <2>14, <2>15 DEF Acts
<1>2. ASSUME NEW q \in Requests, Acts(q), NEW p \in Requests, p # q
      PROVE  Own(p)'
  <2>1. Own(p) /\ Same(p)
    BY <1>2, Others DEF PhaseInv
  <2>2. pc[p] \in Fresh => local'[p] = local[p]
    BY <2>1 DEF Same, Fresh
  <2>3. local[p].linked => identity' = identity
    BY <1>1, <1>2 DEF UpdateUser, IdentityInv, PhaseInv
  <2> QED BY <2>1, <2>2, <2>3 DEF Same
<1>3. CASE Quiet
  BY <1>3, QuietSame DEF PhaseInv
<1> QED BY <1>1, <1>2, <1>3, Steps DEF PhaseInv
-----------------------------------------------------------------------------
(* The external login                                                      *)

(* The identity is linked once, by the transaction that holds it.          *)
LEMMA LinkedOnce ==
    ASSUME TypeInv, PhaseInv, NEW q \in Requests, Acts(q)
    PROVE  /\ identity # none => identity' = identity
           /\ identity' # identity =>
                 UpdateUser(q) /\ local[q].linked /\ identity' = local[q].account
<1>1. identity' = identity \/ UpdateUser(q)
  BY DEF Acts, AuthRegisterEmail, LoginRead, LoginFails, LoginClears, createBrowserSession,
     AskForToken, DeleteTokens, InsertToken, SendMail, consumeOneTimeToken, VerifyEmail,
     ResetPassword, revokeAllUserSessions, AuthMFASetup, EnableChecks, VerifyChecks,
     EnableWrites, MarkSession, beginOIDC, finishOIDC, FindIdentity, FindByEmail, CreateUser,
     LinkIdentity, RollBack, oidc
<1>2. CASE UpdateUser(q)
  BY <1>2 DEF UpdateUser, PhaseInv
<1> QED BY <1>1, <1>2

(* A session that is opened is the request's own, and no other step gives  *)
(* one an account, a password or life.                                     *)
LEMMA Opened ==
    ASSUME TypeInv, NEW q \in Requests, Acts(q)
    PROVE  \/ /\ DOMAIN sessions' = DOMAIN sessions
              /\ \A s \in DOMAIN sessions :
                    /\ sessions'[s].account = sessions[s].account
                    /\ sessions'[s].password = sessions[s].password
                    /\ sessions'[s].live => sessions[s].live
           \/ /\ pc[q] = "open" /\ pc'[q] = "done" /\ local' = local
              /\ DOMAIN sessions' = DOMAIN sessions \cup {q}
              /\ sessions'[q].account = local[q].account
              /\ sessions'[q].password = local[q].password
              /\ \A s \in DOMAIN sessions : s # q => sessions'[s] = sessions[s]
              /\ UNCHANGED <<user, identity>>
<1>1. CASE createBrowserSession(q)
  <2> DEFINE row == [account |-> local[q].account, password |-> local[q].password,
                     live |-> TRUE, mfa |-> FALSE]
  <2>1. sessions' = sessions \/ (sessions' = Add(sessions, q, row) /\ Goto(q, "done"))
    BY <1>1 DEF createBrowserSession
  <2>2. /\ DOMAIN Add(sessions, q, row) = DOMAIN sessions \cup {q}
        /\ Add(sessions, q, row)[q] = row
        /\ \A s \in DOMAIN sessions : s # q => Add(sessions, q, row)[s] = sessions[s]
    BY DEF Add
  <2>3. pc[q] = "open" /\ UNCHANGED <<local, user, identity>>
    BY <1>1 DEF createBrowserSession, oidc
  <2>4. CASE sessions' = sessions
    BY <2>4
  <2>5. CASE sessions' = Add(sessions, q, row) /\ Goto(q, "done")
    <3>1. pc'[q] = "done"
      BY <2>5 DEF Goto, TypeInv
    <3>2. row.account = local[q].account /\ row.password = local[q].password
      OBVIOUS
    <3> HIDE DEF row
    <3> QED BY <2>2, <2>3, <2>5, <3>1, <3>2
  <2> QED BY <2>1, <2>4, <2>5
<1>2. CASE revokeAllUserSessions(q)
  <2>1. sessions' = sessions \/ RevokedAll
    BY <1>2 DEF revokeAllUserSessions
  <2>2. CASE RevokedAll
    BY <2>2 DEF RevokedAll, TypeInv, Session
  <2> QED BY <2>1, <2>2
<1>3. CASE MarkSession(q)
  <2>1. sessions' = sessions \/ \E s, b : sessions' = [sessions EXCEPT ![s].mfa = b]
    BY <1>3 DEF MarkSession
  <2>2. ASSUME NEW s, NEW b, sessions' = [sessions EXCEPT ![s].mfa = b]
        PROVE  /\ DOMAIN sessions' = DOMAIN sessions
               /\ \A x \in DOMAIN sessions : /\ sessions'[x].account = sessions[x].account
                                             /\ sessions'[x].password = sessions[x].password
                                             /\ sessions'[x].live => sessions[x].live
    BY <2>2 DEF TypeInv, Session
  <2> QED BY <2>1, <2>2
<1>4. CASE ~(createBrowserSession(q) \/ revokeAllUserSessions(q) \/ MarkSession(q))
  <2>1. sessions' = sessions
    BY <1>4 DEF Acts, AuthRegisterEmail, LoginRead, LoginFails, LoginClears,
       AskForToken, DeleteTokens, InsertToken, SendMail, consumeOneTimeToken, VerifyEmail,
       ResetPassword, AuthMFASetup, EnableChecks, VerifyChecks, EnableWrites, beginOIDC,
       finishOIDC, FindIdentity, FindByEmail, CreateUser, LinkIdentity, UpdateUser, RollBack
  <2> QED BY <2>1
<1> QED BY <1>1, <1>2, <1>3, <1>4

(* A request that has opened a session does nothing any more.              *)
LEMMA DoneIsOver ==
    ASSUME NEW q \in Requests, Acts(q)
    PROVE  pc[q] \notin {"done", "refused", "unrevoked"}
BY DEF Acts, AuthRegisterEmail, LoginRead, LoginFails, LoginClears, createBrowserSession,
   AskForToken, DeleteTokens, InsertToken, SendMail, consumeOneTimeToken, VerifyEmail,
   ResetPassword, revokeAllUserSessions, AuthMFASetup, EnableChecks, VerifyChecks,
   EnableWrites, MarkSession, beginOIDC, finishOIDC, Returning, FindIdentity, FindByEmail,
   CreateUser, LinkIdentity, UpdateUser, RollBack, Step

(* The transaction that makes an account is the one that links it.         *)
LEMMA AccountsMade ==
    ASSUME TypeInv, PhaseInv, IdentityInv, NEW q \in Requests, Acts(q)
    PROVE  \A u \in DOMAIN accounts' \ {first} : identity' = u
<1>1. CASE UpdateUser(q)
  <2>1. pc[q] = "update" /\ local[q].made \in BOOLEAN
    BY <1>1 DEF UpdateUser, Step, TypeInv, Local
  <2>2. DOMAIN accounts' = DOMAIN accounts \cup (IF local[q].made THEN {q} ELSE {})
    BY <1>1 DEF UpdateUser, Add
  <2>3. identity' = IF local[q].linked THEN local[q].account ELSE identity
    BY <1>1 DEF UpdateUser
  <2>4. CASE local[q].linked
    <3>1. identity = none /\ DOMAIN accounts \subseteq {first}
      BY <2>4, CredentialsAssumption DEF PhaseInv, IdentityInv, OneAccountPerIdentity, TypeInv,
            Makers
    <3> QED BY <2>1, <2>2, <2>3, <2>4, <3>1 DEF PhaseInv
  <2>5. CASE ~local[q].linked
    <3>1. ~local[q].made
      BY <2>1, <2>5 DEF PhaseInv
    <3> QED BY <2>2, <2>3, <2>5, <3>1 DEF IdentityInv, OneAccountPerIdentity
  <2> QED BY <2>4, <2>5
<1>2. CASE AuthRegisterEmail(q)
  <2>1. DOMAIN accounts' \subseteq DOMAIN accounts \cup {first} /\ identity' = identity
    BY <1>2 DEF AuthRegisterEmail, Add
  <2> QED BY <2>1 DEF IdentityInv, OneAccountPerIdentity
<1>3. CASE ~(UpdateUser(q) \/ AuthRegisterEmail(q))
  <2>1. accounts' = accounts
    BY <1>3 DEF Acts, LoginRead, LoginFails, LoginClears, createBrowserSession,
       AskForToken, DeleteTokens, InsertToken, SendMail, consumeOneTimeToken, VerifyEmail,
       ResetPassword, revokeAllUserSessions, AuthMFASetup, EnableChecks, VerifyChecks,
       EnableWrites, MarkSession, beginOIDC, finishOIDC, FindIdentity, FindByEmail,
       CreateUser, LinkIdentity, RollBack, oidc
  <2>2. identity' = identity
    BY <1>3, LinkedOnce
  <2> QED BY <2>1, <2>2 DEF IdentityInv, OneAccountPerIdentity
<1> QED BY <1>1, <1>2, <1>3
(* Where a request may go from the statement it is at, as far as the       *)
(* external login is concerned.                                            *)
LEMMA TowardsSession ==
    ASSUME TypeInv, NEW q \in Requests, Acts(q)
    PROVE  /\ pc'[q] = "link" => FindByEmail(q) \/ CreateUser(q)
           /\ pc'[q] = "update" => FindIdentity(q) \/ LinkIdentity(q)
           /\ pc'[q] = "open" => LoginClears(q) \/ UpdateUser(q)
<1> USE DEF Goto, Step
<1>0. DOMAIN pc = Requests
  BY DEF TypeInv
<1>1. CASE AuthRegisterEmail(q) \/ LoginRead(q) \/ LoginFails(q) \/ createBrowserSession(q)
  BY <1>0, <1>1 DEF AuthRegisterEmail, LoginRead, LoginFails, createBrowserSession
<1>2. CASE DeleteTokens(q) \/ InsertToken(q) \/ SendMail(q) \/ VerifyEmail(q)
  BY <1>0, <1>2 DEF DeleteTokens, InsertToken, SendMail, VerifyEmail
<1>3. CASE revokeAllUserSessions(q) \/ MarkSession(q) \/ beginOIDC(q) \/ RollBack(q)
  BY <1>0, <1>3 DEF revokeAllUserSessions, MarkSession, beginOIDC, RollBack
<1>4. CASE ResetPassword(q) \/ AuthMFASetup(q) \/ EnableWrites(q)
  BY <1>0, <1>4 DEF ResetPassword, AuthMFASetup, EnableWrites
<1>5. ASSUME NEW x, NEW y, \/ AskForToken(q, x) \/ consumeOneTimeToken(q, x, y) \/ finishOIDC(q, x)
                           \/ EnableChecks(q, x) \/ VerifyChecks(q, x)
      PROVE  pc'[q] \notin {"link", "update", "open"}
  BY <1>0, <1>5 DEF AskForToken, consumeOneTimeToken, finishOIDC, EnableChecks, VerifyChecks
<1>6. CASE FindByEmail(q) \/ CreateUser(q) \/ FindIdentity(q) \/ LinkIdentity(q)
           \/ LoginClears(q) \/ UpdateUser(q)
  BY <1>0, <1>6 DEF FindByEmail, CreateUser, FindIdentity, LinkIdentity, LoginClears, UpdateUser
<1> QED BY <1>1, <1>2, <1>3, <1>4, <1>5, <1>6 DEF Acts

LEMMA IdentityInductive ==
    ASSUME TypeInv, TypeInv', PhaseInv, PhaseInv', IdentityInv, [Next]_vars
    PROVE  IdentityInv'
<1> USE DEF user, oidc, Goto, Step, Keep
<1> DEFINE Way(q)  == /\ pc[q] \in {"link", "update"} => local[q].account # none
                      /\ pc[q] = "update" => local[q].linked \/ identity = local[q].account
                      /\ pc[q] = "open" /\ local[q].token # none =>
                            local[q].account = identity /\ identity # none
           Past(q) == q \in DOMAIN sessions =>
                        /\ pc[q] = "done"
                        /\ local[q].token # none =>
                              identity # none /\ sessions[q].account = identity
<1>1. ASSUME NEW q \in Requests, Acts(q) PROVE Way(q)'
  <2>0. /\ DOMAIN pc = Requests /\ DOMAIN local = Requests /\ local[q] \in Local /\ Way(q)
        /\ identity \in Named
    BY DEF TypeInv, IdentityInv
  <2>1. CASE FindByEmail(q)
    <3>1. Taken => Holder # none
      BY HolderHasIt, CredentialsAssumption DEF TypeInv, Makers
    <3> QED BY <2>0, <2>1, <3>1 DEF FindByEmail, Local
  <2>2. CASE CreateUser(q)
    <3>1. Taken => Holder # none
      BY HolderHasIt, CredentialsAssumption DEF TypeInv, Makers
    <3> QED BY <2>0, <2>2, <3>1, CredentialsAssumption DEF CreateUser, Local
  <2>3. CASE FindIdentity(q)
    BY <2>0, <2>3 DEF FindIdentity, Local
  <2>4. CASE LinkIdentity(q)
    BY <2>0, <2>4 DEF LinkIdentity, Yielded, Local
  <2>5. CASE UpdateUser(q)
    BY <2>0, <2>5 DEF UpdateUser, Local
  <2>6. CASE LoginClears(q)
    BY <2>0, <2>6 DEF LoginClears, PhaseInv
  <2> QED BY <1>1, <2>1, <2>2, <2>3, <2>4, <2>5, <2>6, TowardsSession
<1>2. ASSUME NEW q \in Requests, Acts(q), NEW p \in Requests, p # q PROVE Way(p)'
  <2>1. Way(p) /\ Same(p) /\ local[q].account \in Named
    BY <1>2, Others DEF IdentityInv, TypeInv, Local
  <2>2. CASE identity' = identity
    BY <2>1, <2>2 DEF Same
  <2>3. CASE identity' # identity
    <3>1. local[q].linked /\ identity = none
      BY <1>2, <2>3, LinkedOnce DEF PhaseInv
    <3>2. ~local[p].linked
      BY <1>2, <3>1 DEF IdentityInv
    <3> QED BY <2>1, <3>1, <3>2 DEF Same
  <2> QED BY <2>2, <2>3
<1>3. ASSUME NEW q \in Requests, Acts(q), NEW p \in Requests PROVE Past(p)'
  <2>0. Past(p) /\ Way(p)
    BY DEF IdentityInv, OneAccountPerIdentity
  <2>1. CASE p \notin DOMAIN sessions
    <3>1. SUFFICES ASSUME p \in DOMAIN sessions' PROVE Past(p)'
      OBVIOUS
    <3>2. /\ p = q /\ pc[q] = "open" /\ pc'[q] = "done" /\ UNCHANGED <<local, identity>>
          /\ sessions'[q].account = local[q].account
      <4>1. DOMAIN sessions' # DOMAIN sessions
        BY <2>1, <3>1
      <4> HIDE DEF user
      <4>2. /\ pc[q] = "open" /\ pc'[q] = "done" /\ UNCHANGED <<local, identity>>
            /\ DOMAIN sessions' = DOMAIN sessions \cup {q}
            /\ sessions'[q].account = local[q].account
        BY <1>3, <4>1, Opened
      <4> QED BY <2>1, <3>1, <4>2
    <3> QED BY <2>0, <3>2
  <2>2. CASE p \in DOMAIN sessions
    <3>1. p # q
      BY <1>3, <2>0, <2>2, DoneIsOver
    <3>2. Same(p) /\ sessions'[p].account = sessions[p].account
      BY <1>3, <2>2, <3>1, Others, Opened
    <3> QED BY <1>3, <2>0, <2>2, <3>2, LinkedOnce DEF Same
  <2> QED BY <2>1, <2>2
<1>4. ASSUME NEW q \in Requests, Acts(q), NEW p \in Requests, NEW r \in Requests,
             local'[p].linked, local'[r].linked
      PROVE  p = r
  <2>1. ASSUME NEW x \in Requests, local'[x].linked
        PROVE  local[x].linked \/ (x = q /\ LinkIdentity(q))
    <3>1. CASE x # q
      BY <1>4, <2>1, <3>1, Others DEF Same
    <3>2. CASE x = q
      <4>1. pc'[q] = "update"
        BY <2>1, <3>2 DEF PhaseInv
      <4>2. CASE FindIdentity(q)
        BY <2>1, <3>2, <4>2 DEF FindIdentity, TypeInv, Local
      <4> QED BY <1>4, <3>2, <4>1, <4>2, TowardsSession
    <3> QED BY <3>1, <3>2
  <2> QED BY <1>4, <2>1 DEF LinkIdentity, IdentityInv
<1>5. ASSUME NEW q \in Requests, Acts(q) PROVE IdentityInv'
  <2>1. \A p \in Requests : Way(p)' /\ Past(p)'
    BY <1>1, <1>2, <1>3, <1>5
  <2>2. \A p, r \in Requests : local'[p].linked /\ local'[r].linked => p = r
    BY <1>4, <1>5
  <2>3. \A u \in DOMAIN accounts' \ {first} : identity' = u
    BY <1>5, AccountsMade
  <2> QED BY <2>1, <2>2, <2>3 DEF IdentityInv, OneAccountPerIdentity
<1>6. CASE Quiet
  BY <1>6, QuietSame DEF IdentityInv, OneAccountPerIdentity
<1> QED BY <1>5, <1>6, Steps

(* OneAccountPerIdentity: however first logins with one identity overlap   *)
(* each other and a registration, no account and no session is one that    *)
(* the identity does not lead to.                                          *)
THEOREM IdentityLeadsToOneAccount == Spec => []OneAccountPerIdentity
<1>1. Init => PhaseInv /\ IdentityInv
  BY CredentialsAssumption DEF Init, PhaseInv, IdentityInv, OneAccountPerIdentity, Blank, Fresh
<1>2. TypeInv /\ TypeInv' /\ PhaseInv /\ IdentityInv /\ [Next]_vars => PhaseInv' /\ IdentityInv'
  BY PhaseInductive, IdentityInductive
<1>3. IdentityInv => OneAccountPerIdentity
  BY DEF IdentityInv
<1> QED BY <1>1, <1>2, <1>3, CredentialTypes, PTL DEF Spec
-----------------------------------------------------------------------------
(* One-time tokens                                                         *)

Waiting == {"new", "resend", "resend2", "forgot", "forgot2"}

(* A token stays what it is for and, once used, used.                      *)
Preserved == \A t \in DOMAIN tokens :
    /\ t \in DOMAIN tokens' /\ tokens'[t].purpose = tokens[t].purpose
    /\ tokens[t].state = "consumed" => tokens'[t].state = "consumed"

LEMMA AddPreserves ==
    ASSUME NEW x, NEW v, x \notin DOMAIN tokens, tokens' = Add(tokens, x, v)
    PROVE  Preserved /\ DOMAIN tokens' = DOMAIN tokens \cup {x}
BY DEF Add, Preserved

LEMMA TokensChange ==
    ASSUME TypeInv, TokenInv, NEW q \in Requests, Acts(q)
    PROVE  /\ Preserved
           /\ mailed' \subseteq DOMAIN tokens'
           /\ first \in DOMAIN tokens' => Registered' /\ accounts'[first]
           /\ \A p \in Requests : p \in DOMAIN tokens' =>
                 p \in DOMAIN tokens \/ (p = q /\ pc'[q] \notin Waiting)
           /\ pc'[q] = "send" => q \in DOMAIN tokens'
<1> USE CredentialsAssumption DEF user, oidc, Goto, Step
<1>0. /\ DOMAIN pc = Requests /\ mailed \subseteq DOMAIN tokens
      /\ first \in DOMAIN tokens => first \in DOMAIN accounts /\ accounts[first]
      /\ q \in DOMAIN tokens => pc[q] \notin Waiting
      /\ pc[q] = "send" => q \in DOMAIN tokens
      /\ tokens \in [DOMAIN tokens -> Token]
  BY DEF TypeInv, TokenInv, Waiting, Registered
<1>a. ASSUME NEW x \in {first, q}, NEW v, tokens' = Add(tokens, x, v), x \notin DOMAIN tokens,
             x = q => pc'[q] \notin Waiting /\ accounts' = accounts,
             x = first => first \in DOMAIN accounts' /\ accounts'[first] /\ pc'[q] # "send",
             mailed' \subseteq mailed \cup {x}
      PROVE  /\ Preserved
             /\ mailed' \subseteq DOMAIN tokens'
             /\ first \in DOMAIN tokens' => Registered' /\ accounts'[first]
             /\ \A p \in Requests : p \in DOMAIN tokens' =>
                   p \in DOMAIN tokens \/ (p = q /\ pc'[q] \notin Waiting)
             /\ pc'[q] = "send" => q \in DOMAIN tokens'
  <2>1. Preserved /\ DOMAIN tokens' = DOMAIN tokens \cup {x}
    BY <1>a, AddPreserves
  <2>2. x = first => x # q
    OBVIOUS
  <2> QED BY <1>0, <1>a, <2>1, <2>2 DEF Registered
<1>b. ASSUME DOMAIN tokens' = DOMAIN tokens, Preserved,
             mailed' \subseteq mailed \cup (IF pc[q] = "send" THEN {q} ELSE {}),
             first \in DOMAIN accounts /\ accounts[first] =>
                 first \in DOMAIN accounts' /\ accounts'[first],
             pc'[q] # "send"
      PROVE  /\ mailed' \subseteq DOMAIN tokens'
             /\ first \in DOMAIN tokens' => Registered' /\ accounts'[first]
             /\ \A p \in Requests : p \in DOMAIN tokens' =>
                   p \in DOMAIN tokens \/ (p = q /\ pc'[q] \notin Waiting)
             /\ pc'[q] = "send" => q \in DOMAIN tokens'
  BY <1>0, <1>b DEF Registered
<1>c. ASSUME tokens' = tokens PROVE Preserved /\ DOMAIN tokens' = DOMAIN tokens
  BY <1>c DEF Preserved
<1>d. ASSUME NEW t, tokens' = [tokens EXCEPT ![t].state = "consumed"]
      PROVE  Preserved /\ DOMAIN tokens' = DOMAIN tokens
  BY <1>0, <1>d DEF Preserved, Token
<1>1. CASE AuthRegisterEmail(q)
  <2>1. CASE tokens' = tokens /\ accounts' = accounts /\ mailed' = mailed /\ Goto(q, "refused")
    BY <1>0, <1>b, <1>c, <2>1
  <2>2. CASE /\ ~Taken /\ accounts' = Add(accounts, first, TRUE)
             /\ tokens' = Add(tokens, first, [purpose |-> "verify_email", state |-> "live"])
             /\ mailed' \in {mailed, mailed \cup {first}} /\ Goto(q, "done")
    <3>1. first \notin DOMAIN tokens
      BY <1>0, <2>2 DEF Taken
    <3>2. first \in DOMAIN accounts' /\ accounts'[first]
      BY <2>2 DEF Add
    <3>3. pc'[q] # "send" /\ mailed' \subseteq mailed \cup {first} /\ first # q
      BY <1>0, <2>2
    <3> HIDE DEF Goto
    <3> QED BY <1>a, <2>2, <3>1, <3>2, <3>3
  <2> QED BY <1>1, <2>1, <2>2 DEF AuthRegisterEmail
<1>2. CASE InsertToken(q)
  <2>1. CASE tokens' = tokens /\ Goto(q, "refused")
    BY <1>0, <1>2, <1>b, <1>c, <2>1 DEF InsertToken
  <2>2. CASE /\ tokens' = Add(tokens, q, [purpose |-> PurposeAt(pc[q]), state |-> "live"])
             /\ Goto(q, "send")
    <3>1. q \notin DOMAIN tokens /\ pc'[q] = "send" /\ UNCHANGED <<accounts, mailed>> /\ q # first
      BY <1>0, <1>2, <2>2 DEF InsertToken, Waiting
    <3> QED BY <1>a, <2>2, <3>1 DEF Waiting
  <2> QED BY <1>2, <2>1, <2>2 DEF InsertToken
<1>3. CASE beginOIDC(q)
  <2>1. CASE tokens' = tokens /\ Goto(q, "refused")
    BY <1>0, <1>3, <1>b, <1>c, <2>1 DEF beginOIDC
  <2>2. CASE /\ tokens' = Add(tokens, q, [purpose |-> "oauth_state", state |-> "live"])
             /\ Goto(q, "away")
    <3>1. q \notin DOMAIN tokens /\ pc'[q] = "away" /\ UNCHANGED <<accounts, mailed>> /\ q # first
      BY <1>0, <1>3, <2>2 DEF beginOIDC, Waiting
    <3> QED BY <1>a, <2>2, <3>1 DEF Waiting
  <2> QED BY <1>3, <2>1, <2>2 DEF beginOIDC
<1>4. CASE DeleteTokens(q)
  <2>1. Preserved /\ DOMAIN tokens' = DOMAIN tokens
    <3>1. \/ tokens' = tokens
          \/ tokens' = [t \in DOMAIN tokens |->
                  IF tokens[t].purpose = PurposeAt(pc[q]) /\ tokens[t].state # "consumed"
                    THEN [tokens[t] EXCEPT !.state = "deleted"] ELSE tokens[t]]
      BY <1>4 DEF DeleteTokens
    <3> QED BY <1>0, <1>c, <3>1 DEF Preserved, Token
  <2> QED BY <1>0, <1>4, <1>b, <2>1 DEF DeleteTokens
<1>5. ASSUME NEW t, NEW purpose, consumeOneTimeToken(q, t, purpose) \/ finishOIDC(q, t)
      PROVE  /\ Preserved /\ DOMAIN tokens' = DOMAIN tokens /\ UNCHANGED <<mailed, accounts>>
             /\ pc'[q] # "send"
  <2>1. tokens' = tokens \/ tokens' = [tokens EXCEPT ![t].state = "consumed"]
    BY <1>5 DEF consumeOneTimeToken, finishOIDC
  <2>2. Preserved /\ DOMAIN tokens' = DOMAIN tokens
    BY <1>c, <1>d, <2>1
  <2>3. pc'[q] # "send" /\ UNCHANGED <<mailed, accounts>>
    BY <1>0, <1>5 DEF consumeOneTimeToken, finishOIDC
  <2> QED BY <2>2, <2>3
<1>6. CASE UpdateUser(q)
  <2>1. tokens' = tokens /\ mailed' = mailed /\ pc'[q] # "send"
    BY <1>0, <1>6 DEF UpdateUser
  <2>2. first \in DOMAIN accounts /\ accounts[first] =>
            first \in DOMAIN accounts' /\ accounts'[first]
    BY <1>6 DEF UpdateUser, Add
  <2> QED BY <1>0, <1>b, <1>c, <2>1, <2>2
<1>7. CASE SendMail(q)
  BY <1>0, <1>7, <1>b, <1>c DEF SendMail
<1>8. CASE LoginRead(q) \/ LoginFails(q) \/ LoginClears(q) \/ createBrowserSession(q)
           \/ VerifyEmail(q) \/ ResetPassword(q) \/ revokeAllUserSessions(q)
  <2>1. tokens' = tokens /\ mailed' = mailed /\ accounts' = accounts /\ pc'[q] # "send"
    BY <1>0, <1>8 DEF LoginRead, LoginFails, LoginClears, createBrowserSession, VerifyEmail,
          ResetPassword, revokeAllUserSessions
  <2> QED BY <1>b, <1>c, <2>1
<1>9. CASE AuthMFASetup(q) \/ EnableWrites(q) \/ MarkSession(q) \/ FindIdentity(q)
           \/ FindByEmail(q) \/ CreateUser(q) \/ LinkIdentity(q) \/ RollBack(q)
  <2>1. tokens' = tokens /\ mailed' = mailed /\ accounts' = accounts /\ pc'[q] # "send"
    BY <1>0, <1>9 DEF AuthMFASetup, EnableWrites, MarkSession, FindIdentity, FindByEmail,
          CreateUser, LinkIdentity, RollBack
  <2> QED BY <1>b, <1>c, <2>1
<1>10. ASSUME NEW x, AskForToken(q, x) \/ EnableChecks(q, x) \/ VerifyChecks(q, x)
       PROVE  tokens' = tokens /\ mailed' = mailed /\ accounts' = accounts /\ pc'[q] # "send"
  BY <1>0, <1>10 DEF AskForToken, EnableChecks, VerifyChecks
<1>11. CASE \/ \E purpose \in Purposes : AskForToken(q, purpose)
            \/ \E s \in DOMAIN sessions : EnableChecks(q, s) \/ VerifyChecks(q, s)
  BY <1>b, <1>c, <1>10, <1>11
<1>12. CASE \/ \E t \in mailed, purpose \in Purposes : consumeOneTimeToken(q, t, purpose)
            \/ \E t \in DOMAIN tokens : finishOIDC(q, t)
  BY <1>b, <1>5, <1>12
<1> QED BY <1>1, <1>2, <1>3, <1>4, <1>6, <1>7, <1>8, <1>9, <1>11, <1>12 DEF Acts
(* A request gets through with one token, which was not used before, and   *)
(* goes on with what that token is for.                                    *)
LEMMA OwnToken ==
    ASSUME TypeInv, PhaseInv, TokenInv, NEW q \in Requests, Acts(q)
    PROVE  /\ \/ local'[q].token = local[q].token
              \/ /\ local[q].token = none /\ local'[q].token \in DOMAIN tokens
                 /\ tokens[local'[q].token].state = "live"
                 /\ tokens'[local'[q].token].state = "consumed"
           /\ pc'[q] \in Waiting => pc[q] \in Waiting
           /\ pc'[q] = "reset" => /\ local'[q].token \in mailed
                                  /\ tokens[local'[q].token].purpose = "reset_password"
           /\ pc'[q] = "verify" => /\ local'[q].token \in mailed
                                   /\ tokens[local'[q].token].purpose = "verify_email"
<1> USE DEF Goto, Step, Keep
<1>0. /\ DOMAIN pc = Requests /\ DOMAIN local = Requests /\ local[q] \in Local
      /\ pc[q] \in Fresh => local[q] = Blank
      /\ Blank \in Local /\ Blank.token = none
  BY BlankType DEF TypeInv, PhaseInv, Blank
<1>1. CASE AuthRegisterEmail(q) \/ LoginFails(q) \/ LoginClears(q) \/ createBrowserSession(q)
  BY <1>0, <1>1 DEF AuthRegisterEmail, LoginFails, LoginClears, createBrowserSession, Waiting
<1>2. CASE LoginRead(q)
  BY <1>0, <1>2 DEF LoginRead, Waiting, Fresh, Blank
<1>3. CASE DeleteTokens(q) \/ InsertToken(q) \/ SendMail(q) \/ VerifyEmail(q)
  BY <1>0, <1>3 DEF DeleteTokens, InsertToken, SendMail, VerifyEmail, Waiting
<1>4. CASE revokeAllUserSessions(q) \/ MarkSession(q) \/ beginOIDC(q)
  BY <1>0, <1>4 DEF revokeAllUserSessions, MarkSession, beginOIDC, Waiting
<1>5. CASE ResetPassword(q) \/ AuthMFASetup(q) \/ EnableWrites(q)
  <2>1. local'[q].token = local[q].token
    <3>1. CASE ResetPassword(q)
      BY <1>0, <3>1 DEF ResetPassword, Local
    <3>2. CASE AuthMFASetup(q) \/ EnableWrites(q)
      BY <1>0, <3>2 DEF AuthMFASetup, EnableWrites, Overtaken, Local
    <3> QED BY <1>5, <3>1, <3>2
  <2>2. pc'[q] \notin {"reset", "verify"} \cup Waiting
    BY <1>0, <1>5 DEF ResetPassword, AuthMFASetup, EnableWrites, Waiting
  <2> QED BY <2>1, <2>2
<1>6. ASSUME NEW purpose, AskForToken(q, purpose)
      PROVE  /\ local'[q].token = local[q].token /\ pc[q] \in Waiting
             /\ pc'[q] \notin {"reset", "verify"}
  BY <1>0, <1>6 DEF AskForToken, Waiting
<1>7. ASSUME NEW t \in mailed, NEW purpose \in Purposes, consumeOneTimeToken(q, t, purpose)
      PROVE  /\ \/ local'[q].token = local[q].token
                \/ /\ local[q].token = none /\ local'[q].token = t
                   /\ tokens[t].state = "live"
                   /\ tokens'[t].state = "consumed"
             /\ pc[q] \in Waiting
             /\ pc'[q] = "reset" => /\ local'[q].token = t
                                    /\ tokens[t].purpose = "reset_password"
             /\ pc'[q] = "verify" => /\ local'[q].token = t
                                     /\ tokens[t].purpose = "verify_email"
  <2>1. pc[q] = "new" /\ local[q] = Blank
    BY <1>0, <1>7 DEF consumeOneTimeToken, Fresh
  <2>2. CASE Usable(t, purpose)
    <3>1. /\ tokens' = [tokens EXCEPT ![t].state = "consumed"]
          /\ local' = [local EXCEPT ![q] = [Blank EXCEPT !.token = t]]
          /\ Goto(q, IF purpose = "verify_email" THEN "verify" ELSE "reset") \/ Goto(q, "refused")
      BY <1>7, <2>2 DEF consumeOneTimeToken
    <3>2. t \in DOMAIN tokens /\ tokens[t] \in Token
      BY DEF TokenInv, TypeInv
    <3>3. tokens'[t].state = "consumed"
      BY <3>1, <3>2 DEF Token
    <3>4. local'[q].token = t
      BY <1>0, <3>1 DEF Blank
    <3>5. /\ pc'[q] = "reset" => purpose = "reset_password"
          /\ pc'[q] = "verify" => purpose = "verify_email"
      BY <1>0, <3>1 DEF Purposes
    <3> QED BY <1>0, <2>1, <2>2, <3>3, <3>4, <3>5 DEF Usable, Waiting
  <2>3. CASE ~Usable(t, purpose)
    BY <1>0, <1>7, <2>1, <2>3 DEF consumeOneTimeToken, Waiting
  <2> QED BY <2>2, <2>3
<1>8. ASSUME NEW t \in DOMAIN tokens, finishOIDC(q, t)
      PROVE  /\ \/ local'[q].token = local[q].token
                \/ /\ local[q].token = none /\ local'[q].token = t
                   /\ tokens[t].state = "live"
                   /\ tokens'[t].state = "consumed"
             /\ pc'[q] \notin {"reset", "verify"} \cup Waiting
  <2>1. local[q] = Blank
    BY <1>0, <1>8 DEF finishOIDC, Returning, Fresh
  <2>2. pc'[q] \notin {"reset", "verify"} \cup Waiting
    BY <1>0, <1>8 DEF finishOIDC, Waiting
  <2>3. CASE local' = local
    BY <2>2, <2>3
  <2>4. CASE local' # local
    <3>1. /\ Usable(t, "oauth_state")
          /\ tokens' = [tokens EXCEPT ![t].state = "consumed"]
          /\ \E claims \in Claims : local' = [local EXCEPT ![q] =
                [Blank EXCEPT !.token = t, !.account = none, !.email = claims.email]]
      BY <1>8, <2>4 DEF finishOIDC
    <3>2. tokens[t] \in Token
      BY DEF TypeInv
    <3>3. tokens'[t].state = "consumed"
      BY <3>1, <3>2 DEF Token
    <3>4. local'[q].token = t
      BY <1>0, <3>1 DEF Blank
    <3> QED BY <1>0, <2>1, <2>2, <3>1, <3>3, <3>4 DEF Usable
  <2> QED BY <2>3, <2>4
<1>9. ASSUME NEW s, EnableChecks(q, s) \/ VerifyChecks(q, s)
      PROVE  /\ local'[q].token = local[q].token /\ pc'[q] \notin {"reset", "verify"} \cup Waiting
  <2>1. CASE EnableChecks(q, s)
    BY <1>0, <2>1 DEF EnableChecks, Waiting, Fresh, Blank
  <2>2. CASE VerifyChecks(q, s)
    BY <1>0, <2>2 DEF VerifyChecks, Waiting, Fresh, Blank
  <2> QED BY <1>9, <2>1, <2>2
<1>10. CASE FindIdentity(q) \/ FindByEmail(q) \/ RollBack(q)
  <2>1. CASE FindIdentity(q)
    BY <1>0, <2>1 DEF FindIdentity, Waiting, Local
  <2>2. CASE FindByEmail(q)
    BY <1>0, <2>2 DEF FindByEmail, Waiting, Local
  <2>3. CASE RollBack(q)
    BY <1>0, <2>3 DEF RollBack, Waiting, Local
  <2> QED BY <1>10, <2>1, <2>2, <2>3
<1>11. CASE CreateUser(q) \/ LinkIdentity(q)
  <2>1. \/ local'[q] = local[q]
        \/ local'[q] = [local[q] EXCEPT !.account = Holder]
        \/ local'[q] = [local[q] EXCEPT !.account = q, !.made = TRUE]
        \/ local'[q] = [local[q] EXCEPT !.account = identity, !.made = FALSE]
        \/ local'[q] = [local[q] EXCEPT !.linked = TRUE]
    <3>1. CASE CreateUser(q)
      BY <1>0, <3>1 DEF CreateUser
    <3>2. CASE LinkIdentity(q)
      BY <1>0, <3>2 DEF LinkIdentity, Yielded
    <3> QED BY <1>11, <3>1, <3>2
  <2>2. local'[q].token = local[q].token
    BY <1>0, <2>1 DEF Local
  <2> QED BY <1>0, <1>11, <2>2 DEF CreateUser, LinkIdentity, Waiting
<1>12. CASE UpdateUser(q)
  BY <1>0, <1>12 DEF UpdateUser, Waiting, Local
<1>13. mailed \subseteq DOMAIN tokens
  BY DEF TokenInv
<1>14. CASE \E t \in mailed, purpose \in Purposes : consumeOneTimeToken(q, t, purpose)
  BY <1>7, <1>13, <1>14
<1>15. CASE \E t \in DOMAIN tokens : finishOIDC(q, t)
  BY <1>8, <1>15
<1>16. CASE \/ \E purpose \in Purposes : AskForToken(q, purpose)
            \/ \E s \in DOMAIN sessions : EnableChecks(q, s) \/ VerifyChecks(q, s)
  BY <1>6, <1>9, <1>16
<1> QED BY <1>1, <1>2, <1>3, <1>4, <1>5, <1>10, <1>11, <1>12, <1>14, <1>15, <1>16 DEF Acts

(* The password and the verification of the address change by a request    *)
(* that has come with a token, or by the external login.                   *)
LEMMA ProvedFirst ==
    ASSUME TypeInv, NEW q \in Requests, Acts(q)
    PROVE  /\ password' = password \/ (password' = q /\ pc[q] = "reset" /\ ResetPassword(q))
           /\ verified' = verified \/ pc[q] = "verify"
                 \/ (UpdateUser(q) /\ (~verified' \/ verified \/ local[q].account = first))
<1>1. CASE ResetPassword(q)
  BY <1>1 DEF ResetPassword
<1>2. CASE VerifyEmail(q)
  BY <1>2 DEF VerifyEmail
<1>3. CASE UpdateUser(q)
  BY <1>3 DEF UpdateUser
<1>4. CASE ~(ResetPassword(q) \/ VerifyEmail(q) \/ UpdateUser(q))
  BY <1>4 DEF Acts, AuthRegisterEmail, LoginRead, LoginFails, LoginClears,
     createBrowserSession, AskForToken, DeleteTokens, InsertToken, SendMail,
     consumeOneTimeToken, revokeAllUserSessions, AuthMFASetup, EnableChecks, VerifyChecks,
     EnableWrites, MarkSession, beginOIDC, finishOIDC, FindIdentity, FindByEmail, CreateUser,
     LinkIdentity, RollBack, user
<1> QED BY <1>1, <1>2, <1>3, <1>4
LEMMA TokenInductive ==
    ASSUME TypeInv, TypeInv', PhaseInv, IdentityInv, IdentityInv', TokenInv, [Next]_vars
    PROVE  TokenInv'
<1> DEFINE A(p) == p \in DOMAIN tokens => pc[p] \notin Waiting
           B(p) == pc[p] = "send" => p \in DOMAIN tokens
           C(p) == local[p].token # none => /\ local[p].token \in DOMAIN tokens
                                            /\ tokens[local[p].token].state = "consumed"
           D(p) == pc[p] = "reset" \/ password = p =>
                      /\ local[p].token # none
                      /\ tokens[local[p].token].purpose = "reset_password"
           E(p) == pc[p] = "verify" =>
                      /\ local[p].token # none
                      /\ tokens[local[p].token].purpose = "verify_email"
           Proof == \E p \in Requests : /\ local[p].token # none
                                        /\ tokens[local[p].token].purpose = "verify_email"
<1>1. ASSUME NEW q \in Requests, Acts(q) PROVE TokenInv'
  <2>0. \A p \in Requests : A(p) /\ B(p) /\ C(p) /\ D(p) /\ E(p)
    BY DEF TokenInv, Waiting
  <2>a. /\ Preserved /\ mailed' \subseteq DOMAIN tokens'
        /\ first \in DOMAIN tokens' => Registered' /\ accounts'[first]
        /\ \A p \in Requests : p \in DOMAIN tokens' =>
              p \in DOMAIN tokens \/ (p = q /\ pc'[q] \notin Waiting)
        /\ pc'[q] = "send" => q \in DOMAIN tokens'
    BY <1>1, TokensChange
  <2>b. /\ \/ local'[q].token = local[q].token
           \/ /\ local[q].token = none /\ local'[q].token \in DOMAIN tokens
              /\ tokens[local'[q].token].state = "live"
              /\ tokens'[local'[q].token].state = "consumed"
        /\ pc'[q] \in Waiting => pc[q] \in Waiting
        /\ pc'[q] = "reset" => /\ local'[q].token \in mailed
                               /\ tokens[local'[q].token].purpose = "reset_password"
        /\ pc'[q] = "verify" => /\ local'[q].token \in mailed
                                /\ tokens[local'[q].token].purpose = "verify_email"
    BY <1>1, OwnToken
  <2>c. \A p \in Requests : p # q => Same(p)
    BY <1>1, Others
  <2>d. /\ password' = password \/ (password' = q /\ pc[q] = "reset" /\ ResetPassword(q))
        /\ verified' = verified \/ pc[q] = "verify"
              \/ (UpdateUser(q) /\ (~verified' \/ verified \/ local[q].account = first))
    BY <1>1, ProvedFirst
  <2>e. mailed \subseteq DOMAIN tokens /\ none \notin DOMAIN tokens
    BY CredentialsAssumption DEF TokenInv, TypeInv, Makers
  <2>f. \A p \in Requests : local[p].token # none => local'[p].token = local[p].token
    BY <2>b, <2>c DEF Same
  <2>1. \A p \in Requests : A(p)'
    BY <2>0, <2>a, <2>b, <2>c DEF Same
  <2>2. \A p \in Requests : B(p)'
    BY <2>0, <2>a, <2>c DEF Same, Preserved
  <2>3. \A p \in Requests : C(p)'
    <3>1. C(q)'
      BY <2>0, <2>a, <2>b DEF Preserved
    <3>2. ASSUME NEW p \in Requests, p # q PROVE C(p)'
      BY <2>0, <2>a, <2>c, <3>2 DEF Preserved, Same
    <3> QED BY <3>1, <3>2
  <2>4. \A p \in Requests : D(p)'
    <3>1. ASSUME NEW p \in Requests, pc[p] = "reset" \/ password = p PROVE D(p)'
      BY <2>0, <2>a, <2>f, <3>1 DEF Preserved
    <3>2. ASSUME NEW p \in Requests, pc[p] # "reset", password # p PROVE D(p)'
      <4>1. password' # p
        BY <2>d, <3>2
      <4>2. pc'[p] = "reset" => p = q
        BY <2>c, <3>2 DEF Same
      <4> QED BY <2>a, <2>b, <2>e, <4>1, <4>2 DEF Preserved
    <3> QED BY <3>1, <3>2
  <2>5. \A p \in Requests : E(p)'
    <3>1. ASSUME NEW p \in Requests, pc[p] = "verify" PROVE E(p)'
      BY <2>0, <2>a, <2>f, <3>1 DEF Preserved
    <3>2. ASSUME NEW p \in Requests, pc[p] # "verify" PROVE E(p)'
      <4>1. pc'[p] = "verify" => p = q
        BY <2>c, <3>2 DEF Same
      <4> QED BY <2>a, <2>b, <2>e, <4>1 DEF Preserved
    <3> QED BY <3>1, <3>2
  <2>6. ASSUME NEW p \in Requests, NEW r \in Requests, p # r, local'[p].token # none
        PROVE  local'[p].token # local'[r].token
    <3>1. \A x \in Requests : x # q => local'[x].token = local[x].token
      BY <2>c DEF Same
    <3> QED BY <2>0, <2>b, <2>6, <3>1 DEF TokenInv, TokenWorksOnce
  <2>7. password' # first => tokens'[local'[password'].token].purpose = "reset_password"
    <3>1. password' \in Requests \cup {first}
      BY DEF TypeInv, Makers
    <3> QED BY <2>4, <3>1
  <2>8. verified' /\ first \notin DOMAIN sessions' /\ identity' # first => Proof'
    <3>1. Proof => Proof'
      BY <2>0, <2>a, <2>f DEF Preserved
    <3>2. first \notin DOMAIN sessions' => first \notin DOMAIN sessions
      BY <1>1, Opened
    <3>3. identity' # first => identity # first
      BY <1>1, LinkedOnce, CredentialsAssumption
    <3>4. CASE verified
      BY <3>1, <3>2, <3>3, <3>4 DEF TokenInv, TokenWorksOnce
    <3>5. CASE pc[q] = "verify"
      BY <2>0, <3>1, <3>5
    <3>6. CASE UpdateUser(q) /\ local[q].account = first
      BY <3>6 DEF UpdateUser, Step, IdentityInv
    <3> QED BY <2>d, <3>4, <3>5, <3>6
  <2> HIDE DEF A, B, C, D, E, Proof
  <2>9. TokenWorksOnce'
    BY <2>6, <2>7, <2>8 DEF TokenWorksOnce, Proof
  <2>10. \A p \in Requests : /\ p \in DOMAIN tokens' => pc'[p] \notin Waiting
                             /\ pc'[p] = "send" => p \in DOMAIN tokens'
    BY <2>1, <2>2 DEF A, B
  <2>11. \A p \in Requests : C(p)' /\ D(p)' /\ E(p)'
    BY <2>3, <2>4, <2>5
  <2> QED BY <2>9, <2>10, <2>11, <2>a DEF TokenInv, Waiting, C, D, E
<1>2. CASE Quiet
  <2>0. \A p \in Requests : A(p) /\ B(p) /\ C(p) /\ D(p) /\ E(p)
    BY DEF TokenInv, Waiting
  <2>1. /\ UNCHANGED <<pc, local, password, verified, mfa, mailed, sessions, accounts,
                       identity, cookie>>
        /\ DOMAIN tokens' = DOMAIN tokens
        /\ \A t \in DOMAIN tokens : /\ tokens'[t].purpose = tokens[t].purpose
                                    /\ tokens[t].state # "live" => tokens'[t] = tokens[t]
    BY <1>2, QuietSame
  <2>2. \A p \in Requests : A(p)' /\ B(p)'
    BY <2>0, <2>1
  <2>3. \A p \in Requests : C(p)'
    BY <2>0, <2>1
  <2>4. \A p \in Requests : D(p)' /\ E(p)'
    BY <2>0, <2>1
  <2>5. TokenWorksOnce'
    <3>1. password # first => tokens'[local[password].token].purpose = "reset_password"
      <4>1. password # first => password \in Requests
        BY DEF TypeInv, Makers
      <4> QED BY <2>1, <2>4, <4>1
    <3>2. Proof => Proof'
      BY <2>0, <2>1
    <3> HIDE DEF A, B, C, D, E
    <3> QED BY <2>1, <3>1, <3>2 DEF TokenInv, TokenWorksOnce
  <2>6. mailed' \subseteq DOMAIN tokens' /\ (first \in DOMAIN tokens' => Registered' /\ accounts'[first])
    BY <2>1 DEF TokenInv, Registered
  <2>7. \A p \in Requests : /\ p \in DOMAIN tokens' => pc'[p] \notin Waiting
                            /\ pc'[p] = "send" => p \in DOMAIN tokens'
    BY <2>2
  <2> QED BY <2>3, <2>4, <2>5, <2>6, <2>7 DEF TokenInv, Waiting
<1> QED BY <1>1, <1>2, Steps

(* TokenWorksOnce: of all requests that come with a one-time token or an   *)
(* OAuth state one at most gets through with it, a password is set by a    *)
(* request with a token for that purpose, and an account is verified by    *)
(* one, or by an external login that is linked to it.                      *)
THEOREM TokensWorkOnce == Spec => []TokenWorksOnce
<1>1. Init => PhaseInv /\ IdentityInv /\ TokenInv
  <2> SUFFICES ASSUME Init PROVE PhaseInv /\ IdentityInv /\ TokenInv
    OBVIOUS
  <2>1. PhaseInv /\ IdentityInv
    BY CredentialsAssumption
       DEF Init, PhaseInv, IdentityInv, OneAccountPerIdentity, Blank, Fresh
  <2>2. \A q \in Requests : local[q].token = none /\ pc[q] = "new" /\ q \notin DOMAIN tokens
    BY CredentialsAssumption DEF Init, Blank
  <2>3. TokenWorksOnce
    BY <2>2 DEF Init, TokenWorksOnce
  <2>4. mailed \subseteq DOMAIN tokens /\ (first \in DOMAIN tokens => Registered /\ accounts[first])
    BY DEF Init, Registered
  <2>5. \A q \in Requests : password # q
    BY CredentialsAssumption DEF Init
  <2> QED BY <2>1, <2>2, <2>3, <2>4, <2>5 DEF TokenInv
<1>2. /\ TypeInv /\ TypeInv' /\ PhaseInv /\ IdentityInv /\ TokenInv /\ [Next]_vars
      => PhaseInv' /\ IdentityInv' /\ TokenInv'
  BY PhaseInductive, IdentityInductive, TokenInductive
<1>3. TokenInv => TokenWorksOnce
  BY DEF TokenInv
<1> QED BY <1>1, <1>2, <1>3, CredentialTypes, PTL DEF Spec
-----------------------------------------------------------------------------
(* The password reset                                                      *)

(* A login that is under way has the password of the account, or is marked *)
(* by the reset that changes it.                                           *)
LEMMA LoginPassword ==
    ASSUME TypeInv, ResetInv, NEW q \in Requests, Acts(q), NEW p \in Requests,
           pc'[p] \in {"right", "open"}
    PROVE  local'[p].password = password' \/ local'[p].raced
<1> USE DEF Goto, Step, Keep
<1>0. /\ DOMAIN pc = Requests /\ DOMAIN local = Requests /\ local[p] \in Local
      /\ pc[p] \in {"right", "open"} => local[p].password = password \/ local[p].raced
  BY DEF TypeInv, ResetInv
<1>1. CASE ResetPassword(q)
  <2>1. CASE password' = password /\ local' = local /\ Goto(q, "refused")
    BY <1>0, <2>1
  <2>2. CASE /\ Goto(q, "revoke")
             /\ local' = [x \in Requests |->
                   [local[x] EXCEPT !.raced = @ \/ pc[x] \in {"right", "open"}]]
    <3>1. pc[p] \in {"right", "open"}
      BY <1>0, <2>2
    <3>2. local'[p].raced
      BY <1>0, <2>2, <3>1 DEF Local
    <3> QED BY <3>2
  <2> QED BY <1>1, <2>1, <2>2 DEF ResetPassword
<1>2. CASE ~ResetPassword(q)
  <2>1. password' = password
    BY <1>2, ProvedFirst
  <2>2. CASE p # q
    BY <1>0, <2>1, <2>2, Others DEF Same
  <2>3. CASE p = q /\ pc'[p] = "right"
    <3>1. LoginRead(q)
      BY <1>0, <2>3 DEF Acts, AuthRegisterEmail, LoginFails, LoginClears,
         createBrowserSession, AskForToken, DeleteTokens, InsertToken, SendMail,
         consumeOneTimeToken, VerifyEmail, ResetPassword, revokeAllUserSessions,
         AuthMFASetup, EnableChecks, VerifyChecks, EnableWrites, MarkSession, beginOIDC,
         finishOIDC, FindIdentity, FindByEmail, CreateUser, LinkIdentity, UpdateUser, RollBack
    <3> QED BY <1>0, <2>1, <2>3, <3>1 DEF LoginRead, Blank
  <2>4. CASE p = q /\ pc'[p] = "open"
    <3>1. CASE LoginClears(q)
      BY <1>0, <2>1, <2>4, <3>1 DEF LoginClears
    <3>2. CASE UpdateUser(q)
      BY <1>0, <2>1, <2>4, <3>2 DEF UpdateUser, Local
    <3> QED BY <2>4, <3>1, <3>2, TowardsSession
  <2> QED BY <2>2, <2>3, <2>4
<1> QED BY <1>1, <1>2

LEMMA ResetInductive ==
    ASSUME TypeInv, TypeInv', ResetInv, [Next]_vars
    PROVE  ResetInv'
<1> DEFINE Excused(s) == \/ password \in Requests /\ pc[password] \in {"revoke", "unrevoked"}
                         \/ s \in Requests /\ local[s].raced
<1>1. ASSUME NEW q \in Requests, Acts(q) PROVE ResetInv'
  <2>0. \A s \in DOMAIN sessions : SignedIn(s) /\ sessions[s].password # password => Excused(s)
    BY DEF ResetInv
  <2>1. \A p \in Requests : pc'[p] \in {"right", "open"} =>
            local'[p].password = password' \/ local'[p].raced
    BY <1>1, LoginPassword
  <2>2. ASSUME NEW p \in Requests, p \in DOMAIN sessions' PROVE pc'[p] = "done"
    <3>1. CASE p \in DOMAIN sessions
      <4>1. pc[p] = "done" /\ p # q
        BY <1>1, <3>1, DoneIsOver DEF ResetInv
      <4> QED BY <1>1, <4>1, Others DEF Same
    <3>2. CASE p \notin DOMAIN sessions
      BY <1>1, <2>2, <3>2, Opened
    <3> QED BY <3>1, <3>2
  <2>3. ASSUME NEW s \in DOMAIN sessions, s \in Requests => pc[s] = "done", local[s].raced,
               s \in Requests
        PROVE  local'[s].raced
    <3>1. s # q
      BY <1>1, <2>3, DoneIsOver
    <3> QED BY <1>1, <2>3, <3>1, Others DEF Same
  <2>4. ASSUME NEW s \in DOMAIN sessions', SignedIn(s)', sessions'[s].password # password'
        PROVE  Excused(s)'
    <3>1. CASE s \notin DOMAIN sessions
      <4>1. /\ s = q /\ pc[q] = "open" /\ pc'[q] = "done" /\ local' = local
            /\ sessions'[q].password = local[q].password
        BY <1>1, <2>4, <3>1, Opened
      <4>2. password' = password
        BY <1>1, <4>1, ProvedFirst
      <4> QED BY <2>4, <4>1, <4>2 DEF ResetInv
    <3>2. CASE s \in DOMAIN sessions
      <4>0. s \in Requests => pc[s] = "done" /\ s # q
        BY <1>1, <3>2, DoneIsOver DEF ResetInv
      <4>1. /\ sessions'[s].account = sessions[s].account
            /\ sessions'[s].password = sessions[s].password
            /\ sessions'[s].live => sessions[s].live
        BY <1>1, <3>2, <4>0, Opened DEF Makers, TypeInv
      <4>2. SignedIn(s)
        BY <2>4, <3>2, <4>1 DEF SignedIn
      <4>3. CASE password' # password
        <5>1. password' = q /\ ResetPassword(q)
          BY <1>1, <4>3, ProvedFirst
        <5>2. pc'[q] = "revoke"
          BY <4>3, <5>1 DEF ResetPassword, Goto, TypeInv
        <5> QED BY <5>1, <5>2
      <4>4. CASE password' = password /\ local[s].raced /\ s \in Requests
        BY <2>3, <3>2, <4>0, <4>4
      <4>5. CASE /\ password' = password /\ password \in Requests
                 /\ pc[password] \in {"revoke", "unrevoked"}
        <5>1. CASE password # q
          BY <1>1, <4>5, <5>1, Others DEF Same
        <5>2. CASE password = q
          <6>1. pc[q] = "revoke"
            BY <1>1, <4>5, <5>2, DoneIsOver
          <6>2. revokeAllUserSessions(q)
            BY <1>1, <6>1 DEF Acts, AuthRegisterEmail, LoginRead, LoginFails, LoginClears,
               createBrowserSession, AskForToken, DeleteTokens, InsertToken, SendMail,
               consumeOneTimeToken, VerifyEmail, ResetPassword, AuthMFASetup, EnableChecks,
               VerifyChecks, EnableWrites, MarkSession, beginOIDC, finishOIDC, Returning,
               FindIdentity, FindByEmail, CreateUser, LinkIdentity, UpdateUser, RollBack, Step
          <6>3. CASE RevokedAll
            <7>1. sessions'[s].live = (sessions[s].live /\ sessions[s].account # first)
              BY <3>2, <6>3 DEF RevokedAll, TypeInv, Session
            <7> QED BY <2>4, <4>2, <7>1 DEF SignedIn
          <6>4. CASE ~RevokedAll
            BY <4>5, <5>2, <6>2, <6>4 DEF revokeAllUserSessions, Goto, TypeInv
          <6> QED BY <6>3, <6>4
        <5> QED BY <5>1, <5>2
      <4> QED BY <2>0, <2>4, <3>2, <4>1, <4>2, <4>3, <4>4, <4>5
    <3> QED BY <3>1, <3>2
  <2> QED BY <2>1, <2>2, <2>4 DEF ResetInv
<1>2. CASE Quiet
  BY <1>2, QuietSame DEF ResetInv, SignedIn
<1> QED BY <1>1, <1>2, Steps

(* ResetEndsOldSessions: once a reset has ended the sessions, none of the  *)
(* account that was opened with an older password is live, but where the   *)
(* login had checked that password before the reset changed it.            *)
THEOREM ResetEndsSessions == Spec => []ResetEndsOldSessions
<1>1. Init => ResetInv
  BY CredentialsAssumption DEF Init, ResetInv, SignedIn
<1>2. ResetInv => ResetEndsOldSessions
  BY DEF ResetInv, ResetEndsOldSessions
<1>3. TypeInv /\ TypeInv' /\ ResetInv /\ [Next]_vars => ResetInv'
  BY ResetInductive
<1> QED BY <1>1, <1>2, <1>3, CredentialTypes, PTL DEF Spec

-----------------------------------------------------------------------------
(* The second factor                                                       *)

LEMMA FactorInductive ==
    ASSUME TypeInv, TypeInv', PhaseInv, FactorInv, [Next]_vars
    PROVE  FactorInv'
<1> USE DEF Goto, Step, Keep
<1> DEFINE Checked(p) == pc[p] = "enable" =>
               local[p].secret # none /\ (local[p].secret = mfa.pending \/ local[p].raced)
           Raced(p) == local[p].raced /\ local[p].secret # none
           Holds(p) == /\ mfa.secret # none /\ local[p].secret = mfa.secret
                       /\ pc[p] \in {"mark", "done"}
<1>1. ASSUME NEW q \in Requests, Acts(q) PROVE FactorInv'
  <2>0. /\ DOMAIN pc = Requests /\ DOMAIN local = Requests /\ local[q] \in Local
        /\ \A p \in Requests : Checked(p) /\ (p # q => Same(p)) /\ local[p] \in Local
        /\ mfa.enabled => \E p \in Requests : Raced(p) \/ Holds(p)
    BY <1>1, Others DEF TypeInv, FactorInv, SecondFactorIsHeld
  <2>1. CASE AuthMFASetup(q)
    <3>1. CASE mfa' = mfa /\ local' = local /\ Goto(q, "refused")
      BY <2>0, <2>1, <3>1 DEF AuthMFASetup, FactorInv, SecondFactorIsHeld, Same
    <3>2. CASE mfa' = Pending(q) /\ local' = Overtaken(q) /\ Goto(q, "done")
      <4>1. mfa'.enabled = mfa.enabled /\ mfa'.secret = mfa.secret
        BY <3>2 DEF Pending, TypeInv, SecondFactor
      <4>2. ASSUME NEW p \in Requests PROVE Checked(p)'
        <5>1. CASE p # q /\ pc[p] = "enable"
          <6>1. local'[p].raced /\ local'[p].secret = local[p].secret
            BY <2>0, <3>2, <5>1 DEF Overtaken, Local
          <6> QED BY <2>0, <5>1, <6>1
        <5>2. CASE p = q
          BY <2>0, <3>2, <5>2
        <5>3. CASE p # q /\ pc[p] # "enable"
          BY <2>0, <5>3 DEF Same
        <5> QED BY <5>1, <5>2, <5>3
      <4>3. ASSUME NEW p \in Requests, Raced(p) \/ Holds(p) PROVE Raced(p)' \/ Holds(p)'
        <5>1. p # q
          BY <2>1, <4>3, <2>0 DEF AuthMFASetup, PhaseInv, Fresh, Blank
        <5> QED BY <2>0, <4>1, <4>3, <5>1 DEF Same
      <4> QED BY <2>0, <4>1, <4>2, <4>3 DEF FactorInv, SecondFactorIsHeld
    <3> QED BY <2>1, <3>1, <3>2 DEF AuthMFASetup
  <2>2. CASE EnableWrites(q)
    <3>0. pc[q] = "enable" /\ local[q].secret # none
      BY <2>0, <2>2 DEF EnableWrites
    <3>1. CASE mfa' = mfa /\ local' = local /\ Goto(q, "refused")
      BY <2>0, <3>0, <3>1 DEF FactorInv, SecondFactorIsHeld, Same
    <3>2. CASE /\ mfa' = [enabled |-> TRUE, secret |-> mfa.pending, pending |-> none]
               /\ local' = Overtaken(q) /\ Goto(q, "mark")
      <4>1. local'[q].raced = local[q].raced /\ local'[q].secret = local[q].secret
        BY <2>0, <3>2 DEF Overtaken, Local
      <4>2. Raced(q)' \/ Holds(q)'
        BY <2>0, <3>0, <3>2, <4>1
      <4>3. ASSUME NEW p \in Requests PROVE Checked(p)'
        <5>1. CASE p # q /\ pc[p] = "enable"
          <6>1. local'[p].raced /\ local'[p].secret = local[p].secret
            BY <2>0, <3>2, <5>1 DEF Overtaken, Local
          <6> QED BY <2>0, <5>1, <6>1
        <5>2. CASE p = q
          BY <2>0, <3>2, <5>2
        <5>3. CASE p # q /\ pc[p] # "enable"
          BY <2>0, <5>3 DEF Same
        <5> QED BY <5>1, <5>2, <5>3
      <4> QED BY <4>2, <4>3 DEF FactorInv, SecondFactorIsHeld
    <3> QED BY <2>2, <3>1, <3>2 DEF EnableWrites
  <2>3. ASSUME mfa' = mfa, Checked(q)', Raced(q) \/ Holds(q) => Raced(q)' \/ Holds(q)'
        PROVE  FactorInv'
    <3>1. \A p \in Requests : Checked(p)'
      BY <2>0, <2>3 DEF Same
    <3>2. \A p \in Requests : Raced(p) \/ Holds(p) => Raced(p)' \/ Holds(p)'
      BY <2>0, <2>3 DEF Same
    <3> QED BY <2>0, <2>3, <3>1, <3>2 DEF FactorInv, SecondFactorIsHeld
  <2>4. CASE ~(AuthMFASetup(q) \/ EnableWrites(q))
    <3>1. mfa' = mfa
      BY <1>1, <2>4 DEF Acts, AuthRegisterEmail, LoginRead, LoginFails, LoginClears,
         createBrowserSession, AskForToken, DeleteTokens, InsertToken, SendMail,
         consumeOneTimeToken, VerifyEmail, ResetPassword, revokeAllUserSessions,
         EnableChecks, VerifyChecks, MarkSession, beginOIDC, finishOIDC, FindIdentity,
         FindByEmail, CreateUser, LinkIdentity, UpdateUser, RollBack, user
    <3>2. CASE pc[q] \in Fresh
      <4>1. local[q].secret = none /\ ~Holds(q)
        BY <3>2 DEF PhaseInv, Blank
      <4>2. Checked(q)'
        <5>1. ASSUME NEW s \in DOMAIN sessions, EnableChecks(q, s) PROVE Checked(q)'
          BY <2>0, <3>1, <5>1 DEF EnableChecks, Blank
        <5>2. CASE ~\E s \in DOMAIN sessions : EnableChecks(q, s)
          <6>1. pc'[q] # "enable"
            BY <1>1, <2>0, <2>4, <5>2 DEF Acts, AuthRegisterEmail, LoginRead, LoginFails,
               LoginClears, createBrowserSession, AskForToken, DeleteTokens, InsertToken,
               SendMail, consumeOneTimeToken, VerifyEmail, ResetPassword,
               revokeAllUserSessions, VerifyChecks, MarkSession, beginOIDC, finishOIDC,
               FindIdentity, FindByEmail, CreateUser, LinkIdentity, UpdateUser, RollBack
          <6> QED BY <6>1
        <5> QED BY <5>1, <5>2
      <4> QED BY <2>3, <3>1, <4>1, <4>2
    <3>3. CASE pc[q] \notin Fresh
      <4>1. /\ local'[q].secret = local[q].secret /\ (local[q].raced => local'[q].raced)
            /\ pc'[q] # "enable" /\ (pc[q] = "mark" => pc'[q] = "done")
        <5> USE <2>0, <3>3 DEF Fresh, Local
        <5>1. CASE LoginFails(q) \/ LoginClears(q) \/ createBrowserSession(q)
          BY <5>1 DEF LoginFails, LoginClears, createBrowserSession
        <5>2. CASE VerifyEmail(q) \/ revokeAllUserSessions(q) \/ MarkSession(q)
          BY <5>2 DEF VerifyEmail, revokeAllUserSessions, MarkSession
        <5>3. CASE ResetPassword(q)
          BY <5>3 DEF ResetPassword
        <5>4. CASE FindIdentity(q) \/ FindByEmail(q)
          BY <5>4 DEF FindIdentity, FindByEmail
        <5>5. CASE CreateUser(q)
          BY <5>5 DEF CreateUser
        <5>6. CASE LinkIdentity(q)
          BY <5>6 DEF LinkIdentity, Yielded
        <5>7. CASE UpdateUser(q) \/ RollBack(q)
          <6>1. pc'[q] \in {"open", "refused"} /\ pc[q] # "mark"
            BY <5>7 DEF UpdateUser, RollBack
          <6>2. \/ local'[q] = [local[q] EXCEPT !.made = FALSE, !.linked = FALSE]
                \/ local'[q] = [local[q] EXCEPT !.made = FALSE, !.linked = FALSE,
                                               !.password = password]
            BY <5>7 DEF UpdateUser, RollBack
          <6>3. local'[q].secret = local[q].secret /\ local'[q].raced = local[q].raced
            BY <6>2
          <6> QED BY <6>1, <6>3
        <5>8. \/ LoginFails(q) \/ LoginClears(q) \/ createBrowserSession(q) \/ VerifyEmail(q)
              \/ revokeAllUserSessions(q) \/ MarkSession(q) \/ ResetPassword(q)
              \/ FindIdentity(q) \/ FindByEmail(q) \/ CreateUser(q) \/ LinkIdentity(q)
              \/ UpdateUser(q) \/ RollBack(q)
          BY <1>1, <2>4 DEF Acts, AuthRegisterEmail, LoginRead, AskForToken, DeleteTokens,
             InsertToken, SendMail, consumeOneTimeToken, EnableChecks, VerifyChecks,
             beginOIDC, finishOIDC, Returning
        <5> QED BY <5>1, <5>2, <5>3, <5>4, <5>5, <5>6, <5>7, <5>8
      <4>2. pc[q] # "done"
        BY <1>1, DoneIsOver
      <4> QED BY <2>3, <3>1, <4>1, <4>2
    <3> QED BY <3>2, <3>3
  <2> QED BY <2>1, <2>2, <2>4
<1>2. CASE Quiet
  BY <1>2, QuietSame DEF FactorInv, SecondFactorIsHeld
<1> QED BY <1>1, <1>2, Steps

(* SecondFactorIsHeld: an account that asks for a second factor has a      *)
(* secret of which its owner has shown a code, but where two setups or     *)
(* enables overlapped.                                                     *)
THEOREM SecondFactorHeld == Spec => []SecondFactorIsHeld
<1>1. Init => PhaseInv /\ IdentityInv /\ FactorInv
  BY CredentialsAssumption
     DEF Init, PhaseInv, IdentityInv, OneAccountPerIdentity, Blank, Fresh, FactorInv,
         SecondFactorIsHeld
<1>2. /\ TypeInv /\ TypeInv' /\ PhaseInv /\ IdentityInv /\ FactorInv /\ [Next]_vars
      => PhaseInv' /\ IdentityInv' /\ FactorInv'
  BY PhaseInductive, IdentityInductive, FactorInductive
<1>3. FactorInv => SecondFactorIsHeld
  BY DEF FactorInv
<1> QED BY <1>1, <1>2, <1>3, CredentialTypes, PTL DEF Spec

=============================================================================
