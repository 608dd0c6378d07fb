------------------------------ MODULE Credentials ------------------------------
(***************************************************************************)
(* One person with one email address and one identity at an external       *)
(* provider, and the requests that change how this person signs in:        *)
(* registration, email verification and password reset by one-time tokens, *)
(* login with a lock after too many failures, the setup of a second factor *)
(* (MFA), and login by the external provider (OIDC).  Most handlers are a  *)
(* few SQL statements without a transaction around them; each is a step    *)
(* here, and requests interleave between them.  A statement or a mail may  *)
(* fail.                                                                   *)
(*                                                                         *)
(* A token, a state, a password, an MFA secret and an account are named    *)
(* after the request that made them; "first" is the account with the       *)
(* password, and what its registration made.                               *)
(***************************************************************************)
EXTENDS Integers, FiniteSets

CONSTANTS Requests,          (* requests, each used once                       *)
          first,             (* the registration, not a request                *)
          none,              (* no secret                                      *)
          MaxLoginAttempts   (* 5                                              *)

ASSUME CredentialsAssumption ==
    first \notin Requests /\ none \notin Requests \cup {first}
      /\ MaxLoginAttempts \in Nat \ {0}

Makers == Requests \cup {first}

VARIABLES
    pc,          \* where each request is: the statement that comes next
    local,       \* what it has read, and the token or session it came with
    password,    \* users.password_hash
    verified,    \* users.email_verified_at
    failed,      \* users.failed_login_attempts
    locked,      \* users.locked_until is in the future
    mfa,         \* users.mfa_*: enabled, secret, pending
    tokens,      \* auth_tokens: purpose and state of each
    mailed,      \* tokens that have reached the owner's mailbox
    sessions,    \* auth_sessions: account, password when it was opened, live, MFA
    accounts,    \* users: for each of them, whether it has the email address
    identity,    \* auth_identities: the account of the external identity
    cookie       \* the state in the browser's OAuth cookie

vars == <<pc, local, password, verified, failed, locked, mfa, tokens, mailed, sessions,
          accounts, identity, cookie>>
user == <<password, verified, failed, locked, mfa>>
oidc == <<accounts, identity, cookie>>

Purposes == {"verify_email", "reset_password"}
Blank    == [password |-> none, failed |-> 0, token |-> none, session |-> none,
             secret |-> none, raced |-> FALSE, account |-> first,
             email |-> FALSE, made |-> FALSE, linked |-> FALSE]

(* Nobody is registered yet; or registration is long past, and the owner   *)
(* is signed in.                                                           *)
Init ==
    /\ pc = [q \in Requests |-> "new"] /\ local = [q \in Requests |-> Blank]
    /\ password = first /\ failed = 0 /\ locked = FALSE
    /\ mfa = [enabled |-> FALSE, secret |-> none, pending |-> none]
    /\ identity = none /\ cookie = none
    /\ \/ /\ verified = FALSE /\ mailed = {}
          /\ tokens = [t \in {} |-> <<>>] /\ sessions = [s \in {} |-> <<>>]
          /\ accounts = [u \in {} |-> FALSE]
       \/ /\ verified = TRUE /\ mailed = {first}
          /\ tokens = [t \in {first} |-> [purpose |-> "verify_email", state |-> "consumed"]]
          /\ sessions = [s \in {first} |->
                [account |-> first, password |-> first, live |-> TRUE, mfa |-> FALSE]]
          /\ accounts = [u \in {first} |-> TRUE]

Registered == first \in DOMAIN accounts

Add(f, x, value) == [y \in DOMAIN f \cup {x} |-> IF y = x THEN value ELSE f[y]]
Goto(q, place) == pc' = [pc EXCEPT ![q] = place]
Step(q, from, to) == pc[q] = from /\ Goto(q, to)
Keep(q, value) == local' = [local EXCEPT ![q] = value]

-----------------------------------------------------------------------------
(* Registration                                                            *)

(* The address is being given to an account by a transaction under way,    *)
(* for which whoever wants it waits.                                       *)
Claimed(q) == \E p \in Requests \ {q} : local[p].made /\ local[p].email
Taken      == \E u \in DOMAIN accounts : accounts[u]

(* One transaction makes the account and its verification token; then the  *)
(* mail is sent.                                                           *)
AuthRegisterEmail(q) ==
    /\ pc[q] = "new" /\ ~Claimed(q)
    /\ \/ Goto(q, "refused") /\ UNCHANGED <<accounts, tokens, mailed>>
       \/ /\ ~Taken
          /\ accounts' = Add(accounts, first, TRUE)
          /\ tokens' = Add(tokens, first, [purpose |-> "verify_email", state |-> "live"])
          /\ mailed' \in {mailed, mailed \cup {first}}
          /\ Goto(q, "done")
    /\ UNCHANGED <<local, user, sessions, identity, cookie>>

-----------------------------------------------------------------------------
(* Login                                                                   *)

(* The row is read once; a wrong password is one that does not match it.   *)
LoginRead(q) ==
    /\ pc[q] = "new" /\ Registered
    /\ Keep(q, [Blank EXCEPT !.password = password, !.failed = failed])
    /\ \/ locked /\ Goto(q, "refused")
       \/ ~locked /\ Goto(q, "wrong")
       \/ ~locked /\ Goto(q, IF verified THEN "right" ELSE "refused")
    /\ UNCHANGED <<user, tokens, mailed, sessions, oidc>>

TooMany(n) == n >= MaxLoginAttempts

(* The counter is written from what was read.                              *)
LoginFails(q) ==
    /\ Step(q, "wrong", "refused")
    /\ LET n == local[q].failed + 1
       IN  \/ failed' = (IF TooMany(n) THEN 0 ELSE n) /\ locked' = (TooMany(n) \/ locked)
           \/ UNCHANGED <<failed, locked>>
    /\ UNCHANGED <<local, password, verified, mfa, tokens, mailed, sessions, oidc>>

LoginClears(q) ==
    /\ Step(q, "right", "open")
    /\ \/ failed' = 0 /\ locked' = FALSE
       \/ UNCHANGED <<failed, locked>>
    /\ UNCHANGED <<local, password, verified, mfa, tokens, mailed, sessions, oidc>>

createBrowserSession(q) ==
    /\ pc[q] = "open"
    /\ \/ /\ sessions' = Add(sessions, q,
                [account |-> local[q].account, password |-> local[q].password,
                 live |-> TRUE, mfa |-> FALSE])
          /\ Goto(q, "done")
       \/ UNCHANGED sessions /\ Goto(q, "refused")
    /\ UNCHANGED <<local, user, tokens, mailed, oidc>>

LockExpires ==
    /\ locked /\ locked' = FALSE
    /\ UNCHANGED <<pc, local, password, verified, failed, mfa, tokens, mailed, sessions, oidc>>

-----------------------------------------------------------------------------
(* One-time tokens                                                         *)

(* AuthResendVerification asks for an account that is not verified,        *)
(* AuthForgotPassword for one that has a password.                         *)
AskForToken(q, purpose) ==
    /\ pc[q] = "new" /\ Registered /\ (purpose = "verify_email" => ~verified)
    /\ Goto(q, IF purpose = "verify_email" THEN "resend" ELSE "forgot")
    /\ UNCHANGED <<local, user, tokens, mailed, sessions, oidc>>

PurposeAt(place) == IF place \in {"resend", "resend2"} THEN "verify_email" ELSE "reset_password"

(* createOneTimeToken: earlier tokens that were not used go, ...           *)
DeleteTokens(q) ==
    /\ pc[q] \in {"resend", "forgot"}
    /\ \/ /\ tokens' = [t \in DOMAIN tokens |->
                IF tokens[t].purpose = PurposeAt(pc[q]) /\ tokens[t].state # "consumed"
                  THEN [tokens[t] EXCEPT !.state = "deleted"] ELSE tokens[t]]
          /\ Goto(q, IF pc[q] = "resend" THEN "resend2" ELSE "forgot2")
       \/ UNCHANGED tokens /\ Goto(q, "refused")
    /\ UNCHANGED <<local, user, mailed, sessions, oidc>>

(* ... and the new one is inserted and mailed.                             *)
InsertToken(q) ==
    /\ pc[q] \in {"resend2", "forgot2"}
    /\ \/ /\ tokens' = Add(tokens, q, [purpose |-> PurposeAt(pc[q]), state |-> "live"])
          /\ Goto(q, "send")
       \/ UNCHANGED tokens /\ Goto(q, "refused")
    /\ UNCHANGED <<local, user, mailed, sessions, oidc>>

SendMail(q) ==
    /\ pc[q] = "send"
    /\ \/ mailed' = mailed \cup {q} /\ Goto(q, "done")
       \/ UNCHANGED mailed /\ Goto(q, "refused")
    /\ UNCHANGED <<local, user, tokens, sessions, oidc>>

TokenExpires(t) ==
    /\ tokens[t].state = "live"
    /\ tokens' = [tokens EXCEPT ![t].state = "expired"]
    /\ UNCHANGED <<pc, local, user, mailed, sessions, oidc>>

(* consumeOneTimeToken, one statement; its answer may be lost.             *)
UsableToo(t, purpose) == tokens[t].purpose = purpose /\ tokens[t].state \in {"live", "consumed"}
Usable(t, purpose) == tokens[t].purpose = purpose /\ tokens[t].state = "live"

consumeOneTimeToken(q, t, purpose) ==
    /\ pc[q] = "new" /\ t \in mailed
    /\ IF Usable(t, purpose)
         THEN /\ tokens' = [tokens EXCEPT ![t].state = "consumed"]
              /\ Keep(q, [Blank EXCEPT !.token = t])
              /\ Goto(q, IF purpose = "verify_email" THEN "verify" ELSE "reset") \/ Goto(q, "refused")
         ELSE Goto(q, "refused") /\ UNCHANGED <<tokens, local>>
    /\ UNCHANGED <<user, mailed, sessions, oidc>>

VerifyEmail(q) ==
    /\ pc[q] = "verify"
    /\ \/ verified' = TRUE /\ Goto(q, "done")
       \/ UNCHANGED verified /\ Goto(q, "refused")
    /\ UNCHANGED <<local, password, failed, locked, mfa, tokens, mailed, sessions, oidc>>

(* The reset marks the logins that are under way with an older password    *)
(* (for the properties only).                                              *)
ResetPassword(q) ==
    /\ pc[q] = "reset"
    /\ \/ /\ password' = q /\ failed' = 0 /\ locked' = FALSE
          /\ Goto(q, "revoke")
          /\ local' = [p \in Requests |->
                [local[p] EXCEPT !.raced = @ \/ pc[p] \in {"right", "open"}]]
       \/ UNCHANGED <<password, failed, locked, local>> /\ Goto(q, "refused")
    /\ UNCHANGED <<verified, mfa, tokens, mailed, sessions, oidc>>

(* Its error is dropped.                                                   *)
RevokedNone == UNCHANGED sessions   \* a mutant
RevokedAll  ==
    sessions' = [s \in DOMAIN sessions |->
                    [sessions[s] EXCEPT !.live = @ /\ sessions[s].account # first]]

revokeAllUserSessions(q) ==
    /\ pc[q] = "revoke"
    /\ \/ RevokedAll /\ Goto(q, "done")
       \/ UNCHANGED sessions /\ Goto(q, "unrevoked")
    /\ UNCHANGED <<local, user, tokens, mailed, oidc>>

-----------------------------------------------------------------------------
(* The second factor                                                       *)

(* AuthMFASetup stores the secret it shows to the owner as a pending one.  *)
(* Enables that are under way have then checked another one, which their   *)
(* "raced" remembers (for the properties only).                            *)
InUse(q) == [mfa EXCEPT !.pending = q, !.secret = q]   \* a mutant
Pending(q) == [mfa EXCEPT !.pending = q]

Overtaken(q) ==
    [p \in Requests |-> [local[p] EXCEPT !.raced = @ \/ (p # q /\ pc[p] = "enable")]]

SignedIn(s) ==
    s \in DOMAIN sessions /\ sessions[s].account = first /\ sessions[s].live

AuthMFASetup(q) ==
    /\ pc[q] = "new" /\ \E s \in DOMAIN sessions : SignedIn(s)
    /\ \/ mfa' = Pending(q) /\ local' = Overtaken(q) /\ Goto(q, "done")
       \/ UNCHANGED <<mfa, local>> /\ Goto(q, "refused")
    /\ UNCHANGED <<password, verified, failed, locked, tokens, mailed, sessions, oidc>>

(* AuthMFAEnable: a code of the pending secret is checked; then whatever   *)
(* is pending becomes the secret.                                          *)
EnableChecks(q, s) ==
    /\ pc[q] = "new" /\ SignedIn(s)
    /\ \/ /\ mfa.pending # none
          /\ Keep(q, [Blank EXCEPT !.session = s, !.secret = mfa.pending])
          /\ Goto(q, "enable")
       \/ Goto(q, "refused") /\ UNCHANGED local
    /\ UNCHANGED <<user, tokens, mailed, sessions, oidc>>

EnableWrites(q) ==
    /\ pc[q] = "enable"
    /\ \/ /\ mfa' = [enabled |-> TRUE, secret |-> mfa.pending, pending |-> none]
          /\ local' = Overtaken(q) /\ Goto(q, "mark")
       \/ UNCHANGED <<mfa, local>> /\ Goto(q, "refused")
    /\ UNCHANGED <<password, verified, failed, locked, tokens, mailed, sessions, oidc>>

(* AuthMFAVerifySession checks a code of the secret in use.                *)
VerifyChecks(q, s) ==
    /\ pc[q] = "new" /\ SignedIn(s)
    /\ \/ /\ mfa.enabled /\ mfa.secret # none
          /\ Keep(q, [Blank EXCEPT !.session = s, !.secret = mfa.secret])
          /\ Goto(q, "confirm")
       \/ Goto(q, "refused") /\ UNCHANGED local
    /\ UNCHANGED <<user, tokens, mailed, sessions, oidc>>

(* The session is marked, in AuthMFAVerifySession only if it is still live.*)
MarkSession(q) ==
    /\ pc[q] \in {"mark", "confirm"}
    /\ LET s == local[q].session
       IN  \/ /\ sessions' = [sessions EXCEPT ![s].mfa = @ \/ pc[q] = "mark" \/ SignedIn(s)]
              /\ Goto(q, "done")
          \/ /\ UNCHANGED sessions
             /\ Goto(q, IF pc[q] = "mark" THEN "done" ELSE "refused")
    /\ UNCHANGED <<local, user, tokens, mailed, oidc>>

-----------------------------------------------------------------------------
(* Login by the external provider                                          *)

(* The state goes to the browser, in the redirect and in a cookie.         *)
beginOIDC(q) ==
    /\ pc[q] = "new"
    /\ \/ /\ tokens' = Add(tokens, q, [purpose |-> "oauth_state", state |-> "live"])
          /\ cookie' = q /\ Goto(q, "away")
       \/ UNCHANGED <<tokens, cookie>> /\ Goto(q, "refused")
    /\ UNCHANGED <<local, user, mailed, sessions, accounts, identity>>

(* The provider sends the browser back, and a callback may come again.     *)
Returning(q, t) == IF pc[q] = "away" THEN t = q
                   ELSE pc[q] = "new" /\ tokens[t].purpose = "oauth_state"

CookieMatches(t) == cookie = t

(* An address is taken from the provider's claims if it is verified.       *)
Claims == [email : BOOLEAN]

(* The state is used up whatever the provider says then.  The answer that  *)
(* clears the cookie may be lost.                                          *)
finishOIDC(q, t) ==
    /\ Returning(q, t) /\ cookie' \in {none, cookie}
    /\ \/ Goto(q, "refused") /\ UNCHANGED <<tokens, local>>
       \/ /\ CookieMatches(t) /\ Usable(t, "oauth_state")
          /\ tokens' = [tokens EXCEPT ![t].state = "consumed"]
          /\ \E claims \in Claims :
                Keep(q, [Blank EXCEPT !.token = t, !.account = none, !.email = claims.email])
          /\ Goto(q, "identify") \/ Goto(q, "refused")
    /\ UNCHANGED <<user, mailed, sessions, accounts, identity>>

(* upsertOIDCIdentity is a transaction: what it has made and linked is     *)
(* seen by others when it commits.                                         *)
FindIdentity(q) ==
    /\ IF identity # none
         THEN Step(q, "identify", "update") /\ Keep(q, [local[q] EXCEPT !.account = identity])
         ELSE Step(q, "identify", IF local[q].email THEN "find" ELSE "create") /\ UNCHANGED local
    /\ UNCHANGED <<user, tokens, mailed, sessions, oidc>>

Holder == CHOOSE u \in DOMAIN accounts : accounts[u]

FindByEmail(q) ==
    /\ IF Taken THEN Step(q, "find", "link") /\ Keep(q, [local[q] EXCEPT !.account = Holder])
                ELSE Step(q, "find", "create") /\ UNCHANGED local
    /\ UNCHANGED <<user, tokens, mailed, sessions, oidc>>

(* If the address has been taken meanwhile, its holder is the account.     *)
CreateUser(q) ==
    /\ Step(q, "create", "link") /\ (local[q].email => ~Claimed(q))
    /\ Keep(q, IF local[q].email /\ Taken
                 THEN [local[q] EXCEPT !.account = Holder]
                 ELSE [local[q] EXCEPT !.account = q, !.made = TRUE])
    /\ UNCHANGED <<user, tokens, mailed, sessions, oidc>>

(* If the identity has been linked meanwhile, the account just made goes.  *)
NotDeleted(q) == [local[q] EXCEPT !.account = identity]   \* a mutant
Yielded(q) == [local[q] EXCEPT !.account = identity, !.made = FALSE]

LinkIdentity(q) ==
    /\ Step(q, "link", "update")
    /\ \A p \in Requests \ {q} : ~local[p].linked
    /\ Keep(q, IF identity # none THEN Yielded(q) ELSE [local[q] EXCEPT !.linked = TRUE])
    /\ UNCHANGED <<user, tokens, mailed, sessions, oidc>>

(* The account gets the address if it has none, which fails if another has *)
(* it; and the transaction commits.  The password of the time is kept for  *)
(* the properties only.                                                    *)
UpdateUser(q) ==
    LET u     == local[q].account
        made  == IF local[q].made THEN Add(accounts, q, local[q].email) ELSE accounts
        needs == local[q].email /\ ~made[u]
    IN  /\ Step(q, "update", "open") /\ (needs => ~Taken /\ ~Claimed(q))
        /\ accounts' = [made EXCEPT ![u] = @ \/ local[q].email]
        /\ identity' = (IF local[q].linked THEN u ELSE identity)
        /\ verified' = (verified \/ (u = first /\ local[q].email))
        /\ Keep(q, [local[q] EXCEPT !.made = FALSE, !.linked = FALSE, !.password = password])
        /\ UNCHANGED <<password, failed, locked, mfa, tokens, mailed, sessions, cookie>>

RollBack(q) ==
    /\ pc[q] \in {"identify", "find", "create", "link", "update"} /\ Goto(q, "refused")
    /\ Keep(q, [local[q] EXCEPT !.made = FALSE, !.linked = FALSE])
    /\ UNCHANGED <<user, tokens, mailed, sessions, oidc>>

-----------------------------------------------------------------------------
Next ==
    \/ \E q \in Requests :
        \/ AuthRegisterEmail(q) \/ LoginRead(q) \/ LoginFails(q) \/ LoginClears(q) \/ createBrowserSession(q)
        \/ \E purpose \in Purposes : AskForToken(q, purpose)
        \/ DeleteTokens(q) \/ InsertToken(q) \/ SendMail(q)
        \/ \E t \in mailed, purpose \in Purposes : consumeOneTimeToken(q, t, purpose)
        \/ VerifyEmail(q) \/ ResetPassword(q) \/ revokeAllUserSessions(q)
        \/ AuthMFASetup(q)
        \/ \E s \in DOMAIN sessions : EnableChecks(q, s) \/ VerifyChecks(q, s)
        \/ EnableWrites(q) \/ MarkSession(q)
        \/ beginOIDC(q) \/ \E t \in DOMAIN tokens : finishOIDC(q, t)
        \/ FindIdentity(q) \/ FindByEmail(q) \/ CreateUser(q) \/ LinkIdentity(q)
        \/ UpdateUser(q) \/ RollBack(q)
    \/ LockExpires
    \/ \E t \in DOMAIN tokens : TokenExpires(t)

Spec == Init /\ [][Next]_vars

-----------------------------------------------------------------------------
(* Properties                                                              *)

(* consumeOneTimeToken and finishOIDC: whatever requests come with a token *)
(* or a state, one at most gets through with it; a password is the first   *)
(* one or was set by a request with a token for that purpose, and the      *)
(* account is not verified before such a request, or an external login     *)
(* that is linked to it, has got through.                                  *)
TokenWorksOnce ==
    /\ \A p, q \in Requests :
        (p # q /\ local[p].token # none) => local[p].token # local[q].token
    /\ password # first => tokens[local[password].token].purpose = "reset_password"
    /\ (verified /\ first \notin DOMAIN sessions /\ identity # first) =>
         \E q \in Requests : /\ local[q].token # none
                            /\ tokens[local[q].token].purpose = "verify_email"

(* AuthResetPassword: once the reset has ended the sessions, none that was *)
(* opened with an older password is live, unless its login had already     *)
(* checked that password when the reset changed it.                        *)
ResetEndsOldSessions ==
    \A s \in DOMAIN sessions :
        (SignedIn(s) /\ sessions[s].password # password) =>
            \/ pc[password] \in {"revoke", "unrevoked"}
            \/ s \in Requests /\ local[s].raced

(* AuthMFAEnable: an account that asks for a second factor has one, and    *)
(* the owner has proved to hold it, unless two setups or enables           *)
(* overlapped.                                                             *)
SecondFactorIsHeld ==
    mfa.enabled =>
        \/ \E q \in Requests : local[q].raced /\ local[q].secret # none
        \/ \E q \in Requests : mfa.secret # none /\ local[q].secret = mfa.secret
                               /\ pc[q] \in {"mark", "done"}

(* upsertOIDCIdentity: however first logins with one external identity,    *)
(* with or without a verified address, overlap each other and a            *)
(* registration, every account that has no password is the one that        *)
(* identity leads to, and so does every session an external login opens:   *)
(* nobody is left with an account, and estimates in it, that no login      *)
(* reaches.                                                                *)
OneAccountPerIdentity ==
    /\ \A u \in DOMAIN accounts \ {first} : identity = u
    /\ \A q \in DOMAIN sessions \cap Requests :
        (local[q].token # none) => sessions[q].account = identity

=============================================================================
