------------------------------- MODULE Accounts -------------------------------
(***************************************************************************)
(* Accounts, what signs in to them and who administers them (api/src/      *)
(* users.rs, sessions.rs, auth.rs, attempts.rs, oidc.rs, recovery.rs and   *)
(* the handlers of routes/auth.rs, users.rs and oidc.rs).                  *)
(*                                                                         *)
(* A request first loads the account behind its session and then acts on   *)
(* what it loaded; a sign-in is counted, verified, forgiven and given its  *)
(* session in statements of their own, a single sign-on waits for the      *)
(* provider in between.  Each of these is a step, and requests interleave  *)
(* between them, those of administrators like all others.                  *)
(*                                                                         *)
(* Abstracted: an account is its address (changing it is Sharing's         *)
(* business), and a request that holds the id of a deleted one is marked,  *)
(* since an account made for the same address has another id; readers      *)
(* are members, a password stands for its hash, and a session past         *)
(* expires_at is gone: nothing brings either back.                         *)
(***************************************************************************)
EXTENDS Integers, FiniteSets

CONSTANTS
    Accounts,       \* addresses; those without an account can be guessed at too
    First,          \* the administrator bootstrap_admin made
    Passwords,      \* passwords somebody knows
    None,
    Sids,           \* session ids
    Flows,          \* states of single sign-on flows
    Requests,       \* concurrent requests
    FREE_ATTEMPTS,
    CreateAccounts  \* whether a provider's sign-in may make an account

ASSUME AccountsAssumption ==
    /\ First \in Accounts /\ Passwords # {}
    /\ None \notin Accounts \cup Passwords \cup Sids \cup {"admin", "member"}
ASSUME LimitsAssumption ==
    FREE_ATTEMPTS \in Nat \ {0} /\ CreateAccounts \in BOOLEAN

VARIABLES
    role,           \* None: no such account
    disabled,       \* accounts whose disabled_at is set
    password,       \* None: random, and known to nobody
    sessions,       \* the account of each live session
    app_passwords,  \* accounts with one that is not revoked
    password_login, \* the setting
    failures,       \* rows of attempts: what was counted against an address
    blocked,        \* those whose blocked_until is to come
    credit,         \* history: guesses an address may still be asked
    flows,          \* rows of oidc_flows
    late,           \* history: sessions of sign-ins that Disable overtook
    ops             \* what each request has read and is about to do

attemptVars == <<failures, blocked, credit>>
userVars == <<role, disabled, password>>
sessionVars == <<sessions, late>>
vars == <<role, disabled, password, sessions, app_passwords, password_login, failures, blocked,
          credit, flows, late, ops>>

Idle == [at |-> "idle", who |-> None, pw |-> None, sid |-> None, admin |-> FALSE,
         gone |-> FALSE, overtaken |-> FALSE]
Op == [at : {"idle", "verify", "forget", "open", "caller", "change", "store", "mint", "claims"},
       who : Accounts \cup {None}, pw : Passwords \cup {None},
       sid : Sids \cup {None}, admin : BOOLEAN,
       gone : BOOLEAN,      \* the account it holds the id of was deleted
       overtaken : BOOLEAN] \* history: it was disabled since it was verified

Exists(u) == role[u] # None
Active(u) == Exists(u) /\ u \notin disabled

(* The state is well formed: no session, app password or block outlives    *)
(* what it is for (foreign keys; blocked_until is of an attempt).          *)
TypeOK ==
    /\ role \in [Accounts -> {"admin", "member", None}]
    /\ disabled \subseteq {u \in Accounts : Exists(u)}
    /\ password \in [Accounts -> Passwords \cup {None}]
    /\ sessions \in [Sids -> Accounts \cup {None}]
    /\ \A s \in Sids : sessions[s] # None => Exists(sessions[s])
    /\ app_passwords \subseteq {u \in Accounts : Exists(u)}
    /\ password_login \in BOOLEAN
    /\ failures \in [Accounts -> 0 .. FREE_ATTEMPTS]
    /\ blocked \subseteq {u \in Accounts : failures[u] > 0}
    /\ credit \in [Accounts -> Int]
    /\ flows \subseteq Flows
    /\ late \subseteq {s \in Sids : sessions[s] # None}
    /\ ops \in [Requests -> Op]

Init ==
    /\ role = [u \in Accounts |-> IF u = First THEN "admin" ELSE None]
    /\ disabled = {}
    /\ password \in [Accounts -> Passwords \cup {None}]
    /\ \A u \in Accounts : password[u] = None <=> u # First
    /\ sessions = [s \in Sids |-> None]
    /\ app_passwords = {}
    /\ password_login = TRUE
    /\ failures = [u \in Accounts |-> 0] /\ blocked = {}
    /\ credit = [u \in Accounts |-> FREE_ATTEMPTS]
    /\ flows = {}
    /\ late = {}
    /\ ops = [r \in Requests |-> Idle]

-----------------------------------------------------------------------------
(* The account r acts for is still there, under the id it has.             *)
Known(r) == ~ops[r].gone /\ Exists(ops[r].who)

Goto(r, op) == ops' = [ops EXCEPT ![r] = op]
Done(r) == Goto(r, Idle)

(* blocked_for, as far as it tells: whether there is a block after the     *)
(* n-th attempt.                                                           *)
BlockedFor(n) == n >= FREE_ATTEMPTS

(* Mutant of Spend: the standing block is not looked at.                   *)
SpendBlindly(u) ==
    /\ failures' = [failures EXCEPT ![u] = IF @ < FREE_ATTEMPTS THEN @ + 1 ELSE @]
    /\ blocked' = IF BlockedFor(failures'[u]) THEN blocked \cup {u} ELSE blocked \ {u}
    /\ credit' = [credit EXCEPT ![u] = @ - 1]

(* spend: refused while a block stands, else counted; the count is capped, *)
(* since past the allowance it only makes blocks longer.                   *)
Spend(u) ==
    /\ u \notin blocked
    /\ failures' = [failures EXCEPT ![u] = IF @ < FREE_ATTEMPTS THEN @ + 1 ELSE @]
    /\ blocked' = IF BlockedFor(failures'[u]) THEN blocked \cup {u} ELSE blocked
    /\ credit' = [credit EXCEPT ![u] = @ - 1]

Forget(u) ==
    /\ failures' = [failures EXCEPT ![u] = 0]
    /\ blocked' = blocked \ {u}
    /\ credit' = [credit EXCEPT ![u] = FREE_ATTEMPTS]

(* blocked_until passes.                                                   *)
BlockServed(u) ==
    /\ u \in blocked
    /\ blocked' = blocked \ {u}
    /\ credit' = [credit EXCEPT ![u] = @ + 1]
    /\ UNCHANGED <<userVars, sessionVars, app_passwords, password_login, failures, flows, ops>>

(* MEMORY_SECONDS without an attempt; purge_expired deletes what spend     *)
(* reads no longer.                                                        *)
Forgotten(u) ==
    /\ failures[u] > 0 /\ u \notin blocked
    /\ Forget(u)
    /\ UNCHANGED <<userVars, sessionVars, app_passwords, password_login, flows, ops>>

-----------------------------------------------------------------------------
(* login.  A guess that is none of the passwords is wrong for everybody.   *)
Guesses == Passwords \cup {None}

LoginSpend(r, u, pw) ==
    /\ ops[r] = Idle
    /\ password_login
    /\ Spend(u)
    /\ Goto(r, [Idle EXCEPT !.at = "verify", !.who = u, !.pw = pw])
    /\ UNCHANGED <<userVars, sessionVars, app_passwords, password_login, flows>>

LoginVerify(r) ==
    LET u == ops[r].who
    IN  /\ ops[r].at = "verify"
        /\ IF Active(u) /\ ops[r].pw # None /\ password[u] = ops[r].pw
           THEN Goto(r, [Idle EXCEPT !.at = "forget", !.who = u]) ELSE Done(r)
        /\ UNCHANGED <<userVars, sessionVars, app_passwords, password_login, attemptVars, flows>>

LoginForget(r) ==
    /\ ops[r].at = "forget"
    /\ Forget(ops[r].who)
    /\ Goto(r, [ops[r] EXCEPT !.at = "open"])
    /\ UNCHANGED <<userVars, sessionVars, app_passwords, password_login, flows>>

FreeSids == {s \in Sids : sessions[s] = None /\ \A r \in Requests : ops[r].sid # s}

Opened(r, s) ==
    /\ sessions' = [sessions EXCEPT ![s] = ops[r].who]
    /\ late' = IF ops[r].overtaken THEN late \cup {s} ELSE late

(* The rows of these sessions go.                                          *)
Ended(ended) ==
    /\ sessions' = [s \in Sids |-> IF s \in ended THEN None ELSE sessions[s]]
    /\ late' = late \ ended

(* Mutant of OpenSession: the account is not asked for again.              *)
OpenSessionAnyway(r) ==
    /\ ops[r].at = "open"
    /\ \E s \in FreeSids : Opened(r, s)
    /\ Done(r)
    /\ UNCHANGED <<userVars, app_passwords, password_login, attemptVars, flows>>

(* Sessions::open; the foreign key refuses an account that is gone.        *)
OpenSession(r) ==
    /\ ops[r].at = "open"
    /\ IF Known(r)
       THEN \E s \in FreeSids : Opened(r, s)
       ELSE UNCHANGED sessionVars
    /\ Done(r)
    /\ UNCHANGED <<userVars, app_passwords, password_login, attemptVars, flows>>

SessionExpires(s) ==
    /\ sessions[s] # None
    /\ Ended({s})
    /\ UNCHANGED <<userVars, app_passwords, password_login, attemptVars, flows, ops>>

-----------------------------------------------------------------------------
(* Single sign-on.                                                         *)
BeginFlow(f) ==
    /\ f \notin flows
    /\ flows' = flows \cup {f}
    /\ UNCHANGED <<userVars, sessionVars, app_passwords, password_login, attemptVars, ops>>

FlowExpires(f) ==
    /\ f \in flows
    /\ flows' = flows \ {f}
    /\ UNCHANGED <<userVars, sessionVars, app_passwords, password_login, attemptVars, ops>>

ClaimFlow(f) == f \in flows /\ flows' = flows \ {f}

(* callback, up to the question to the provider.                           *)
Callback(r, f) ==
    /\ ops[r] = Idle
    /\ ClaimFlow(f)
    /\ Goto(r, [Idle EXCEPT !.at = "claims"])
    /\ UNCHANGED <<userVars, sessionVars, app_passwords, password_login, attemptVars>>

(* The provider vouches for u: admit, and the check of what it answers.    *)
Admit(r, u) ==
    /\ ops[r].at = "claims"
    /\ Exists(u) \/ CreateAccounts
    /\ IF Exists(u)
       THEN UNCHANGED userVars
       ELSE /\ role' = [role EXCEPT ![u] = "member"]
            /\ password' = [password EXCEPT ![u] = None]
            /\ UNCHANGED disabled
    /\ IF u \in disabled THEN Done(r)
       ELSE Goto(r, [Idle EXCEPT !.at = "open", !.who = u])
    /\ UNCHANGED <<sessionVars, app_passwords, password_login, attemptVars, flows>>

(* It does not, or not for an address that has or may have an account.     *)
Refused(r) ==
    /\ ops[r].at = "claims"
    /\ Done(r)
    /\ UNCHANGED <<userVars, sessionVars, app_passwords, password_login, attemptVars, flows>>

-----------------------------------------------------------------------------
(* Caller: the session is live, or the app password is not revoked, and    *)
(* its account is loaded and active.  With a session it is Admin too when  *)
(* the role it was loaded with says so, whatever becomes of the role.      *)
Load(r, u, s) ==
    /\ ops[r] = Idle
    /\ Goto(r, [Idle EXCEPT
           !.at = "caller", !.who = u, !.sid = s, !.admin = s # None /\ role[u] = "admin",
           !.pw = IF s = None THEN None ELSE password[u]])
    /\ UNCHANGED <<userVars, sessionVars, app_passwords, password_login, attemptVars, flows>>

Enter(r, s) == sessions[s] # None /\ Active(sessions[s]) /\ Load(r, sessions[s], s)

(* authenticate, for WebDAV and for what needs no session.                 *)
EnterWithAppPassword(r, u) == Active(u) /\ u \in app_passwords /\ Load(r, u, None)

Caller(r) == ops[r].at = "caller"
SessionCaller(r) == Caller(r) /\ ops[r].sid # None

Logout(r) ==
    /\ SessionCaller(r)
    /\ Ended({ops[r].sid})
    /\ Done(r)
    /\ UNCHANGED <<userVars, app_passwords, password_login, attemptVars, flows>>

(* Any request that changes nothing here.                                  *)
Leave(r) ==
    /\ Caller(r)
    /\ Done(r)
    /\ UNCHANGED <<userVars, sessionVars, app_passwords, password_login, attemptVars, flows>>

RevokeAll(u, keeping) == Ended({s \in Sids : sessions[s] = u /\ s # keeping})

(* change_password: the current one is compared with the hash the request  *)
(* was loaded with.                                                        *)
ChangeSpend(r, pw) ==
    /\ SessionCaller(r)
    /\ Spend(ops[r].who)
    /\ IF pw # None /\ pw = ops[r].pw
       THEN Goto(r, [ops[r] EXCEPT !.at = "change", !.pw = None, !.admin = FALSE]) ELSE Done(r)
    /\ UNCHANGED <<userVars, sessionVars, app_passwords, password_login, flows>>

ChangeForget(r) ==
    /\ ops[r].at = "change"
    /\ Forget(ops[r].who)
    /\ Goto(r, [ops[r] EXCEPT !.at = "store"])
    /\ UNCHANGED <<userVars, sessionVars, app_passwords, password_login, flows>>

(* The account is gone, or the new password is not acceptable.             *)
ChangeRefused(r) ==
    /\ ops[r].at = "store"
    /\ Done(r)
    /\ UNCHANGED <<userVars, sessionVars, app_passwords, password_login, attemptVars, flows>>

ChangePassword(r, new) ==
    LET u == ops[r].who
    IN  /\ ops[r].at = "store" /\ Known(r)
        /\ password' = [password EXCEPT ![u] = new]
        /\ RevokeAll(u, ops[r].sid)
        /\ Done(r)
        /\ UNCHANGED <<role, disabled, app_passwords, password_login, attemptVars, flows>>

(* mint: the account is looked at again before the password is stored; one *)
(* per account is enough, being as good as the next.                       *)
MintLook(r) ==
    /\ SessionCaller(r)
    /\ IF Known(r) /\ Active(ops[r].who)
       THEN Goto(r, [Idle EXCEPT !.at = "mint", !.who = ops[r].who]) ELSE Done(r)
    /\ UNCHANGED <<userVars, sessionVars, app_passwords, password_login, attemptVars, flows>>

Mint(r) ==
    /\ ops[r].at = "mint"
    /\ app_passwords' = app_passwords \cup {u \in {ops[r].who} : Known(r)}
    /\ Done(r)
    /\ UNCHANGED <<userVars, sessionVars, password_login, attemptVars, flows>>

(* revoke, and revoke_presented by the client that holds it.               *)
RevokeAppPassword(r) ==
    /\ Caller(r) /\ Known(r) /\ ops[r].who \in app_passwords
    /\ app_passwords' = app_passwords \ {ops[r].who}
    /\ Done(r)
    /\ UNCHANGED <<userVars, sessionVars, password_login, attemptVars, flows>>

-----------------------------------------------------------------------------
(* Administrators.                                                         *)
Admin(r) == Caller(r) /\ ops[r].admin
Oneself(r, u) == u = ops[r].who /\ ~ops[r].gone

Create(r, u, as, pw) ==
    /\ Admin(r)
    /\ ~Exists(u)
    /\ role' = [role EXCEPT ![u] = as]
    /\ password' = [password EXCEPT ![u] = pw]
    /\ Done(r)
    /\ UNCHANGED <<disabled, sessionVars, app_passwords, password_login, attemptVars, flows>>

(* Mutant of Disable: only the flag is set.                                *)
DisableOnly(r, u) ==
    /\ Admin(r) /\ Exists(u)
    /\ ~Oneself(r, u)
    /\ disabled' = disabled \cup {u}
    /\ Done(r)
    /\ UNCHANGED <<role, password, sessionVars, app_passwords, password_login, attemptVars, flows>>

SigningIn(q, u) == ops[q].at \in {"forget", "open"} /\ ops[q].who = u /\ ~ops[q].gone

Disable(r, u) ==
    /\ Admin(r) /\ Exists(u)
    /\ ~Oneself(r, u)
    /\ disabled' = disabled \cup {u}
    /\ RevokeAll(u, None)
    /\ ops' = [q \in Requests |->
          IF q = r THEN Idle
          ELSE IF SigningIn(q, u) THEN [ops[q] EXCEPT !.overtaken = TRUE] ELSE ops[q]]
    /\ UNCHANGED <<role, password, app_passwords, password_login, attemptVars, flows>>

Enable(r, u) ==
    /\ Admin(r) /\ u \in disabled
    /\ disabled' = disabled \ {u}
    /\ Done(r)
    /\ UNCHANGED <<role, password, sessionVars, app_passwords, password_login, attemptVars, flows>>

SetRole(r, u, as) ==
    /\ Admin(r) /\ Exists(u)
    /\ Oneself(r, u) => as = "admin"
    /\ role' = [role EXCEPT ![u] = as]
    /\ Done(r)
    /\ UNCHANGED <<disabled, password, sessionVars, app_passwords, password_login, attemptVars, flows>>

(* delete: rows that refer to the account go with it; what was counted     *)
(* against its address stays.                                              *)
Delete(r, u) ==
    /\ Admin(r) /\ Exists(u)
    /\ ~Oneself(r, u)
    /\ role' = [role EXCEPT ![u] = None]
    /\ disabled' = disabled \ {u}
    /\ password' = [password EXCEPT ![u] = None]
    /\ RevokeAll(u, None)
    /\ app_passwords' = app_passwords \ {u}
    /\ ops' = [q \in Requests |->
          IF q = r THEN Idle
          ELSE IF ops[q].who = u /\ ops[q].at # "verify" THEN [ops[q] EXCEPT !.gone = TRUE]
          ELSE ops[q]]
    /\ UNCHANGED <<password_login, attemptVars, flows>>

ResetPassword(r, u, pw) ==
    /\ Admin(r) /\ Exists(u)
    /\ password' = [password EXCEPT ![u] = pw]
    /\ RevokeAll(u, None)
    /\ Done(r)
    /\ UNCHANGED <<role, disabled, app_passwords, password_login, attemptVars, flows>>

SignOutEverywhere(r, u) ==
    /\ Admin(r) /\ Exists(u)
    /\ RevokeAll(u, None)
    /\ Done(r)
    /\ UNCHANGED <<userVars, app_passwords, password_login, attemptVars, flows>>

Unlock(r, u) ==
    /\ Admin(r) /\ Exists(u)
    /\ Forget(u)
    /\ Done(r)
    /\ UNCHANGED <<userVars, sessionVars, app_passwords, password_login, flows>>

(* set_methods, where there is a provider; without one it only turns       *)
(* passwords on.                                                           *)
SetMethods(r, on) ==
    /\ Admin(r)
    /\ on \/ Flows # {}
    /\ password_login' = on
    /\ Done(r)
    /\ UNCHANGED <<userVars, sessionVars, app_passwords, attemptVars, flows>>

(* recovery::reset_password, on the server's command line.                 *)
Recover(u, pw) ==
    /\ Exists(u)
    /\ password' = [password EXCEPT ![u] = pw]
    /\ RevokeAll(u, None)
    /\ Forget(u)
    /\ UNCHANGED <<role, disabled, app_passwords, password_login, flows, ops>>

-----------------------------------------------------------------------------
(* What passes with time, or comes from the command line.                  *)
Elapse ==
    \/ \E u \in Accounts : BlockServed(u) \/ Forgotten(u)
    \/ \E s \in Sids : SessionExpires(s)
    \/ \E f \in Flows : BeginFlow(f) \/ FlowExpires(f)
    \/ \E u \in Accounts, pw \in Passwords : Recover(u, pw)

SignInStep(r) ==
    \/ \E u \in Accounts, pw \in Guesses : LoginSpend(r, u, pw)
    \/ LoginVerify(r) \/ LoginForget(r) \/ OpenSession(r)
    \/ \E f \in Flows : Callback(r, f)
    \/ \E u \in Accounts : Admit(r, u)
    \/ Refused(r)

CallerStep(r) ==
    \/ \E s \in Sids : Enter(r, s)
    \/ \E u \in Accounts : EnterWithAppPassword(r, u)
    \/ MintLook(r) \/ Mint(r) \/ RevokeAppPassword(r)
    \/ Logout(r) \/ Leave(r)
    \/ \E pw \in Guesses : ChangeSpend(r, pw)
    \/ ChangeForget(r) \/ ChangeRefused(r)
    \/ \E pw \in Passwords : ChangePassword(r, pw)

AdminStep(r) ==
    \/ \E u \in Accounts :
           \/ \E as \in {"admin", "member"} :
                  SetRole(r, u, as) \/ \E pw \in Passwords : Create(r, u, as, pw)
           \/ \E pw \in Passwords : ResetPassword(r, u, pw)
           \/ Disable(r, u) \/ Enable(r, u) \/ Delete(r, u)
           \/ SignOutEverywhere(r, u) \/ Unlock(r, u)
    \/ \E on \in BOOLEAN : SetMethods(r, on)

Next ==
    \/ Elapse
    \/ \E r \in Requests : SignInStep(r) \/ CallerStep(r) \/ AdminStep(r)

Spec == Init /\ [][Next]_vars

-----------------------------------------------------------------------------
(* Guessing is a ladder: past the free attempts, an address is asked one   *)
(* guess for each block that was served, however many arrive at once and   *)
(* whatever is verified, forgiven or unlocked meanwhile (attempts::spend). *)
GuessesAreEarned == \A u \in Accounts : credit[u] >= 0

(* Disabling an account ends what is signed in to it (routes/users.rs,     *)
(* disable): while it is disabled it has no session, whatever way of       *)
(* signing in was under way, but that of a sign-in that had been verified  *)
(* or vouched for before the account was disabled and opened its session   *)
(* afterwards (routes/auth.rs).                                            *)
DisablingEndsSessions == \A s \in Sids : sessions[s] \in disabled => s \in late

=============================================================================
