---------------------------- MODULE AccountsProofs ----------------------------
(***************************************************************************)
(* For any number of accounts, sessions and concurrent requests: the state *)
(* keeps its type, guesses are earned one by one, and disabling an account *)
(* leaves it no session but those of the sign-ins it overtook.             *)
(***************************************************************************)
EXTENDS Accounts, TLAPS

(* A request that has named an account holds one, not None.                *)
Naming == {"verify", "forget", "open", "caller", "change", "store", "mint"}
OpsNameAccounts == \A r \in Requests : ops[r].at \in Naming => ops[r].who \in Accounts

TypeInv == TypeOK /\ OpsNameAccounts

(* What the count, the block and the credit of an address have to do with  *)
(* each other: nothing is left while a block stands, one guess after it    *)
(* was served, and before the first block the attempts not yet made.       *)
Ladder ==
    \A u \in Accounts :
        /\ u \in blocked => failures[u] = FREE_ATTEMPTS
        /\ credit[u] = IF u \in blocked THEN 0
                       ELSE IF failures[u] < FREE_ATTEMPTS THEN FREE_ATTEMPTS - failures[u]
                       ELSE 1

-----------------------------------------------------------------------------
(* Every variable keeps its type, whatever overlaps.                       *)
(* A request moves on to what it read, and an attempt is counted.          *)
LEMMA GotoTypes ==
    ASSUME TypeInv, NEW r \in Requests, NEW op \in Op, Goto(r, op),
           op.at \in Naming => op.who \in Accounts
    PROVE  ops' \in [Requests -> Op] /\ OpsNameAccounts'
BY DEF TypeInv, TypeOK, OpsNameAccounts, Goto

(* An attempt that is spent leaves a count within the limit.               *)
LEMMA SpendTypes ==
    ASSUME TypeOK, NEW u \in Accounts, Spend(u)
    PROVE  /\ failures' \in [Accounts -> 0 .. FREE_ATTEMPTS]
           /\ blocked' \subseteq {v \in Accounts : failures'[v] > 0}
           /\ credit' \in [Accounts -> Int]
BY LimitsAssumption DEF TypeOK, Spend, BlockedFor

(* Every step keeps the types.                                             *)
LEMMA TypeStep == TypeInv /\ [Next]_vars => TypeInv'
<1> SUFFICES ASSUME TypeInv, [Next]_vars PROVE TypeInv'
  OBVIOUS
<1> USE AccountsAssumption, LimitsAssumption
    DEF TypeInv, TypeOK, OpsNameAccounts, Naming, Op, Idle, Exists, Active,
        attemptVars, userVars, sessionVars, vars, Ended, Opened
<1>1. ASSUME NEW u \in Accounts, BlockServed(u) PROVE TypeInv'
  BY <1>1 DEF BlockServed
<1>2. ASSUME NEW u \in Accounts, Forgotten(u) PROVE TypeInv'
  BY <1>2 DEF Forgotten, Forget
<1>3. ASSUME NEW s \in Sids, SessionExpires(s) PROVE TypeInv'
  BY <1>3 DEF SessionExpires
<1>4. ASSUME NEW f \in Flows, BeginFlow(f) PROVE TypeInv'
  BY <1>4 DEF BeginFlow
<1>5. ASSUME NEW f \in Flows, FlowExpires(f) PROVE TypeInv'
  BY <1>5 DEF FlowExpires
<1>6. ASSUME NEW u \in Accounts, NEW pw \in Passwords, Recover(u, pw) PROVE TypeInv'
  BY <1>6 DEF Recover, RevokeAll, Forget
<1>7. ASSUME NEW r \in Requests, NEW u \in Accounts, NEW pw \in Guesses, LoginSpend(r, u, pw)
      PROVE  TypeInv'
  <2>1. [Idle EXCEPT !.at = "verify", !.who = u, !.pw = pw] \in Op
    BY DEF Guesses
  <2>2. ops' \in [Requests -> Op] /\ OpsNameAccounts'
    BY <1>7, <2>1, GotoTypes DEF LoginSpend
  <2> QED
    BY <1>7, <2>2, SpendTypes DEF LoginSpend
<1>8. ASSUME NEW r \in Requests, LoginVerify(r) PROVE TypeInv'
  <2>1. [Idle EXCEPT !.at = "forget", !.who = ops[r].who] \in Op /\ Idle \in Op
    BY <1>8 DEF LoginVerify
  <2>2. ops' \in [Requests -> Op] /\ OpsNameAccounts'
    BY <1>8, <2>1, GotoTypes DEF LoginVerify, Done
  <2> QED
    BY <1>8, <2>2 DEF LoginVerify
<1>9. ASSUME NEW r \in Requests, LoginForget(r) PROVE TypeInv'
  BY <1>9 DEF LoginForget, Forget, Goto
<1>10. ASSUME NEW r \in Requests, OpenSession(r) PROVE TypeInv'
  <2>1. ops' \in [Requests -> Op] /\ OpsNameAccounts'
    BY <1>10, GotoTypes DEF OpenSession, Done
  <2>2. ops[r].who \in Accounts
    BY <1>10 DEF OpenSession
  <2>3. CASE Known(r)
    BY <1>10, <2>1, <2>2, <2>3 DEF OpenSession, FreeSids, Known
  <2>4. CASE ~Known(r)
    BY <1>10, <2>1, <2>4 DEF OpenSession
  <2> QED
    BY <2>3, <2>4
<1>11. ASSUME NEW r \in Requests, Refused(r) PROVE TypeInv'
  BY <1>11 DEF Refused, Goto, Done
<1>12. ASSUME NEW r \in Requests, MintLook(r) PROVE TypeInv'
  <2>1. [Idle EXCEPT !.at = "mint", !.who = ops[r].who] \in Op /\ Idle \in Op
    BY <1>12
  <2>2. ops[r].who \in Accounts
    BY <1>12 DEF MintLook, SessionCaller, Caller
  <2>3. ops' \in [Requests -> Op] /\ OpsNameAccounts'
    BY <1>12, <2>1, <2>2, GotoTypes DEF MintLook, Done
  <2> QED
    BY <1>12, <2>3 DEF MintLook
<1>13. ASSUME NEW r \in Requests, Mint(r) PROVE TypeInv'
  BY <1>13 DEF Mint, Known, Goto, Done
<1>14. ASSUME NEW r \in Requests, RevokeAppPassword(r) PROVE TypeInv'
  BY <1>14 DEF RevokeAppPassword, Goto, Done
<1>15. ASSUME NEW r \in Requests, Logout(r) PROVE TypeInv'
  BY <1>15 DEF Logout, SessionCaller, Goto, Done
<1>16. ASSUME NEW r \in Requests, Leave(r) PROVE TypeInv'
  BY <1>16 DEF Leave, Goto, Done
<1>17. ASSUME NEW r \in Requests, NEW f \in Flows, Callback(r, f) PROVE TypeInv'
  BY <1>17 DEF Callback, ClaimFlow, Goto
<1>18. ASSUME NEW r \in Requests, NEW u \in Accounts, Admit(r, u) PROVE TypeInv'
  <2>1. [Idle EXCEPT !.at = "open", !.who = u] \in Op /\ Idle \in Op
    OBVIOUS
  <2>2. ops' \in [Requests -> Op] /\ OpsNameAccounts'
    BY <1>18, <2>1, GotoTypes DEF Admit, Done
  <2> QED
    BY <1>18, <2>2 DEF Admit
<1>19. ASSUME NEW r \in Requests, NEW s \in Sids, Enter(r, s) PROVE TypeInv'
  BY <1>19 DEF Enter, Load, Goto
<1>20. ASSUME NEW r \in Requests, NEW u \in Accounts, EnterWithAppPassword(r, u) PROVE TypeInv'
  BY <1>20 DEF EnterWithAppPassword, Load, Goto
<1>21. ASSUME NEW r \in Requests, NEW pw \in Guesses, ChangeSpend(r, pw) PROVE TypeInv'
  <2>0. ops[r] \in Op /\ Idle \in Op
    BY <1>21
  <2>1. [ops[r] EXCEPT !.at = "change", !.pw = None, !.admin = FALSE] \in Op
    BY <2>0
  <2>2. ops[r].who \in Accounts
    BY <1>21 DEF ChangeSpend, SessionCaller, Caller
  <2>3. ops' \in [Requests -> Op] /\ OpsNameAccounts'
    BY <1>21, <2>0, <2>1, <2>2, GotoTypes DEF ChangeSpend, Done
  <2> QED
    BY <1>21, <2>2, <2>3, SpendTypes DEF ChangeSpend
<1>22. ASSUME NEW r \in Requests, NEW pw \in Passwords, ChangePassword(r, pw) PROVE TypeInv'
  BY <1>22 DEF ChangePassword, Known, RevokeAll, Goto, Done
<1>33. ASSUME NEW r \in Requests, ChangeForget(r) PROVE TypeInv'
  <2>1. [ops[r] EXCEPT !.at = "store"] \in Op
    OBVIOUS
  <2>2. ops[r].who \in Accounts
    BY <1>33 DEF ChangeForget
  <2>3. ops' \in [Requests -> Op] /\ OpsNameAccounts'
    BY <1>33, <2>1, <2>2, GotoTypes DEF ChangeForget
  <2> QED
    BY <1>33, <2>3 DEF ChangeForget, Forget
<1>34. ASSUME NEW r \in Requests, ChangeRefused(r) PROVE TypeInv'
  BY <1>34 DEF ChangeRefused, Goto, Done
<1>23. ASSUME NEW r \in Requests, NEW u \in Accounts, NEW as \in {"admin", "member"}, SetRole(r, u, as)
       PROVE  TypeInv'
  BY <1>23 DEF SetRole, Goto, Done
<1>24. ASSUME NEW r \in Requests, NEW u \in Accounts, NEW as \in {"admin", "member"},
             NEW pw \in Passwords, Create(r, u, as, pw) PROVE TypeInv'
  BY <1>24 DEF Create, Goto, Done
<1>25. ASSUME NEW r \in Requests, NEW u \in Accounts, NEW pw \in Passwords, ResetPassword(r, u, pw)
       PROVE  TypeInv'
  BY <1>25 DEF ResetPassword, RevokeAll, Goto, Done
<1>26. ASSUME NEW r \in Requests, NEW u \in Accounts, Disable(r, u) PROVE TypeInv'
  <2>1. ASSUME NEW q \in Requests
        PROVE  ops'[q] \in Op /\ (ops'[q].at \in Naming => ops'[q].who \in Accounts)
    <3>1. ops[q] \in Op /\ Idle \in Op
      BY <2>1
    <3>2. /\ [ops[q] EXCEPT !.overtaken = TRUE] \in Op
          /\ [ops[q] EXCEPT !.overtaken = TRUE].at = ops[q].at
          /\ [ops[q] EXCEPT !.overtaken = TRUE].who = ops[q].who
      BY <3>1
    <3>3. ops'[q] \in {Idle, ops[q], [ops[q] EXCEPT !.overtaken = TRUE]}
      BY <1>26 DEF Disable
    <3> QED
      BY <3>1, <3>2, <3>3
  <2>2. ops' \in [Requests -> Op]
    BY <1>26, <2>1 DEF Disable
  <2> HIDE DEF Op, Naming
  <2> QED
    BY <1>26, <2>1, <2>2 DEF Disable, RevokeAll
<1>27. ASSUME NEW r \in Requests, NEW u \in Accounts, Enable(r, u) PROVE TypeInv'
  BY <1>27 DEF Enable, Goto, Done
<1>28. ASSUME NEW r \in Requests, NEW u \in Accounts, Delete(r, u) PROVE TypeInv'
  <2>1. ASSUME NEW q \in Requests
        PROVE  ops'[q] \in Op /\ (ops'[q].at \in Naming => ops'[q].who \in Accounts)
    <3>1. ops[q] \in Op /\ Idle \in Op
      BY <2>1
    <3>2. /\ [ops[q] EXCEPT !.gone = TRUE] \in Op
          /\ [ops[q] EXCEPT !.gone = TRUE].at = ops[q].at
          /\ [ops[q] EXCEPT !.gone = TRUE].who = ops[q].who
      BY <3>1
    <3>3. ops'[q] \in {Idle, ops[q], [ops[q] EXCEPT !.gone = TRUE]}
      BY <1>28 DEF Delete
    <3> QED
      BY <3>1, <3>2, <3>3
  <2>2. sessions' \in [Sids -> Accounts \cup {None}]
    BY <1>28 DEF Delete, RevokeAll
  <2>3. \A s \in Sids : sessions'[s] # None => role'[sessions'[s]] # None
    BY <1>28 DEF Delete, RevokeAll
  <2>4. late' \subseteq {s \in Sids : sessions'[s] # None}
    BY <1>28, <2>2 DEF Delete, RevokeAll
  <2>5. ops' \in [Requests -> Op]
    BY <1>28, <2>1 DEF Delete
  <2> HIDE DEF Op, Naming
  <2> QED
    BY <1>28, <2>1, <2>2, <2>3, <2>4, <2>5 DEF Delete
<1>29. ASSUME NEW r \in Requests, NEW u \in Accounts, SignOutEverywhere(r, u) PROVE TypeInv'
  BY <1>29 DEF SignOutEverywhere, RevokeAll, Goto, Done
<1>30. ASSUME NEW r \in Requests, NEW u \in Accounts, Unlock(r, u) PROVE TypeInv'
  BY <1>30 DEF Unlock, Forget, Goto, Done
<1>31. ASSUME NEW r \in Requests, NEW on \in BOOLEAN, SetMethods(r, on) PROVE TypeInv'
  BY <1>31 DEF SetMethods, Goto, Done
<1>32. CASE UNCHANGED vars
  BY <1>32
<1> QED
  BY <1>1, <1>2, <1>3, <1>4, <1>5, <1>6, <1>7, <1>8, <1>9, <1>10, <1>11, <1>12, <1>13, <1>14,
     <1>15, <1>16, <1>17, <1>18, <1>19, <1>20, <1>21, <1>22, <1>23, <1>24, <1>25, <1>26,
     <1>27, <1>28, <1>29, <1>30, <1>31, <1>32, <1>33, <1>34 DEF Next, Elapse, SignInStep, CallerStep,
     AdminStep

(* The types hold in every reachable state.                                *)
LEMMA TypeInvariant == Spec => []TypeInv
<1>1. Init => TypeInv
  BY AccountsAssumption, LimitsAssumption
     DEF Init, TypeInv, TypeOK, OpsNameAccounts, Naming, Op, Idle, Exists
<1> QED
  BY <1>1, TypeStep, PTL DEF Spec

(* Nothing the code does to accounts, sessions and attempts, in whatever   *)
(* order requests get their turns, leaves the state ill formed: a session  *)
(* never outlives its account, and no block is without an attempt.         *)
THEOREM AccountTypes == Spec => []TypeOK
<1>1. TypeInv => TypeOK
  BY DEF TypeInv
<1> QED
  BY <1>1, TypeInvariant, PTL

-----------------------------------------------------------------------------
(* A step leaves the attempts alone, counts one against an address that is *)
(* not blocked, forgets an address, or ends the block of one.              *)
Serve(u) ==
    /\ u \in blocked
    /\ blocked' = blocked \ {u}
    /\ credit' = [credit EXCEPT ![u] = @ + 1]
    /\ UNCHANGED failures

(* What a step does to the attempts: nothing, or one is spent, forgotten   *)
(* or served.                                                              *)
LEMMA AttemptStep ==
    TypeInv /\ [Next]_vars =>
        \/ UNCHANGED attemptVars
        \/ \E u \in Accounts : Spend(u) \/ Forget(u) \/ Serve(u)
<1> SUFFICES ASSUME TypeInv, [Next]_vars, ~UNCHANGED attemptVars
             PROVE  \E u \in Accounts : Spend(u) \/ Forget(u) \/ Serve(u)
  OBVIOUS
<1> DEFINE Goal == \E u \in Accounts : Spend(u) \/ Forget(u) \/ Serve(u)
<1>1. CASE Elapse
  BY <1>1 DEF Elapse, BlockServed, Serve, Forgotten, SessionExpires, BeginFlow,
     FlowExpires, Recover, attemptVars
<1>2. ASSUME NEW r \in Requests, SignInStep(r) PROVE Goal
  <2>1. CASE \E u \in Accounts, pw \in Guesses : LoginSpend(r, u, pw)
    BY <2>1 DEF LoginSpend
  <2>2. CASE LoginForget(r)
    BY <2>2 DEF LoginForget, TypeInv, OpsNameAccounts, Naming
  <2> QED
    BY <1>2, <2>1, <2>2
    DEF SignInStep, LoginVerify, OpenSession, Callback, Admit, Refused, attemptVars
<1>3. ASSUME NEW r \in Requests, CallerStep(r) PROVE Goal
  <2>1. CASE \E pw \in Guesses : ChangeSpend(r, pw)
    BY <2>1 DEF ChangeSpend, SessionCaller, Caller, TypeInv, OpsNameAccounts, Naming
  <2>2. CASE ChangeForget(r)
    BY <2>2 DEF ChangeForget, TypeInv, OpsNameAccounts, Naming
  <2> QED
    BY <1>3, <2>1, <2>2
    DEF CallerStep, ChangeRefused, ChangePassword, Enter, EnterWithAppPassword, Load, MintLook, Mint, RevokeAppPassword,
        Logout, Leave, attemptVars
<1>4. ASSUME NEW r \in Requests, AdminStep(r) PROVE Goal
  BY <1>4 DEF AdminStep, SetRole, Create, ResetPassword, Disable, Enable, Delete,
     SignOutEverywhere, Unlock, SetMethods, attemptVars
<1> QED
  BY <1>1, <1>2, <1>3, <1>4 DEF Next, attemptVars, vars

(* The ladder of guesses: whoever asks, and however many at once, an       *)
(* address is asked one guess for each block served once the free attempts *)
(* are used up (attempts::spend).                                          *)
THEOREM GuessesAreAlwaysEarned == Spec => []GuessesAreEarned
<1> USE LimitsAssumption
<1>1. Init => Ladder
  BY DEF Init, Ladder
<1>2. TypeInv /\ Ladder /\ [Next]_vars => Ladder'
  <2> SUFFICES ASSUME TypeInv, Ladder, [Next]_vars PROVE Ladder'
    OBVIOUS
  <2> USE DEF TypeInv, TypeOK, Ladder
  <2>1. CASE UNCHANGED attemptVars
    BY <2>1 DEF attemptVars
  <2>2. ASSUME NEW u \in Accounts, Spend(u) PROVE Ladder'
    BY <2>2 DEF Spend, BlockedFor
  <2>3. ASSUME NEW u \in Accounts, Forget(u) PROVE Ladder'
    BY <2>3 DEF Forget
  <2>4. ASSUME NEW u \in Accounts, Serve(u) PROVE Ladder'
    BY <2>4 DEF Serve
  <2> QED
    BY <2>1, <2>2, <2>3, <2>4, AttemptStep
<1>3. TypeInv /\ Ladder => GuessesAreEarned
  BY DEF TypeInv, TypeOK, Ladder, GuessesAreEarned
<1> QED
  BY <1>1, <1>2, <1>3, TypeInvariant, PTL DEF Spec

-----------------------------------------------------------------------------
(* Disabling.  A sign-in that is past its check of the account holds one   *)
(* that is not disabled, or that was disabled behind its back.             *)
VerifiedOrOvertaken ==
    \A r \in Requests : \A u \in disabled : SigningIn(r, u) => ops[r].overtaken

DisablingInv == VerifiedOrOvertaken /\ DisablingEndsSessions

(* A step that disables nobody, opens no session, and lets no sign-in pass *)
(* its check of the account.                                               *)
LEMMA DisablingKept ==
    ASSUME TypeInv, DisablingInv,
           disabled' \subseteq disabled,
           \A s \in Sids : sessions'[s] # None => sessions'[s] = sessions[s]
                                                  /\ (s \in late => s \in late'),
           \A r \in Requests : \A u \in disabled' :
               SigningIn(r, u)' => ops'[r].overtaken \/ (SigningIn(r, u) /\ ops'[r].overtaken = ops[r].overtaken)
    PROVE  DisablingInv'
<1>1. VerifiedOrOvertaken'
  BY DEF DisablingInv, VerifiedOrOvertaken
<1>2. DisablingEndsSessions'
  BY AccountsAssumption DEF DisablingInv, DisablingEndsSessions, TypeInv, TypeOK
<1> QED
  BY <1>1, <1>2 DEF DisablingInv

(* What a request turns into matters only when that is a sign-in past its  *)
(* check.                                                                  *)
LEMMA GotoKeeps ==
    ASSUME TypeInv, NEW r \in Requests, NEW op \in Op, Goto(r, op),
           \A u \in disabled' :
               op.at \in {"forget", "open"} /\ op.who = u /\ ~op.gone =>
                   op.overtaken \/ (SigningIn(r, u) /\ op.overtaken = ops[r].overtaken)
    PROVE  \A q \in Requests : \A u \in disabled' :
               SigningIn(q, u)' =>
                   ops'[q].overtaken \/ (SigningIn(q, u) /\ ops'[q].overtaken = ops[q].overtaken)
BY DEF Goto, SigningIn, TypeInv, TypeOK

(* Every step keeps DisablingInv.                                          *)
LEMMA DisablingStep ==
    ASSUME TypeInv, DisablingInv, [Next]_vars
    PROVE  DisablingInv'
<1> USE AccountsAssumption
<1>t. /\ sessions \in [Sids -> Accounts \cup {None}]
      /\ ops \in [Requests -> Op]
      /\ disabled \subseteq Accounts
      /\ Idle \in Op
  BY DEF TypeInv, TypeOK, Idle, Op
<1>k. ASSUME disabled' \subseteq disabled, UNCHANGED sessionVars,
             NEW r \in Requests, NEW op \in Op, Goto(r, op),
             \A u \in disabled' :
                 op.at \in {"forget", "open"} /\ op.who = u /\ ~op.gone =>
                     op.overtaken \/ (SigningIn(r, u) /\ op.overtaken = ops[r].overtaken)
      PROVE  DisablingInv'
  BY <1>k, GotoKeeps, DisablingKept DEF sessionVars
<1>d. ASSUME disabled' \subseteq disabled, UNCHANGED sessionVars,
             NEW r \in Requests, Done(r)
      PROVE  DisablingInv'
  BY <1>d, <1>k, <1>t DEF Done, Idle
<1>e. ASSUME disabled' \subseteq disabled, NEW ended, Ended(ended),
             NEW r \in Requests, Done(r)
      PROVE  DisablingInv'
  <2>1. \A s \in Sids : sessions'[s] # None => sessions'[s] = sessions[s]
                                               /\ (s \in late => s \in late')
    BY <1>e, <1>t DEF Ended
  <2>2. \A u \in disabled' : ~(Idle.at \in {"forget", "open"})
    BY DEF Idle
  <2> QED
    BY <1>e, <1>t, <2>1, <2>2, GotoKeeps, DisablingKept DEF Done
<1>o. ASSUME UNCHANGED <<ops, disabled>>,
             UNCHANGED sessionVars \/ \E ended : Ended(ended)
      PROVE  DisablingInv'
  <2>1. \A s \in Sids : sessions'[s] # None => sessions'[s] = sessions[s]
                                               /\ (s \in late => s \in late')
    BY <1>o, <1>t DEF Ended, sessionVars
  <2>2. \A q \in Requests : \A u \in disabled' :
            SigningIn(q, u)' => SigningIn(q, u) /\ ops'[q].overtaken = ops[q].overtaken
    BY <1>o DEF SigningIn
  <2> QED
    BY <1>o, <2>1, <2>2, DisablingKept
<1>1. CASE Elapse
  BY <1>1, <1>o DEF Elapse, BlockServed, Forgotten, SessionExpires, BeginFlow, FlowExpires,
     Recover, RevokeAll, userVars
<1>2. ASSUME NEW r \in Requests, SignInStep(r) PROVE DisablingInv'
  <2>1. ASSUME NEW u \in Accounts, NEW pw \in Guesses, LoginSpend(r, u, pw)
        PROVE  DisablingInv'
    <3> DEFINE op == [Idle EXCEPT !.at = "verify", !.who = u, !.pw = pw]
    <3>1. op \in Op /\ op.at = "verify"
      BY DEF Idle, Op, Guesses
    <3> HIDE DEF op
    <3>2. Goto(r, op) /\ UNCHANGED <<disabled, sessionVars>>
      BY <2>1 DEF LoginSpend, userVars, op
    <3> QED
      BY <3>1, <3>2, <1>k
  <2>2. CASE LoginVerify(r)
    <3> DEFINE op == [Idle EXCEPT !.at = "forget", !.who = ops[r].who]
    <3>1. ops[r].who \in Accounts
      BY <2>2 DEF LoginVerify, TypeInv, OpsNameAccounts, Naming
    <3>2. op \in Op /\ op.who = ops[r].who
      BY <3>1 DEF Idle, Op
    <3>3. UNCHANGED <<disabled, sessionVars>>
      BY <2>2 DEF LoginVerify, userVars
    <3>4. (Active(ops[r].who) /\ Goto(r, op)) \/ Done(r)
      BY <2>2 DEF LoginVerify
    <3> HIDE DEF op
    <3>5. CASE Active(ops[r].who) /\ Goto(r, op)
      BY <3>2, <3>3, <3>5, <1>k DEF Active
    <3> QED
      BY <3>3, <3>4, <3>5, <1>d
  <2>3. CASE LoginForget(r)
    <3> DEFINE op == [ops[r] EXCEPT !.at = "open"]
    <3>1. /\ op \in Op /\ op.who = ops[r].who /\ op.gone = ops[r].gone
          /\ op.overtaken = ops[r].overtaken
      BY <1>t DEF Op
    <3> HIDE DEF op
    <3>2. Goto(r, op) /\ ops[r].at = "forget" /\ UNCHANGED <<disabled, sessionVars>>
      BY <2>3 DEF LoginForget, userVars, op
    <3> QED
      BY <3>1, <3>2, <1>k DEF SigningIn
  <2>4. CASE OpenSession(r)
    <3>1. CASE ~Known(r)
      BY <2>4, <3>1, <1>d DEF OpenSession, userVars
    <3>2. CASE Known(r)
      <4>1. PICK s \in FreeSids : Opened(r, s)
        BY <2>4, <3>2 DEF OpenSession
      <4>2. UNCHANGED disabled /\ Done(r) /\ ops[r].at = "open" /\ ~ops[r].gone
        BY <2>4, <3>2 DEF OpenSession, Known, userVars
      <4>3. VerifiedOrOvertaken'
        BY <4>2, <1>t DEF DisablingInv, VerifiedOrOvertaken, SigningIn, Done, Goto, Idle
      <4>4. \A v \in disabled : ops[r].who = v => ops[r].overtaken
        BY <4>2 DEF DisablingInv, VerifiedOrOvertaken, SigningIn
      <4>5. DisablingEndsSessions'
        BY <1>t, <4>1, <4>2, <4>4 DEF Opened, FreeSids, DisablingInv, DisablingEndsSessions
      <4> QED
        BY <4>3, <4>5 DEF DisablingInv
    <3> QED
      BY <3>1, <3>2
  <2>5. ASSUME NEW f \in Flows, Callback(r, f) PROVE DisablingInv'
    <3>1. [Idle EXCEPT !.at = "claims"] \in Op
      BY DEF Idle, Op
    <3> QED
      BY <2>5, <3>1, <1>k DEF Callback, userVars, Idle
  <2>6. ASSUME NEW u \in Accounts, Admit(r, u) PROVE DisablingInv'
    <3> DEFINE op == [Idle EXCEPT !.at = "open", !.who = u]
    <3>1. op \in Op /\ op.who = u
      BY DEF Idle, Op
    <3>2. UNCHANGED <<disabled, sessionVars>>
      BY <2>6 DEF Admit, userVars
    <3>3. (u \notin disabled /\ Goto(r, op)) \/ Done(r)
      BY <2>6 DEF Admit
    <3> HIDE DEF op
    <3>4. CASE u \notin disabled /\ Goto(r, op)
      BY <3>1, <3>2, <3>4, <1>k
    <3> QED
      BY <3>2, <3>3, <3>4, <1>d
  <2>7. CASE Refused(r)
    BY <2>7, <1>d DEF Refused, userVars
  <2> QED
    BY <1>2, <2>1, <2>2, <2>3, <2>4, <2>5, <2>6, <2>7 DEF SignInStep
<1>3. ASSUME NEW r \in Requests, CallerStep(r) PROVE DisablingInv'
  <2>l. ASSUME NEW u \in Accounts, NEW s \in Sids \cup {None}, Load(r, u, s)
        PROVE  DisablingInv'
    <3> DEFINE op == [Idle EXCEPT
           !.at = "caller", !.who = u, !.sid = s, !.admin = s # None /\ role[u] = "admin",
           !.pw = IF s = None THEN None ELSE password[u]]
    <3>1. op \in Op /\ op.at = "caller"
      BY <2>l DEF Idle, Op, TypeInv, TypeOK
    <3>2. Goto(r, op) /\ UNCHANGED <<disabled, sessionVars>>
      BY <2>l DEF Load, userVars
    <3> QED
      BY <3>1, <3>2, <1>k
  <2>1. ASSUME NEW s \in Sids, Enter(r, s) PROVE DisablingInv'
    BY <2>1, <2>l, <1>t DEF Enter
  <2>2. ASSUME NEW u \in Accounts, EnterWithAppPassword(r, u) PROVE DisablingInv'
    BY <2>2, <2>l DEF EnterWithAppPassword
  <2>3. CASE MintLook(r)
    <3>1. ops[r].who \in Accounts
      BY <2>3 DEF MintLook, SessionCaller, Caller, TypeInv, OpsNameAccounts, Naming
    <3> DEFINE op == [Idle EXCEPT !.at = "mint", !.who = ops[r].who]
    <3>2. op \in Op /\ op.at = "mint"
      BY <3>1 DEF Idle, Op
    <3>3. (Goto(r, op) \/ Done(r)) /\ UNCHANGED <<disabled, sessionVars>>
      BY <2>3 DEF MintLook, userVars
    <3> HIDE DEF op
    <3> QED
      BY <3>2, <3>3, <1>k, <1>d
  <2>4. CASE Mint(r) \/ RevokeAppPassword(r) \/ Leave(r) \/ ChangeRefused(r)
    BY <2>4, <1>d DEF Mint, RevokeAppPassword, Leave, ChangeRefused, userVars
  <2>5. CASE Logout(r)
    BY <2>5, <1>e DEF Logout, userVars
  <2>6. ASSUME NEW pw, ChangeSpend(r, pw) PROVE DisablingInv'
    <3> DEFINE op == [ops[r] EXCEPT !.at = "change", !.pw = None, !.admin = FALSE]
    <3>1. op \in Op /\ op.at = "change"
      BY <1>t DEF Op
    <3> HIDE DEF op
    <3>2. Goto(r, op) \/ Done(r)
      BY <2>6 DEF ChangeSpend, op
    <3> QED
      BY <2>6, <3>1, <3>2, <1>k, <1>d DEF ChangeSpend, userVars
  <2>7. CASE ChangeForget(r)
    <3> DEFINE op == [ops[r] EXCEPT !.at = "store"]
    <3>1. op \in Op /\ op.at = "store"
      BY <1>t DEF Op
    <3> HIDE DEF op
    <3>2. Goto(r, op)
      BY <2>7 DEF ChangeForget, op
    <3> QED
      BY <2>7, <3>1, <3>2, <1>k DEF ChangeForget, userVars
  <2>8. ASSUME NEW pw, ChangePassword(r, pw) PROVE DisablingInv'
    BY <2>8, <1>e DEF ChangePassword, RevokeAll
  <2> QED
    BY <1>3, <2>1, <2>2, <2>3, <2>4, <2>5, <2>6, <2>7, <2>8 DEF CallerStep
<1>4. ASSUME NEW r \in Requests, AdminStep(r) PROVE DisablingInv'
  <2>1. ASSUME NEW u \in Accounts, NEW as, SetRole(r, u, as) PROVE DisablingInv'
    BY <2>1, <1>d DEF SetRole
  <2>2. ASSUME NEW u \in Accounts, NEW as, NEW pw, Create(r, u, as, pw) PROVE DisablingInv'
    BY <2>2, <1>d DEF Create
  <2>3. ASSUME NEW u \in Accounts, NEW pw, ResetPassword(r, u, pw) PROVE DisablingInv'
    BY <2>3, <1>e DEF ResetPassword, RevokeAll
  <2>4. ASSUME NEW u \in Accounts, Enable(r, u) PROVE DisablingInv'
    BY <2>4, <1>d DEF Enable
  <2>5. ASSUME NEW u \in Accounts, SignOutEverywhere(r, u) PROVE DisablingInv'
    BY <2>5, <1>e DEF SignOutEverywhere, RevokeAll, userVars
  <2>6. ASSUME NEW u \in Accounts, Unlock(r, u) PROVE DisablingInv'
    BY <2>6, <1>d DEF Unlock, userVars
  <2>7. ASSUME NEW on, SetMethods(r, on) PROVE DisablingInv'
    BY <2>7, <1>d DEF SetMethods, userVars
  <2>8. ASSUME NEW u \in Accounts, Disable(r, u) PROVE DisablingInv'
    <3>1. ASSUME NEW q \in Requests, NEW v \in disabled', SigningIn(q, v)'
          PROVE  ops'[q].overtaken
      <4>1. [ops[q] EXCEPT !.overtaken = TRUE].overtaken
        BY <1>t DEF Op
      <4>2. CASE q = r
        BY <2>8, <3>1, <4>2, <1>t DEF Disable, SigningIn, Idle
      <4>3. CASE q # r /\ SigningIn(q, u)
        BY <2>8, <4>1, <4>3, <1>t DEF Disable
      <4>4. CASE q # r /\ ~SigningIn(q, u)
        <5>1. ops'[q] = ops[q]
          BY <2>8, <4>4 DEF Disable
        <5>2. SigningIn(q, v) /\ v \in disabled
          BY <2>8, <3>1, <4>4, <5>1 DEF Disable, SigningIn
        <5> QED
          BY <5>1, <5>2 DEF DisablingInv, VerifiedOrOvertaken
      <4> QED
        BY <4>2, <4>3, <4>4
    <3>2. DisablingEndsSessions'
      BY <2>8, <1>t DEF Disable, RevokeAll, Ended, DisablingInv, DisablingEndsSessions
    <3> QED
      BY <3>1, <3>2 DEF DisablingInv, VerifiedOrOvertaken
  <2>9. ASSUME NEW u \in Accounts, Delete(r, u) PROVE DisablingInv'
    <3>1. ASSUME NEW q \in Requests, NEW v \in disabled', SigningIn(q, v)'
          PROVE  SigningIn(q, v) /\ ops'[q].overtaken = ops[q].overtaken
      <4>1. ops[q] \in Op /\ [ops[q] EXCEPT !.gone = TRUE].gone
        BY <1>t DEF Op
      <4>2. ops'[q] # Idle /\ ~ops'[q].gone
        BY <3>1 DEF SigningIn, Idle
      <4>3. ops'[q] = ops[q]
        BY <2>9, <4>1, <4>2 DEF Delete
      <4> QED
        BY <3>1, <4>3 DEF SigningIn
    <3>2. \A s \in Sids : sessions'[s] # None => sessions'[s] = sessions[s]
                                                 /\ (s \in late => s \in late')
      BY <2>9, <1>t DEF Delete, RevokeAll, Ended
    <3>3. disabled' \subseteq disabled
      BY <2>9 DEF Delete
    <3> QED
      BY <3>1, <3>2, <3>3, DisablingKept
  <2> QED
    BY <1>4, <2>1, <2>2, <2>3, <2>4, <2>5, <2>6, <2>7, <2>8, <2>9 DEF AdminStep
<1>5. CASE UNCHANGED vars
  BY <1>5, <1>o DEF vars, sessionVars
<1> QED
  BY <1>1, <1>2, <1>3, <1>4, <1>5 DEF Next

(* Whatever sign-ins, by password or by provider, were under way, and in   *)
(* whatever order requests get their turns: a disabled account has no      *)
(* session but those of the sign-ins that disabling it overtook (disable,  *)
(* login, callback).                                                       *)
THEOREM DisablingIsThorough == Spec => []DisablingEndsSessions
<1>1. Init => DisablingInv
  BY AccountsAssumption DEF Init, DisablingInv, VerifiedOrOvertaken, DisablingEndsSessions
<1>2. TypeInv /\ DisablingInv /\ [Next]_vars => DisablingInv'
  BY DisablingStep
<1>3. DisablingInv => DisablingEndsSessions
  BY DEF DisablingInv
<1> QED
  BY <1>1, <1>2, <1>3, TypeInvariant, PTL DEF Spec

=============================================================================
