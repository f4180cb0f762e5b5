---------------------------- MODULE IdentityProofs ----------------------------
(***************************************************************************)
(* Proofs about Sessions and Access, for every number of tabs, people,      *)
(* roles and permissions and for every bound.                              *)
(***************************************************************************)
EXTENDS Sessions, Access, SequenceTheorems, TLAPS

\* The bounds are numbers.
LEMMA Bounds ==
  /\ MaxClock \in Nat \ {0} /\ MaxSessions \in Nat \ {0} /\ MaxSeed \in Nat \ {0}
  /\ MaxToken \in Nat /\ MaxPassword \in Nat /\ MaxCode \in Nat /\ MaxFlow \in Nat
BY SessionsAssumption

\* Where the counters start.
LEMMA Zeros ==
  /\ 0 \in 0..MaxToken /\ 0 \in 0..MaxPassword /\ 0 \in 0..MaxSeed /\ 0 \in 0..MaxFlow
  /\ 0 \in 0..MaxCode /\ 0 \in 0..MaxClock
  /\ 1 \in 1..MaxSeed /\ 1 \in 0..MaxSeed /\ 1 \in 0..MaxClock /\ 1 \in 1..MaxClock
  /\ 1 \in 1..MaxSessions
BY Bounds

-----------------------------------------------------------------------------
(* Types.                                                                  *)

Account ==
  [active : BOOLEAN, password : 0..MaxPassword, mfa : BOOLEAN,
   seed : 1..MaxSeed, seeds : 1..MaxSeed, step : 0..MaxClock, proved : 1..MaxSeed,
   codes : SUBSET (1..MaxCode), issued : 0..MaxCode, linked : BOOLEAN,
   flows : 0..MaxFlow, seeded : BOOLEAN]

Session ==
  [live : BOOLEAN, token : 0..MaxToken, password : 0..MaxPassword,
   confirmed : 0..MaxSeed, proof : SUBSET Proofs, spent : 0..MaxClock]

FlowRecord ==
  [id : 1..MaxFlow, mode : {"login", "link", "verified"}, claimed : BOOLEAN,
   session : 0..MaxSessions]

\* A cookie of a session that exists, or none.
KnownCookie(cookie) == cookie \in Cookies /\ Names(cookie) \subseteq Ids

\* The newest seed is the one in use, no code is used before its time, and recovery
\* codes are among those that were issued.
AccountOK ==
  /\ account \in Account /\ clock \in 1..MaxClock
  /\ account.seed = account.seeds /\ account.step <= clock
  /\ account.codes \subseteq 1..account.issued

SessionsOK == sessions \in Seq(Session) /\ Len(sessions) \in 1..MaxSessions

\* A call knows of sessions that exist, verifies a code it was given, and asks for the
\* session of its cookies if it refreshes; only some calls lock the row.
CallOK(c) ==
  /\ c \in CallRecord /\ c.session \in 0..Len(sessions) /\ KnownCookie(c.cookie)
  /\ c.op = "verify" => c.offer.kind = "code"
  /\ c.op \in {"login", "complete"} \cup AccountChanges => c.offer.kind # "flow"
  /\ c.op = "complete" => c.offer.kind # "recovery"
  /\ c.op = "logout" => c.session \in Ids
  /\ c.op = "refresh" => c.cookie # <<>> /\ c.session = c.cookie[1]
  /\ c.locked => c.op \in {"login", "complete"} \cup AccountChanges

CallsOK ==
  /\ calls \in [Tabs -> CallRecord \cup {NoCall}]
  /\ \A t \in Tabs : calls[t] # NoCall => CallOK(calls[t])

FlowOK ==
  flow # NoFlow =>
    /\ flow \in FlowRecord /\ flow.id <= account.flows /\ flow.session \in 0..Len(sessions)
    /\ flow.mode # "link" => flow.session = 0

BrowserOK == KnownCookie(jar) /\ astray \subseteq Ids

Typed == AccountOK /\ SessionsOK /\ CallsOK /\ FlowOK /\ BrowserOK

\* The parts are what the type invariant asks for, and more.
LEMMA TypedIsTypeOK == Typed => TypeOK
<1> SUFFICES ASSUME Typed PROVE TypeOK OBVIOUS
<1>1. /\ account \in [active : BOOLEAN, password : 0..MaxPassword, mfa : BOOLEAN,
                  seed : 1..MaxSeed, seeds : 1..MaxSeed, step : 0..MaxClock,
                  proved : 1..MaxSeed, codes : SUBSET (1..MaxCode), issued : 0..MaxCode,
                  linked : BOOLEAN, flows : 0..MaxFlow, seeded : BOOLEAN]
      /\ clock \in 1..MaxClock
  BY DEF Typed, AccountOK, Account
<1>2. \A i \in Ids : sessions[i] \in Session
  BY DEF Typed, SessionsOK, Ids
<1>3. flow # NoFlow => flow \in FlowRecord
  BY DEF Typed, FlowOK
<1>4. jar \in Cookies /\ Names(jar) \subseteq Ids /\ astray \subseteq Ids
  BY DEF Typed, BrowserOK, KnownCookie
<1>5. calls \in [Tabs -> CallRecord \cup {NoCall}] /\ Len(sessions) <= MaxSessions
  BY Bounds DEF Typed, SessionsOK, CallsOK
<1>6. \A i \in Ids :
       /\ sessions[i].live \in BOOLEAN
       /\ sessions[i].token \in 0..MaxToken
       /\ sessions[i].password \in 0..MaxPassword
       /\ sessions[i].confirmed \in 0..MaxSeed
       /\ sessions[i].proof \subseteq Proofs
       /\ sessions[i].spent \in 0..MaxClock
  BY <1>2 DEF Session
<1> QED BY <1>1, <1>3, <1>4, <1>5, <1>6 DEF TypeOK, FlowRecord

\* A function on 1..n is a sequence of length n.
LEMMA FunctionIsSeq ==
  ASSUME NEW S, NEW n \in Nat, NEW f \in [1..n -> S]
  PROVE  f \in Seq(S) /\ Len(f) = n
<1>1. f \in Seq(S) BY SeqDef
<1>2. Len(f) \in Nat /\ DOMAIN f = 1..Len(f) BY <1>1, LenProperties
<1>3. DOMAIN f = 1..n OBVIOUS
<1> QED BY <1>1, <1>2, <1>3

\* Every session is a record of its type.
LEMMA SessionRows ==
  ASSUME SessionsOK
  PROVE  /\ Len(sessions) \in Nat /\ Ids = 1..Len(sessions)
         /\ sessions \in [1..Len(sessions) -> Session]
         /\ \A i \in Ids : sessions[i] \in Session
BY LenProperties DEF SessionsOK, Ids

\* Deleting sessions keeps their number and their history.
LEMMA Deleted ==
  ASSUME SessionsOK, NEW ids
  PROVE  /\ Delete(ids) \in Seq(Session) /\ Len(Delete(ids)) = Len(sessions)
         /\ \A i \in Ids :
              /\ i \notin ids => Delete(ids)[i] = sessions[i]
              /\ i \in ids => ~Delete(ids)[i].live
              /\ Delete(ids)[i].proof = sessions[i].proof
              /\ Delete(ids)[i].spent = sessions[i].spent
<1>1. Delete(ids) \in [1..Len(sessions) -> Session]
  <2>1. \A i \in Ids : [sessions[i] EXCEPT !.live = FALSE, !.token = 0, !.password = 0,
                                           !.confirmed = 0] \in Session
    <3>1. \A s \in Session : [s EXCEPT !.live = FALSE, !.token = 0, !.password = 0,
                                       !.confirmed = 0] \in Session
      BY Zeros DEF Session
    <3> QED BY <3>1, SessionRows
  <2> QED BY <2>1, SessionRows DEF Delete
<1>2. /\ \A i \in Ids :
           /\ i \notin ids => Delete(ids)[i] = sessions[i]
           /\ i \in ids => ~Delete(ids)[i].live
           /\ Delete(ids)[i].proof = sessions[i].proof
           /\ Delete(ids)[i].spent = sessions[i].spent
  BY SessionRows DEF Delete, Session
<1> QED BY <1>1, <1>2, SessionRows, FunctionIsSeq

\* A field of one session is replaced.
LEMMA Updated ==
  ASSUME SessionsOK, NEW i \in Ids
  PROVE  /\ \A n \in 0..MaxSeed : LET s == [sessions EXCEPT ![i].confirmed = n] IN
              s \in Seq(Session) /\ Len(s) = Len(sessions)
         /\ \A n \in 0..MaxToken : LET s == [sessions EXCEPT ![i].token = n] IN
              s \in Seq(Session) /\ Len(s) = Len(sessions)
<1>1. ASSUME NEW n \in 0..MaxSeed
      PROVE  [sessions EXCEPT ![i].confirmed = n] \in [1..Len(sessions) -> Session]
  BY SessionRows DEF Session
<1>2. ASSUME NEW n \in 0..MaxToken
      PROVE  [sessions EXCEPT ![i].token = n] \in [1..Len(sessions) -> Session]
  BY SessionRows DEF Session
<1> QED BY <1>1, <1>2, SessionRows, FunctionIsSeq

\* A session is opened at the end.
LEMMA AppendedSession ==
  ASSUME NEW s \in Seq(Session), NEW new \in Session
  PROVE  /\ Append(s, new) \in Seq(Session) /\ Len(Append(s, new)) = Len(s) + 1
         /\ Append(s, new)[Len(s) + 1] = new
         /\ \A i \in 1..Len(s) : Append(s, new)[i] = s[i]
OBVIOUS

\* Types hold initially.
LEMMA InitTyped == Init => Typed
<1> SUFFICES ASSUME Init PROVE Typed OBVIOUS
<1>1. AccountOK
  <2>1. /\ account.active = TRUE /\ account.password = 0 /\ account.mfa = TRUE
        /\ account.seed = 1 /\ account.seeds = 1 /\ account.step = 1 /\ account.codes = {}
        /\ account.issued = 0 /\ account.linked \in BOOLEAN /\ account.flows = 0
        /\ account.seeded = FALSE /\ account.proved = 1 /\ clock = 1
    BY DEF Init
  <2>2. account = [active |-> account.active, password |-> account.password,
                   mfa |-> account.mfa, seed |-> account.seed, seeds |-> account.seeds,
                   step |-> account.step, codes |-> account.codes,
                   issued |-> account.issued, linked |-> account.linked,
                   flows |-> account.flows, seeded |-> account.seeded,
                   proved |-> account.proved]
    BY DEF Init
  <2>3. account \in Account BY <2>1, <2>2, Zeros DEF Account
  <2> QED BY <2>1, <2>3, Zeros DEF AccountOK
<1>2. Opened(0, 1, {Code(1, 1)}, 1) \in Session
  <2>1. Code(1, 1) \in [kind : {"code"}, seed : 1..MaxSeed, step : 1..MaxClock]
    BY Zeros DEF Code
  <2>2. {Code(1, 1)} \in SUBSET Proofs BY <2>1 DEF Proofs
  <2> QED BY <2>2, Zeros DEF Opened, Session
<1>3. /\ sessions \in Seq(Session) /\ Len(sessions) = 1
  BY <1>2 DEF Init
<1>4. BrowserOK
  <2>1. jar = <<1, 0>> /\ astray = {} /\ jar[1] = 1 BY DEF Init
  <2>2. jar \in Cookies BY <2>1, Zeros DEF Cookies
  <2>3. Names(jar) \subseteq {1} BY <2>1 DEF Names
  <2> QED BY <1>3, <2>1, <2>2, <2>3 DEF BrowserOK, KnownCookie, Ids
<1> QED
  BY <1>1, <1>3, <1>4, Zeros DEF Init, Typed, SessionsOK, CallsOK, FlowOK

-----------------------------------------------------------------------------
(* Every step keeps the types.                                             *)

\* What a call may carry.
LEMMA OfferTypes ==
  ASSUME AccountOK
  PROVE  /\ Code(account.seed, clock) \in Proofs /\ NoProof \in Proofs
         /\ Recoveries \subseteq Proofs /\ Codes \subseteq Proofs
         /\ Code(account.seed, clock).kind = "code" /\ NoProof.kind = "none"
         /\ \A offer \in Codes : offer.kind \in {"code", "none"}
         /\ \A offer \in Recoveries : offer.kind = "recovery"
<1>1. account.seed \in 1..MaxSeed /\ clock \in 1..MaxClock /\ account.codes \subseteq 1..MaxCode
  BY DEF AccountOK, Account
<1>2. Code(account.seed, clock) \in [kind : {"code"}, seed : 1..MaxSeed, step : 1..MaxClock]
  BY <1>1 DEF Code
<1>3. \A n \in account.codes : Recovery(n) \in [kind : {"recovery"}, number : 1..MaxCode]
  BY <1>1 DEF Recovery
<1>4. Code(account.seed, clock) \in Proofs /\ NoProof \in Proofs /\ Recoveries \subseteq Proofs
  BY <1>2, <1>3 DEF Proofs, Recoveries
<1>5. Codes \subseteq Proofs BY <1>4 DEF Codes
<1>6. Code(account.seed, clock).kind = "code" /\ NoProof.kind = "none" BY DEF Code, NoProof
<1>7. \A offer \in Recoveries : offer.kind = "recovery" BY DEF Recoveries, Recovery
<1> QED BY <1>4, <1>5, <1>6, <1>7 DEF Codes

HoldsLock(t) == calls[t] # NoCall /\ calls[t].locked

\* One call holds the row at most, and what it compared is as it was: in particular no code
\* newer than the one it checked has been consumed.
RowLocksHold ==
  /\ \A t, u \in Tabs : HoldsLock(t) /\ HoldsLock(u) => t = u
  /\ \A t \in Tabs : HoldsLock(t) =>
       /\ account.active
       /\ calls[t].op # "complete" => account.password = calls[t].password
       /\ calls[t].op = "complete" => account.linked /\ Verified(calls[t].flow)
       /\ CodeAsked(t) => \E step \in 1..MaxClock :
            /\ calls[t].offer = Code(account.seed, step)
            /\ account.step <= step /\ step <= clock

\* What a call that holds the row may rely on.
LEMMA UnderLockFacts ==
  ASSUME RowLocksHold, NEW t \in Tabs, NEW op, UnderLock(t, op)
  PROVE  /\ HoldsLock(t) /\ calls[t].op = op /\ account.active
         /\ op # "complete" => account.password = calls[t].password
         /\ op = "complete" => account.linked /\ Verified(calls[t].flow)
         /\ CodeAsked(t) => \E step \in 1..MaxClock :
              /\ calls[t].offer = Code(account.seed, step)
              /\ account.step <= step /\ step <= clock
<1>1. HoldsLock(t) /\ calls[t].op = op BY DEF UnderLock, Asked, HoldsLock
<1> QED BY <1>1 DEF RowLocksHold

\* The code that turns MFA on was compared with the seed the account has.
LEMMA EnabledWith ==
  ASSUME RowLocksHold, NEW t \in Tabs, EnableMFA(t)
  PROVE  calls[t].offer.seed = account.seed
<1>1. UnderLock(t, "enable") BY DEF EnableMFA
<1>2. CodeAsked(t) BY <1>1, UnderLockFacts DEF CodeAsked
<1>3. PICK step \in 1..MaxClock : calls[t].offer = Code(account.seed, step)
  BY <1>1, <1>2, UnderLockFacts
<1> QED BY <1>3 DEF Code

\* Commits that delete every session.
SignsOut(t) == ChangePassword(t) \/ EnableMFA(t) \/ DisableMFA(t) \/ UnlinkOIDC(t)

\* Steps of a call that change neither the account nor a session.
Waits(t) ==
  Begin(t) \/ LockRecoveryUser(t) \/ Refused(t) \/ Arrives(t) \/ AnswerLost(t)

LEMMA Waiting ==
  ASSUME NEW t \in Tabs, Waits(t)
  PROVE  UNCHANGED <<account, sessions, clock>>
BY DEF Waits, Begin, BeginLogin, BeginCompletion, BeginAccountChange, BeginVerifyMfa,
       BeginLogout, BeginRefresh, ClaimOIDCFlow, LockRecoveryUser, Refused, Arrives, AnswerLost

LEMMA SigningOut ==
  ASSUME NEW t \in Tabs, SignsOut(t)
  PROVE  /\ sessions' = Delete(Ids) /\ flow' = Cascade(Ids) /\ SignedOut(t)
         /\ UNCHANGED <<jar, astray, clock>>
BY DEF SignsOut, ChangePassword, EnableMFA, DisableMFA, UnlinkOIDC, DeleteUserSessions

\* What happens without a call.
Outside ==
  \/ \E i \in Ids : SessionExpires(i)
  \/ BeginOIDCLogin \/ FlowExpires
  \/ \E active \in BOOLEAN : SetInstallationUser(active)
  \/ SeedAdministrator \/ Tick \/ UNCHANGED vars

LEMMA StepKinds ==
  ASSUME [Next]_vars
  PROVE  \/ \E t \in Tabs : Waits(t) \/ Commit(t)
         \/ Outside
BY DEF Next, Waits, Outside

\* Steps that leave the account and the clock alone.
QuietAccount == UNCHANGED <<account, clock>>

\* The account is updated within its type, and time goes on.
LEMMA AccountTypes ==
  ASSUME Typed, RowLocksHold, [Next]_vars
  PROVE  AccountOK'
<1>0. /\ account \in Account /\ clock \in 1..MaxClock
      /\ account.seed = account.seeds /\ account.step <= clock
      /\ account.codes \subseteq 1..account.issued
  BY DEF Typed, AccountOK
<1>a. /\ account.step \in 0..MaxClock /\ account.issued \in 0..MaxCode /\ clock \in 0..MaxClock
      /\ account.seeds \in 1..MaxSeed /\ account.flows \in 0..MaxFlow
      /\ account.password \in 0..MaxPassword /\ account.codes \in SUBSET (1..MaxCode)
      /\ clock <= clock
  BY <1>0, Bounds DEF Account
<1>u. /\ Used \in Account /\ Used.seed = Used.seeds /\ Used.step <= clock
      /\ Used.codes = account.codes /\ Used.issued = account.issued
      /\ Used.password = account.password /\ Used.flows = account.flows
  BY <1>0, <1>a DEF Used, Account
<1>1. CASE QuietAccount BY <1>0, <1>1 DEF QuietAccount, AccountOK, Account
<1>2. ASSUME NEW t \in Tabs, Login(t) PROVE AccountOK'
  <2>1. \A codes \in SUBSET account.codes, step \in {account.step, clock} :
          LET a == [account EXCEPT !.codes = codes, !.step = step] IN
          /\ a \in Account /\ a.seed = a.seeds /\ a.step <= clock
          /\ a.codes \subseteq 1..a.issued
    BY <1>0, <1>a DEF Account
  <2>2. \E codes \in SUBSET account.codes, step \in {account.step, clock} :
          account' = [account EXCEPT !.codes = codes, !.step = step]
    BY <1>2 DEF Login
  <2>3. PICK codes \in SUBSET account.codes, step \in {account.step, clock} :
          account' = [account EXCEPT !.codes = codes, !.step = step]
    BY <2>2
  <2>4. /\ account' \in Account /\ account'.seed = account'.seeds /\ account'.step <= clock
        /\ account'.codes \subseteq 1..account'.issued
    BY <2>1, <2>3
  <2> QED BY <1>0, <1>2, <2>4 DEF Login, AccountOK
<1>3. ASSUME NEW t \in Tabs, ChangePassword(t) PROVE AccountOK'
  <2>1. account.password + 1 \in 0..MaxPassword BY <1>3, <1>a, Bounds DEF ChangePassword
  <2>2. account' = [Used EXCEPT !.password = account.password + 1]
    BY <1>3, <1>u DEF ChangePassword
  <2>3. clock' = clock BY <1>3 DEF ChangePassword
  <2> QED BY <1>0, <1>u, <2>1, <2>2, <2>3 DEF AccountOK, Account
<1>4. ASSUME NEW t \in Tabs, GenerateRecoveryCodes(t) PROVE AccountOK'
  <2>1. account.issued + 1 \in 0..MaxCode /\ {account.issued + 1} \in SUBSET (1..MaxCode)
        /\ {account.issued + 1} \subseteq 1..account.issued + 1
    BY <1>4, <1>a, Bounds DEF GenerateRecoveryCodes
  <2>2. account' = [Used EXCEPT !.codes = {account.issued + 1}, !.issued = account.issued + 1]
    BY <1>4, <1>u DEF GenerateRecoveryCodes
  <2>3. account' \in Account BY <1>u, <2>1, <2>2 DEF Account
  <2>4. /\ account'.codes = {account.issued + 1} /\ account'.issued = account.issued + 1
        /\ account'.seed = Used.seed /\ account'.seeds = Used.seeds
        /\ account'.step = Used.step
    BY <1>u, <2>2 DEF Account
  <2>5. clock' = clock BY <1>4 DEF GenerateRecoveryCodes
  <2> QED BY <1>0, <1>u, <2>1, <2>3, <2>4, <2>5 DEF AccountOK
<1>5. ASSUME NEW t \in Tabs, EnableMFA(t) PROVE AccountOK'
  <2>1. calls[t].offer.seed = account.seed BY <1>5, EnabledWith
  <2>2. account' = [account EXCEPT !.mfa = TRUE, !.step = clock, !.proved = account.seed]
        /\ clock' = clock
    BY <1>5, <2>1 DEF EnableMFA
  <2> QED BY <1>0, <1>a, <2>2 DEF AccountOK, Account
<1>6. ASSUME NEW t \in Tabs, DisableMFA(t) \/ UnlinkOIDC(t) PROVE AccountOK'
  BY <1>0, <1>6, <1>u DEF DisableMFA, UnlinkOIDC, AccountOK, Account
<1>7. ASSUME NEW t \in Tabs, BeginMFAEnrollment(t) PROVE AccountOK'
  <2>1. account.seeds + 1 \in 1..MaxSeed /\ 0 \in 0..MaxClock /\ 0 <= clock
    BY <1>7, <1>a, Bounds DEF BeginMFAEnrollment
  <2>2. account' = [account EXCEPT !.seed = account.seeds + 1, !.seeds = account.seeds + 1,
                                   !.step = 0]
    BY <1>7 DEF BeginMFAEnrollment
  <2>3. clock' = clock BY <1>7 DEF BeginMFAEnrollment
  <2> QED BY <1>0, <2>1, <2>2, <2>3 DEF AccountOK, Account
<1>8. ASSUME NEW t \in Tabs, RevokeAccountSession(t) \/ CompleteOIDCLogin(t) \/ KeepMFA(t)
      PROVE  AccountOK'
  BY <1>0, <1>8, <1>u DEF RevokeAccountSession, CompleteOIDCLogin, KeepMFA, AccountOK
<1>9. ASSUME NEW t \in Tabs, VerifyMfa(t) PROVE AccountOK'
  BY <1>0, <1>9, <1>a DEF VerifyMfa, AccountOK, Account
<1>10. ASSUME NEW t \in Tabs, BeginOIDCLink(t) PROVE AccountOK'
  <2>1. account.flows + 1 \in 0..MaxFlow BY <1>10, <1>a, Bounds DEF BeginOIDCLink
  <2>2. account' = [Used EXCEPT !.flows = account.flows + 1]
    BY <1>10, <1>u DEF BeginOIDCLink
  <2> QED BY <1>0, <1>10, <1>u, <2>1, <2>2 DEF BeginOIDCLink, AccountOK, Account
<1>11. CASE BeginOIDCLogin
  <2>1. account.flows + 1 \in 0..MaxFlow BY <1>11, <1>a, Bounds DEF BeginOIDCLogin
  <2> QED BY <1>0, <1>11, <2>1 DEF BeginOIDCLogin, AccountOK, Account
<1>12. ASSUME NEW t \in Tabs, LinkOIDC(t) PROVE AccountOK'
  BY <1>0, <1>12 DEF LinkOIDC, AccountOK, Account
<1>13. CASE SeedAdministrator BY <1>0, <1>13 DEF SeedAdministrator, AccountOK, Account
<1>14. ASSUME NEW active \in BOOLEAN, SetInstallationUser(active) PROVE AccountOK'
  BY <1>0, <1>14 DEF SetInstallationUser, AccountOK, Account
<1>15. CASE Tick
  <2>1. clock + 1 \in 1..MaxClock /\ account.step <= clock + 1
    BY <1>0, <1>15, <1>a, Bounds DEF Tick
  <2> QED BY <1>0, <1>15, <2>1 DEF Tick, AccountOK
<1>16. ASSUME NEW t \in Tabs, Waits(t) \/ Refresh(t) \/ VerifyOIDCFlow(t) \/ Logout(t)
       PROVE  QuietAccount
  BY <1>16, Waiting DEF QuietAccount, Refresh, VerifyOIDCFlow, Logout
<1>17. FlowExpires \/ UNCHANGED vars \/ (\E i \in Ids : SessionExpires(i)) => QuietAccount
  BY DEF QuietAccount, FlowExpires, SessionExpires, vars
<1> QED
  BY <1>1, <1>2, <1>3, <1>4, <1>5, <1>6, <1>7, <1>8, <1>9, <1>10, <1>11, <1>12, <1>13,
     <1>14, <1>15, <1>16, <1>17, StepKinds DEF Commit, Outside

-----------------------------------------------------------------------------
(* What a step does to the sessions.                                       *)

\* The proof has been used, and n is the step that was consumed then: a code may pass once
\* more if nothing newer has been consumed since, the rest opens nothing any more.
Spent(p, n) ==
  \/ /\ p.kind = "code" /\ p.seed <= account.seeds
     /\ p.seed = account.seed => p.step <= n /\ n <= account.step
  \/ p.kind = "recovery" /\ p.number <= account.issued /\ p.number \notin account.codes
  \/ p.kind = "flow" /\ p.id <= account.flows /\ (flow # NoFlow => flow.id # p.id)

\* A code under verification belongs to the present seed, if it is to confirm a
\* session of an account that asks for codes.
VerifiesPresentSeed ==
  \A t \in Tabs : Asked(t, "verify") /\ account.mfa /\ Live(calls[t].session) =>
    calls[t].offer.seed = account.seed

\* What sessions depend on is as before; only MFA may be turned off.
AccountStands ==
  /\ account'.active = account.active /\ account'.password = account.password
  /\ account.linked => account'.linked
  /\ account'.mfa => account.mfa /\ account'.seed = account.seed

\* A session keeps its history, and stays open only if its account stands.
Keeps(i) ==
  /\ sessions'[i].proof = sessions[i].proof /\ sessions'[i].spent = sessions[i].spent
  /\ sessions'[i].live =>
       /\ AccountStands
       /\ sessions[i].live /\ sessions'[i].password = sessions[i].password
       /\ account'.mfa => sessions'[i].confirmed \in {sessions[i].confirmed, account.seed}

\* A new session is opened with what now is spent, and was not: or with a code of the
\* present seed, while nothing newer than that code had been consumed.
OpensWell(s) ==
  /\ account'.active /\ s.password = account'.password
  /\ \A p \in s.proof, n \in {s.spent} : Spent(p, n)'
  /\ \A p \in s.proof : p.kind # "code" => \A n : ~Spent(p, n)
  /\ \A p \in s.proof : p.kind = "code" =>
       p.seed = account.seed /\ account.step <= p.step /\ account.step < s.spent
  /\ (\E p \in s.proof : p.kind = "flow") => account'.linked
  /\ account'.mfa => /\ \E p \in s.proof : p.kind \in {"code", "recovery"}
                     /\ s.confirmed \in {0, account'.seed}
  /\ (\E p \in s.proof : p.kind = "recovery") => \A i \in Ids : ~sessions'[i].live

SessionsStep ==
  /\ SessionsOK' /\ Len(sessions) <= Len(sessions')
  /\ \A i \in Ids : Keeps(i)
  /\ \/ Len(sessions') = Len(sessions)
     \/ /\ Len(sessions') = Len(sessions) + 1
        /\ OpensWell(sessions'[Len(sessions) + 1])

LEMMA SameSessions ==
  ASSUME SessionsOK, AccountStands, sessions' = sessions
  PROVE  SessionsStep
BY SessionRows DEF SessionsStep, SessionsOK, Keeps

LEMMA SessionsDeleted ==
  ASSUME SessionsOK, NEW ids, sessions' = Delete(ids), AccountStands \/ Ids \subseteq ids
  PROVE  SessionsStep
<1>1. SessionsOK' /\ Len(sessions') = Len(sessions) BY Deleted DEF SessionsOK
<1>2. ASSUME NEW i \in Ids PROVE Keeps(i)
  <2>1. CASE i \in ids BY <2>1, Deleted DEF Keeps
  <2>2. CASE i \notin ids BY <2>2, Deleted DEF Keeps
  <2> QED BY <2>1, <2>2
<1> QED BY <1>1, <1>2, SessionRows DEF SessionsStep

LEMMA SessionConfirmed ==
  ASSUME SessionsOK, AccountStands, NEW i \in Ids, NEW n \in 0..MaxSeed,
         sessions' = [sessions EXCEPT ![i].confirmed = n],
         account'.mfa /\ sessions[i].live => n = account.seed
  PROVE  SessionsStep
<1>1. SessionsOK' /\ Len(sessions') = Len(sessions) BY Updated DEF SessionsOK
<1>2. ASSUME NEW j \in Ids PROVE Keeps(j)
  <2>1. sessions \in [1..Len(sessions) -> Session] /\ sessions[j] \in Session
        /\ Ids = 1..Len(sessions)
    BY SessionRows
  <2>2. /\ sessions'[j].proof = sessions[j].proof /\ sessions'[j].live = sessions[j].live
        /\ sessions'[j].password = sessions[j].password
        /\ sessions'[j].spent = sessions[j].spent
        /\ sessions'[j].confirmed = IF j = i THEN n ELSE sessions[j].confirmed
    BY <2>1 DEF Session
  <2> QED BY <2>2 DEF Keeps
<1>3. Len(sessions) <= Len(sessions') BY <1>1, SessionRows
<1> QED BY <1>1, <1>2, <1>3 DEF SessionsStep

LEMMA SessionRotated ==
  ASSUME SessionsOK, AccountStands, NEW i \in Ids, NEW n \in 0..MaxToken,
         sessions' = [sessions EXCEPT ![i].token = n]
  PROVE  SessionsStep
<1>1. SessionsOK' /\ Len(sessions') = Len(sessions) BY Updated DEF SessionsOK
<1>2. ASSUME NEW j \in Ids PROVE Keeps(j)
  <2>1. sessions \in [1..Len(sessions) -> Session] /\ sessions[j] \in Session
        /\ Ids = 1..Len(sessions)
    BY SessionRows
  <2>2. /\ sessions'[j].proof = sessions[j].proof /\ sessions'[j].live = sessions[j].live
        /\ sessions'[j].password = sessions[j].password
        /\ sessions'[j].spent = sessions[j].spent
        /\ sessions'[j].confirmed = sessions[j].confirmed
    BY <2>1 DEF Session
  <2> QED BY <2>2 DEF Keeps
<1>3. Len(sessions) <= Len(sessions') BY <1>1, SessionRows
<1> QED BY <1>1, <1>2, <1>3 DEF SessionsStep

LEMMA SessionOpened ==
  ASSUME SessionsOK, Room, AccountStands, NEW new \in Session, OpensWell(new),
         \/ sessions' = Append(sessions, new)
         \/ sessions' = Append(Delete(Ids), new)
  PROVE  SessionsStep
<1>1. PICK s \in {sessions, Delete(Ids)} : sessions' = Append(s, new) OBVIOUS
<1>2. s \in Seq(Session) /\ Len(s) = Len(sessions) /\ Len(sessions) \in Nat
  BY Deleted, SessionRows DEF SessionsOK
<1>3. /\ Len(sessions') = Len(sessions) + 1 /\ sessions' \in Seq(Session)
      /\ sessions'[Len(sessions) + 1] = new
      /\ \A i \in Ids : sessions'[i] = s[i]
  BY <1>1, <1>2, AppendedSession, SessionRows
<1>4. SessionsOK' BY <1>2, <1>3, Bounds DEF SessionsOK, Room
<1>5. ASSUME NEW i \in Ids PROVE Keeps(i)
  <2>1. CASE s = sessions BY <1>3, <2>1 DEF Keeps
  <2>2. CASE s = Delete(Ids) BY <1>3, <2>2, Deleted DEF Keeps
  <2> QED BY <2>1, <2>2
<1> QED BY <1>2, <1>3, <1>4, <1>5 DEF SessionsStep

\* A call under way, and what it carries.
LEMMA CallRows ==
  ASSUME CallsOK, NEW t \in Tabs, calls[t] # NoCall
  PROVE  CallOK(calls[t]) /\ calls[t] \in CallRecord
BY DEF CallsOK

\* A code checked under the lock is of the present seed, and the clock went on from it.
LEMMA CodeIsSpent ==
  ASSUME AccountOK, RowLocksHold, NEW t \in Tabs, NEW op, UnderLock(t, op), CodeAsked(t), Unspent,
         account'.seed = account.seed, account'.seeds = account.seeds, account'.step = clock,
         NEW n, n = clock, NEW offer, offer = calls[t].offer
  PROVE  /\ offer.kind = "code" /\ Spent(offer, n)'
         /\ offer.seed = account.seed /\ account.step <= offer.step /\ account.step < clock
         /\ offer \in Proofs
<1>1. PICK step \in 1..MaxClock :
        offer = Code(account.seed, step) /\ account.step <= step /\ step <= clock
  BY UnderLockFacts
<1>2. /\ offer.kind = "code" /\ offer.seed = account.seed /\ offer.step = step
  BY <1>1 DEF Code
<1>3. /\ account.step \in Nat /\ clock \in Nat /\ account.seed = account.seeds
      /\ account.seed \in 1..MaxSeed /\ account.seed \in Nat
  BY Bounds DEF AccountOK, Account
<1>4. Spent(offer, n)'
  <2>1. offer.seed <= account'.seeds /\ offer.step <= n /\ n <= account'.step
    BY <1>1, <1>2, <1>3
  <2> QED BY <1>2, <2>1 DEF Spent
<1>5. offer \in Proofs BY <1>1, <1>3 DEF Code, Proofs
<1> QED BY <1>1, <1>2, <1>4, <1>5 DEF Unspent

LEMMA LoginStep ==
  ASSUME Typed, RowLocksHold, NEW t \in Tabs, Login(t)
  PROVE  SessionsStep
<1> DEFINE offer == calls[t].offer
           recovered == offer.kind = "recovery"
           coded == account.mfa /\ ~recovered
           proof == IF coded \/ recovered THEN {offer} ELSE {}
           confirmed == IF coded THEN account.seed ELSE 0
           spent == IF coded THEN clock ELSE 0
           new == Opened(calls[t].password, confirmed, proof, spent)
<1>0. AccountOK /\ SessionsOK /\ account \in Account /\ clock \in 1..MaxClock
  BY DEF Typed, AccountOK
<1>1. /\ calls[t] \in CallRecord /\ offer.kind # "flow" /\ calls[t].op = "login"
  BY CallRows DEF Typed, Login, UnderLock, Asked, CallOK
<1>2. offer \in Proofs /\ calls[t].password \in 0..MaxPassword BY <1>1 DEF CallRecord
<1>3. /\ account'.active = account.active /\ account'.password = account.password
      /\ account'.linked = account.linked /\ account'.mfa = account.mfa
      /\ account'.seed = account.seed /\ account'.seeds = account.seeds
      /\ account'.issued = account.issued
      /\ account'.codes = (IF recovered THEN account.codes \ {offer.number} ELSE account.codes)
      /\ account'.step = (IF coded THEN clock ELSE account.step)
  BY <1>0 DEF Login, Account
<1>4. AccountStands BY <1>3 DEF AccountStands
<1>5. new \in Session
  <2>1. account.seed \in 0..MaxSeed BY <1>0, Bounds DEF Account
  <2>2. confirmed \in 0..MaxSeed BY <2>1, Zeros
  <2>3. proof \in SUBSET Proofs BY <1>2
  <2>4. spent \in 0..MaxClock BY <1>0, Bounds
  <2> HIDE DEF confirmed, proof, spent
  <2> QED BY <1>2, <2>2, <2>3, <2>4, Zeros DEF Opened, Session
<1>6. account.active /\ account.password = calls[t].password /\ Room
  <2>1. UnderLock(t, "login") /\ Room BY DEF Login
  <2> QED BY <2>1, UnderLockFacts
<1>7. /\ new.password = calls[t].password /\ new.proof = proof /\ new.confirmed = confirmed
      /\ new.spent = spent
  BY DEF Opened
<1>8. \/ sessions' = Append(sessions, new) /\ ~recovered
      \/ sessions' = Append(Delete(Ids), new) /\ recovered
  BY DEF Login
<1>9. \A p \in proof : p.kind \in {"code", "recovery"} /\ (p.kind = "recovery" => recovered)
  <2>1. CASE coded
    <3>1. CodeAsked(t) BY <2>1 DEF CodeAsked
    <3>2. UnderLock(t, "login") BY DEF Login
    <3>3. PICK step \in 1..MaxClock : offer = Code(account.seed, step)
      BY <3>1, <3>2, UnderLockFacts
    <3> QED BY <3>3 DEF Code
  <2> QED BY <2>1
<1>10. ASSUME NEW p \in proof, p.kind # "code"
       PROVE  (\A n : ~Spent(p, n)) /\ (\A n : Spent(p, n)')
  <2>1. recovered /\ p = offer /\ p.kind = "recovery" BY <1>9, <1>10
  <2>2. offer.number \in account.codes BY <2>1 DEF Login
  <2>3. offer.number \in 1..account.issued /\ account.issued \in Nat
    BY <1>0, <2>2, Bounds DEF AccountOK, Account
  <2>4. account'.codes = account.codes \ {p.number} BY <1>3, <2>1
  <2>5. p.number <= account'.issued /\ p.number \in account.codes BY <1>3, <2>1, <2>2, <2>3
  <2> QED BY <2>1, <2>4, <2>5 DEF Spent
<1>11. ASSUME NEW p \in proof, p.kind = "code", NEW n \in {spent}
       PROVE  Spent(p, n)' /\ p.seed = account.seed /\ account.step <= p.step
              /\ account.step < spent
  <2>1. coded /\ p = offer /\ spent = clock BY <1>11
  <2>2. CodeAsked(t) BY <2>1 DEF CodeAsked
  <2>3. UnderLock(t, "login") /\ Unspent BY <2>1 DEF Login
  <2>4. account'.step = clock BY <1>3, <2>1
  <2>5. n = clock BY <2>1
  <2> HIDE DEF coded, spent, offer
  <2> QED BY <1>0, <1>3, <2>1, <2>2, <2>3, <2>4, <2>5, CodeIsSpent DEF offer
<1>12. account.mfa => (\E p \in proof : TRUE) /\ confirmed \in {0, account.seed}
  OBVIOUS
<1>13. recovered => \A i \in Ids : ~sessions'[i].live
  <2> SUFFICES ASSUME recovered, NEW i \in Ids PROVE ~sessions'[i].live OBVIOUS
  <2>1. sessions'[i] = Delete(Ids)[i]
    BY <1>0, <1>5, <1>8, Deleted, SessionRows, AppendedSession
  <2> QED BY <1>0, <2>1, Deleted
<1>14. OpensWell(new)
  <2> HIDE DEF new, proof, confirmed, recovered, spent
  <2>1. \A p \in proof, n \in {spent} : Spent(p, n)' BY <1>10, <1>11
  <2> QED BY <1>3, <1>6, <1>7, <1>9, <1>10, <1>11, <1>12, <1>13, <2>1 DEF OpensWell
<1> QED BY <1>0, <1>4, <1>5, <1>6, <1>8, <1>14, SessionOpened

LEMMA CompletionStep ==
  ASSUME Typed, RowLocksHold, NEW t \in Tabs, CompleteOIDCLogin(t)
  PROVE  SessionsStep
<1> DEFINE offer == calls[t].offer
           f == calls[t].flow
           proof == {Flow(f)} \cup (IF account.mfa THEN {offer} ELSE {})
           confirmed == IF account.mfa THEN account.seed ELSE 0
           spent == IF account.mfa THEN clock ELSE 0
           new == Opened(account.password, confirmed, proof, spent)
<1>0. AccountOK /\ SessionsOK /\ account \in Account /\ clock \in 1..MaxClock
  BY DEF Typed, AccountOK
<1>1. /\ account' = Used /\ sessions' = Append(sessions, new) /\ flow' = NoFlow /\ Room
      /\ UnderLock(t, "complete") /\ (account.mfa => Unspent)
  BY DEF CompleteOIDCLogin, Passes
<1>2. /\ account.active /\ account.linked /\ flow # NoFlow /\ flow.id = f
      /\ calls[t].op = "complete"
  BY <1>1, UnderLockFacts DEF Verified
<1>3. /\ account'.active = account.active /\ account'.password = account.password
      /\ account'.linked = account.linked /\ account'.mfa = account.mfa
      /\ account'.seed = account.seed /\ account'.seeds = account.seeds
      /\ account'.flows = account.flows
      /\ account'.step = (IF account.mfa THEN clock ELSE account.step)
  BY <1>0, <1>1 DEF Used, Account
<1>4. AccountStands BY <1>3 DEF AccountStands
<1>5. f \in 1..MaxFlow /\ f <= account.flows
  BY <1>2 DEF Typed, FlowOK, FlowRecord
<1>6. ASSUME account.mfa, NEW p, p = offer, NEW n \in {spent}
      PROVE  p.kind = "code" /\ Spent(p, n)' /\ p.seed = account.seed
             /\ account.step <= p.step /\ account.step < spent /\ p \in Proofs
  <2>1. CodeAsked(t)
    <3>1. CallOK(calls[t]) BY <1>1, CallRows DEF Typed, UnderLock, Asked
    <3>2. offer.kind # "recovery" BY <1>2, <3>1 DEF CallOK
    <3> QED BY <1>6, <3>2 DEF CodeAsked
  <2>2. n = clock /\ spent = clock /\ account'.step = clock BY <1>3, <1>6
  <2> HIDE DEF spent, offer
  <2> QED BY <1>0, <1>1, <1>3, <1>6, <2>1, <2>2, CodeIsSpent DEF offer
<1>7. Flow(f).kind = "flow" /\ Flow(f).id = f /\ Flow(f) \in Proofs
  <2>1. Flow(f) \in [kind : {"flow"}, id : 1..MaxFlow] BY <1>5 DEF Flow
  <2> QED BY <2>1 DEF Flow, Proofs
<1>8. ASSUME NEW p, p = Flow(f) PROVE (\A n : ~Spent(p, n)) /\ (\A n : Spent(p, n)')
  <2>1. p.kind = "flow" /\ p.id = f BY <1>7, <1>8
  <2>2. p.id <= account'.flows /\ p.id = flow.id BY <1>2, <1>3, <1>5, <2>1
  <2> QED BY <1>1, <1>2, <2>1, <2>2 DEF Spent
<1>9. new \in Session
  <2>1. account.seed \in 0..MaxSeed /\ account.password \in 0..MaxPassword
    BY <1>0, Bounds DEF Account
  <2>2. confirmed \in 0..MaxSeed /\ spent \in 0..MaxClock BY <1>0, <2>1, Zeros, Bounds
  <2>3. proof \in SUBSET Proofs BY <1>6, <1>7
  <2> HIDE DEF confirmed, proof, spent
  <2> QED BY <2>1, <2>2, <2>3, Zeros DEF Opened, Session
<1>10. new.password = account.password /\ new.proof = proof /\ new.confirmed = confirmed
       /\ new.spent = spent
  BY DEF Opened
<1>11. \A p \in proof : /\ p.kind \in {"code", "flow"}
                        /\ \A n \in {spent} : Spent(p, n)'
                        /\ p.kind # "code" => \A n : ~Spent(p, n)
                        /\ p.kind = "code" => p.seed = account.seed /\ account.step <= p.step
                                              /\ account.step < spent
  BY <1>6, <1>7, <1>8
<1>12. account.mfa => (\E p \in proof : p.kind = "code") /\ confirmed = account.seed
  BY <1>6
<1>13. OpensWell(new)
  <2> HIDE DEF new, proof, confirmed, spent
  <2> QED BY <1>2, <1>3, <1>10, <1>11, <1>12 DEF OpensWell
<1> QED BY <1>0, <1>1, <1>4, <1>9, <1>13, SessionOpened

\* Every step opens at most one session, well, and keeps the others as they should be.
LEMMA SessionsSteps ==
  ASSUME Typed, RowLocksHold, VerifiesPresentSeed, [Next]_vars
  PROVE  SessionsStep
<1>0. AccountOK /\ SessionsOK /\ account \in Account BY DEF Typed, AccountOK
<1>u. /\ Used.active = account.active /\ Used.password = account.password
      /\ Used.linked = account.linked /\ Used.mfa = account.mfa /\ Used.seed = account.seed
      /\ Used \in Account
  BY <1>0, Bounds DEF Used, Account, AccountOK
<1>q. account' = account \/ account' = Used => AccountStands BY <1>u DEF AccountStands
<1>d. (\E ids : sessions' = Delete(ids) /\ (AccountStands \/ Ids \subseteq ids)) => SessionsStep
  BY <1>0, SessionsDeleted
<1>1. ASSUME NEW t \in Tabs, Waits(t) \/ VerifyOIDCFlow(t) \/ KeepMFA(t)
      PROVE  SessionsStep
  <2>1. sessions' = sessions /\ (account' = account \/ account' = Used)
    BY <1>1, Waiting DEF VerifyOIDCFlow, KeepMFA
  <2> QED BY <1>0, <1>q, <2>1, SameSessions
<1>2. ASSUME NEW t \in Tabs, BeginMFAEnrollment(t) \/ BeginOIDCLink(t) \/ LinkOIDC(t)
      PROVE  SessionsStep
  <2>1. sessions' = sessions /\ AccountStands
    BY <1>0, <1>2, <1>u DEF BeginMFAEnrollment, BeginOIDCLink, LinkOIDC, AccountStands, Account
  <2> QED BY <1>0, <2>1, SameSessions
<1>3. ASSUME NEW t \in Tabs, SignsOut(t) PROVE SessionsStep
  BY <1>3, <1>d, SigningOut
<1>4. ASSUME NEW t \in Tabs, RevokeAccountSession(t) PROVE SessionsStep
  BY <1>4, <1>d, <1>q DEF RevokeAccountSession
<1>5. ASSUME NEW t \in Tabs, GenerateRecoveryCodes(t) PROVE SessionsStep
  <2>1. account'.active = account.active /\ account'.password = account.password
        /\ account'.linked = account.linked /\ account'.mfa = account.mfa
        /\ account'.seed = account.seed
    <3>1. account' = [Used EXCEPT !.codes = {account.issued + 1}, !.issued = @ + 1]
      BY <1>5 DEF GenerateRecoveryCodes
    <3> QED BY <1>u, <3>1 DEF Account
  <2>2. AccountStands BY <2>1 DEF AccountStands
  <2>3. CASE sessions' = sessions BY <1>0, <2>2, <2>3, SameSessions
  <2>4. CASE /\ Live(calls[t].session)
             /\ sessions' = [sessions EXCEPT ![calls[t].session].confirmed = account.seed]
    <3>1. calls[t].session \in Ids BY <2>4 DEF Live
    <3>2. account.seed \in 0..MaxSeed BY <1>0, Bounds DEF Account
    <3> QED BY <1>0, <2>2, <2>4, <3>1, <3>2, SessionConfirmed
  <2> QED BY <1>5, <2>3, <2>4 DEF GenerateRecoveryCodes
<1>6. ASSUME NEW t \in Tabs, VerifyMfa(t) PROVE SessionsStep
  <2>1. account'.active = account.active /\ account'.password = account.password
        /\ account'.linked = account.linked /\ account'.mfa = account.mfa
        /\ account'.seed = account.seed
    BY <1>0, <1>6 DEF VerifyMfa, Account
  <2>2. AccountStands BY <2>1 DEF AccountStands
  <2>3. CASE ~Live(calls[t].session)
    BY <1>0, <1>6, <2>2, <2>3, SameSessions DEF VerifyMfa
  <2>4. CASE Live(calls[t].session)
    <3>1. calls[t] \in CallRecord /\ calls[t].offer.kind = "code"
      BY <1>6, CallRows DEF Typed, VerifyMfa, Asked, CallOK
    <3>2. calls[t].offer.seed \in 0..MaxSeed
      <4>1. calls[t].offer \in Proofs BY <3>1 DEF CallRecord
      <4>2. calls[t].offer \in [kind : {"code"}, seed : 1..MaxSeed, step : 1..MaxClock]
        BY <3>1, <4>1 DEF Proofs, NoProof
      <4> QED BY <4>2, Bounds
    <3>3. account'.mfa => calls[t].offer.seed = account.seed
      BY <1>6, <2>1, <2>4 DEF VerifiesPresentSeed, VerifyMfa
    <3>4. sessions' = [sessions EXCEPT ![calls[t].session].confirmed = calls[t].offer.seed]
      BY <1>6, <2>4 DEF VerifyMfa
    <3>5. calls[t].session \in Ids BY <2>4 DEF Live
    <3> QED BY <1>0, <2>2, <3>2, <3>3, <3>4, <3>5, SessionConfirmed
  <2> QED BY <2>3, <2>4
<1>7. ASSUME NEW t \in Tabs, Refresh(t) PROVE SessionsStep
  <2> DEFINE i == calls[t].session
  <2>1. i \in Ids /\ sessions[i].token < MaxToken /\ account' = account
        /\ sessions' = [sessions EXCEPT ![i].token = @ + 1]
    BY <1>7 DEF Refresh, Live
  <2>2. sessions[i] \in Session BY <1>0, <2>1, SessionRows
  <2>3. sessions[i].token + 1 \in 0..MaxToken BY <2>1, <2>2, Bounds DEF Session
  <2>4. sessions' = [sessions EXCEPT ![i].token = sessions[i].token + 1]
    BY <1>0, <2>1, SessionRows
  <2> HIDE DEF i
  <2> QED BY <1>0, <1>q, <2>1, <2>3, <2>4, SessionRotated
<1>8. ASSUME NEW t \in Tabs, Logout(t) PROVE SessionsStep BY <1>8, <1>d, <1>q DEF Logout
<1>9. CASE BeginOIDCLogin
  <2>1. sessions' = sessions /\ AccountStands
    BY <1>0, <1>9 DEF BeginOIDCLogin, AccountStands, Account
  <2> QED BY <1>0, <2>1, SameSessions
<1>10. CASE FlowExpires \/ Tick \/ UNCHANGED vars
  BY <1>0, <1>10, <1>q, SameSessions DEF FlowExpires, Tick, vars
<1>11. CASE SeedAdministrator \/ \E active \in BOOLEAN : SetInstallationUser(active)
  BY <1>11, <1>d DEF SeedAdministrator, SetInstallationUser, DeleteUserSessions
<1>12. CASE \E i \in Ids : SessionExpires(i) BY <1>12, <1>d, <1>q DEF SessionExpires
<1> QED
  BY <1>1, <1>2, <1>3, <1>4, <1>5, <1>6, <1>7, <1>8, <1>9, <1>10, <1>11, <1>12, LoginStep,
     CompletionStep, StepKinds DEF Commit, Outside, SignsOut

\* A cookie names its session.
LEMMA CookieNames ==
  ASSUME NEW c
  PROVE  /\ c # <<>> => Names(c) = {c[1]}
         /\ c = <<>> => Names(c) = {}
         /\ \A i, n : <<i, n>> # <<>> /\ Names(<<i, n>>) = {i}
BY DEF Names

\* A call that begins is well typed.
LEMMA NewCall ==
  ASSUME Typed,
         NEW op \in {"login", "verify", "refresh", "logout", "callback", "complete"}
                      \cup AccountChanges,
         NEW i \in 0..Len(sessions), NEW offer \in Proofs, NEW j \in 0..Len(sessions),
         op \in {"callback", "complete"} => flow # NoFlow,
         op = "refresh" => jar # <<>> /\ i = jar[1],
         op = "logout" => i \in Ids,
         op = "complete" => offer.kind # "recovery",
         op = "verify" => offer.kind = "code",
         op \in {"login", "complete"} \cup AccountChanges => offer.kind # "flow"
  PROVE  CallOK(Call(op, i, offer)) /\ CallOK([Call(op, i, offer) EXCEPT !.target = j])
<1> DEFINE c == Call(op, i, offer)
           d == [c EXCEPT !.target = j]
           password == IF op \in {"login"} \cup AccountChanges THEN account.password ELSE 0
           mfa == op = "codes" /\ account.mfa
           f == IF op \in {"callback", "complete"} THEN flow.id ELSE 0
           cookie == IF i \in Names(jar) THEN jar ELSE <<>>
<1>1. /\ account.password \in 0..MaxPassword /\ account.mfa \in BOOLEAN
      /\ Len(sessions) \in 1..MaxSessions /\ KnownCookie(jar)
      /\ flow # NoFlow => flow.id \in 1..MaxFlow
  BY DEF Typed, AccountOK, Account, SessionsOK, BrowserOK, FlowOK, FlowRecord
<1>2. /\ 0..Len(sessions) \subseteq 0..MaxSessions /\ 0 \in 0..MaxSessions
  BY <1>1, Bounds DEF Ids
<1>3. /\ password \in 0..MaxPassword /\ mfa \in BOOLEAN
  BY <1>1, Zeros
<1>4. f \in 0..MaxFlow BY <1>1, Bounds
<1>5. KnownCookie(cookie)
  <2>1. KnownCookie(<<>>) BY DEF KnownCookie, Cookies, Names
  <2> QED BY <1>1, <2>1
<1>6. op = "refresh" => cookie # <<>> /\ i = cookie[1]
  BY CookieNames
<1>7. c = [op |-> op, session |-> i, offer |-> offer, locked |-> FALSE, password |-> password,
           mfa |-> mfa, flow |-> f, target |-> 0, cookie |-> cookie]
  BY DEF Call
<1>8. op # "answer" /\ cookie \in Cookies BY <1>5 DEF AccountChanges, KnownCookie
<1> HIDE DEF password, mfa, f, cookie, c
<1>9. c \in CallRecord BY <1>2, <1>3, <1>4, <1>7, <1>8 DEF CallRecord
<1>10. d \in CallRecord BY <1>2, <1>9 DEF CallRecord
<1>11. /\ c.op = op /\ c.session = i /\ c.offer = offer /\ c.cookie = cookie
       /\ c.locked = FALSE
  BY <1>7
<1>12. /\ d.op = op /\ d.session = i /\ d.offer = offer /\ d.cookie = cookie
       /\ d.locked = FALSE
  BY <1>9, <1>11 DEF CallRecord
<1>13. CallOK(c) BY <1>5, <1>6, <1>8, <1>9, <1>11 DEF CallOK
<1>14. CallOK(d) BY <1>5, <1>6, <1>8, <1>10, <1>12 DEF CallOK
<1> QED BY <1>13, <1>14 DEF c

\* What an answer is.
LEMMA AnswerTypes ==
  ASSUME SessionsOK', CallsOK, \A c : CallOK(c) => CallOK(c)', NEW t \in Tabs,
         NEW cookie, KnownCookie(cookie)', Answer(t, cookie)
  PROVE  /\ CallsOK' /\ calls'[t] \in CallRecord /\ calls'[t] # NoCall
         /\ calls'[t].op = "answer" /\ calls'[t].cookie = cookie /\ calls'[t].locked = FALSE
         /\ \A u \in Tabs \ {t} : calls'[u] = calls[u]
<1> DEFINE c == [op |-> "answer", session |-> 0, offer |-> NoProof, locked |-> FALSE,
                 password |-> 0, mfa |-> FALSE, flow |-> 0, target |-> 0, cookie |-> cookie]
<1>1. cookie \in Cookies /\ 0 \in 0..MaxSessions /\ 0 \in 0..Len(sessions')
  BY Bounds DEF KnownCookie, SessionsOK, Cookies
<1>2. NoProof \in Proofs /\ NoProof.kind = "none" BY DEF Proofs, NoProof
<1>3. /\ c.op = "answer" /\ c.session = 0 /\ c.offer = NoProof /\ c.cookie = cookie
      /\ c.locked = FALSE
  OBVIOUS
<1>4. c \in CallRecord BY <1>1, <1>2, Zeros DEF CallRecord
<1>5. calls' = [calls EXCEPT ![t] = c] BY DEF Answer
<1> HIDE DEF c
<1>6. c # NoCall BY <1>4, NoCallAssumption
<1>7. CallOK(c)' BY <1>1, <1>2, <1>3, <1>4 DEF CallOK, AccountChanges
<1>8. calls \in [Tabs -> CallRecord \cup {NoCall}] BY DEF CallsOK
<1>9. calls'[t] = c /\ \A u \in Tabs \ {t} : calls'[u] = calls[u] BY <1>5, <1>8
<1>10. CallsOK'
  <2>1. calls' \in [Tabs -> CallRecord \cup {NoCall}] BY <1>4, <1>5, <1>8
  <2>2. \A u \in Tabs : calls'[u] # NoCall => CallOK(calls[u])'
    <3> SUFFICES ASSUME NEW u \in Tabs, calls'[u] # NoCall PROVE CallOK(calls[u])' OBVIOUS
    <3>1. CASE u = t
      <4>1. \A d : d = c => CallOK(d)' BY <1>7
      <4> QED BY <1>9, <3>1, <4>1
    <3>2. CASE u # t
      <4>1. \A d : d = calls[u] => CallOK(d)' BY <1>9, <3>2 DEF CallsOK
      <4> QED BY <1>9, <3>2, <4>1
    <3> QED BY <3>1, <3>2
  <2> QED BY <2>1, <2>2 DEF CallsOK
<1> QED BY <1>3, <1>4, <1>6, <1>9, <1>10

\* What a call knows of sessions stays true as sessions are opened.
LEMMA CallsLast ==
  ASSUME Typed, SessionsStep
  PROVE  /\ \A c : CallOK(c) => CallOK(c)'
         /\ Ids \subseteq Ids' /\ \A c : KnownCookie(c) => KnownCookie(c)'
<1>1. Len(sessions) \in Nat /\ Len(sessions') \in Nat /\ Len(sessions) <= Len(sessions')
  BY Bounds DEF Typed, SessionsOK, SessionsStep
<1>2. Ids \subseteq Ids' BY <1>1 DEF Ids
<1>3. 0..Len(sessions) \subseteq 0..Len(sessions') BY <1>1
<1>4. \A c : KnownCookie(c) => KnownCookie(c)' BY <1>2 DEF KnownCookie
<1> QED BY <1>2, <1>3, <1>4 DEF CallOK

LEMMA CallReplaced ==
  ASSUME Typed, SessionsStep, NEW t \in Tabs, NEW c, c = NoCall \/ CallOK(c),
         calls' = [calls EXCEPT ![t] = c]
  PROVE  CallsOK'
<1>1. calls \in [Tabs -> CallRecord \cup {NoCall}] BY DEF Typed, CallsOK
<1>2. c \in CallRecord \cup {NoCall} BY DEF CallOK
<1>3. \A u \in Tabs : calls'[u] = IF u = t THEN c ELSE calls[u] BY <1>1
<1>4. \A d : CallOK(d) => CallOK(d)' BY CallsLast
<1>5. \A u \in Tabs : calls'[u] # NoCall => CallOK(calls[u])'
  <2> SUFFICES ASSUME NEW u \in Tabs, calls'[u] # NoCall PROVE CallOK(calls[u])' OBVIOUS
  <2>1. PICK d : d = calls'[u] OBVIOUS
  <2>2. CallOK(d) BY <1>3, <2>1 DEF Typed, CallsOK
  <2> QED BY <1>4, <2>1, <2>2
<1> QED BY <1>1, <1>2, <1>5 DEF CallsOK

\* A call begins, for the present seed if it is to verify a code.
Begins(t, c) ==
  /\ calls[t] = NoCall /\ CallOK(c) /\ ~c.locked /\ c.op # "answer"
  /\ c.cookie \in {jar, <<>>}
  /\ c.op = "verify" => c.offer.seed = account.seed
  /\ calls' = [calls EXCEPT ![t] = c]
  /\ UNCHANGED <<account, sessions, jar, astray, clock>>

\* A call ends, or only the word that the cookies are to go is left of it.
EndsCall(t) == calls[t] # NoCall /\ (Done(t) \/ Answer(t, <<>>))

Opens(t) == Login(t) \/ CompleteOIDCLogin(t)

\* What a tab's step does to its call.
LEMMA CallKinds ==
  ASSUME Typed, NEW t \in Tabs, Waits(t) \/ Commit(t)
  PROVE  \/ \E c : Begins(t, c)
         \/ LockRecoveryUser(t) \/ EndsCall(t) \/ Opens(t) \/ Refresh(t)
<1>0. /\ AccountOK /\ SessionsOK /\ CallsOK /\ FlowOK /\ BrowserOK
      /\ Ids \subseteq 0..Len(sessions) /\ 0 \in 0..Len(sessions) /\ NoProof \in Proofs
  BY SessionRows, OfferTypes DEF Typed
<1>b. ASSUME NEW op, NEW i, NEW offer, Idle(t), CallOK(Call(op, i, offer)),
             op # "answer", op = "verify" => offer.seed = account.seed,
             calls' = [calls EXCEPT ![t] = Call(op, i, offer)],
             UNCHANGED <<account, sessions, jar, astray, clock>>
      PROVE  \E c : Begins(t, c)
  <2>1. PICK c : c = Call(op, i, offer) OBVIOUS
  <2>2. c.op = op /\ ~c.locked /\ c.offer = offer /\ c.cookie \in {jar, <<>>}
    BY <2>1 DEF Call
  <2>3. Begins(t, c) BY <1>b, <2>1, <2>2 DEF Begins, Idle
  <2> QED BY <2>3
<1>1. ASSUME NEW offer \in Offers, BeginLogin(t, offer) PROVE \E c : Begins(t, c)
  <2>1. offer \in Proofs /\ offer.kind # "flow" BY <1>0, <1>1, OfferTypes DEF BeginLogin
  <2>2. CallOK(Call("login", 0, offer)) BY <1>0, <2>1, NewCall
  <2> QED BY <1>1, <1>b, <2>2 DEF BeginLogin
<1>2. ASSUME NEW offer \in Offers, BeginCompletion(t, offer) PROVE \E c : Begins(t, c)
  <2>1. offer \in Proofs /\ offer.kind \notin {"flow", "recovery"} /\ flow # NoFlow
    BY <1>0, <1>2, OfferTypes DEF BeginCompletion
  <2>2. CallOK(Call("complete", 0, offer)) BY <1>0, <2>1, NewCall
  <2> QED BY <1>2, <1>b, <2>2 DEF BeginCompletion
<1>3. ASSUME NEW op \in AccountChanges, NEW i \in Ids, NEW j \in {0} \cup Ids,
             NEW offer \in Offers, BeginAccountChange(t, op, i, j, offer)
      PROVE  \E c : Begins(t, c)
  <2>1. offer \in {Code(account.seed, clock), NoProof} \cup Codes
    BY <1>3 DEF BeginAccountChange
  <2>2. offer \in Proofs /\ offer.kind # "flow" BY <1>0, <2>1, OfferTypes
  <2>3. op \notin {"login", "callback", "complete", "refresh", "verify", "logout", "answer"}
    BY DEF AccountChanges
  <2>4. i \in 0..Len(sessions) /\ j \in 0..Len(sessions) BY <1>0
  <2>5. CallOK([Call(op, i, offer) EXCEPT !.target = j]) BY <2>2, <2>3, <2>4, NewCall
  <2>6. LET c == [Call(op, i, offer) EXCEPT !.target = j] IN
          c.op = op /\ ~c.locked /\ c.cookie \in {jar, <<>>}
    BY DEF Call
  <2> QED BY <1>3, <2>3, <2>5, <2>6 DEF BeginAccountChange, Begins, Idle
<1>4. ASSUME NEW i \in Ids, BeginVerifyMfa(t, i) PROVE \E c : Begins(t, c)
  <2>1. CallOK(Call("verify", i, Code(account.seed, clock)))
    BY <1>0, NewCall, OfferTypes DEF AccountChanges
  <2>2. Code(account.seed, clock).seed = account.seed BY DEF Code
  <2> QED BY <1>4, <1>b, <2>1, <2>2 DEF BeginVerifyMfa
<1>5. ASSUME NEW i \in Ids, BeginLogout(t, i) PROVE \E c : Begins(t, c)
  <2>1. CallOK(Call("logout", i, NoProof)) BY <1>0, NewCall DEF AccountChanges
  <2> QED BY <1>5, <1>b, <2>1 DEF BeginLogout
<1>6. ASSUME BeginRefresh(t) PROVE \E c : Begins(t, c)
  <2>1. jar # <<>> /\ jar[1] \in Ids
    BY <1>0, <1>6, CookieNames DEF BeginRefresh, BrowserOK, KnownCookie
  <2>2. jar[1] \in 0..Len(sessions) BY <1>0, <2>1
  <2>3. CallOK(Call("refresh", jar[1], NoProof))
    BY <1>0, <2>1, <2>2, NewCall DEF AccountChanges
  <2> QED BY <1>6, <1>b, <2>3 DEF BeginRefresh
<1>7. ASSUME ClaimOIDCFlow(t) PROVE \E c : Begins(t, c)
  <2>1. flow # NoFlow /\ flow.session \in 0..Len(sessions) BY <1>0, <1>7 DEF ClaimOIDCFlow, FlowOK
  <2>2. CallOK(Call("callback", flow.session, NoProof))
    BY <1>0, <2>1, NewCall DEF AccountChanges
  <2> QED BY <1>7, <1>b, <2>2 DEF ClaimOIDCFlow
<1>8. CASE \/ Refused(t) \/ Arrives(t) \/ AnswerLost(t)
  BY <1>8 DEF Refused, Arrives, AnswerLost, EndsCall, Idle, Asked
<1>9. CASE \/ VerifyMfa(t) \/ VerifyOIDCFlow(t) \/ LinkOIDC(t)
  BY <1>9 DEF VerifyMfa, VerifyOIDCFlow, LinkOIDC, Callback, EndsCall, Asked
<1>10. CASE \/ ChangePassword(t) \/ GenerateRecoveryCodes(t) \/ RevokeAccountSession(t)
            \/ EnableMFA(t) \/ DisableMFA(t) \/ KeepMFA(t) \/ BeginMFAEnrollment(t)
            \/ BeginOIDCLink(t) \/ UnlinkOIDC(t) \/ Logout(t)
  BY <1>10 DEF ChangePassword, GenerateRecoveryCodes, RevokeAccountSession, EnableMFA, DisableMFA,
               KeepMFA, BeginMFAEnrollment, BeginOIDCLink, UnlinkOIDC, Logout, EndsCall, SignedOut,
               UnderLock, Asked
<1> QED
  BY <1>1, <1>2, <1>3, <1>4, <1>5, <1>6, <1>7, <1>8, <1>9, <1>10
  DEF Waits, Begin, Commit, Opens

\* Nothing outside a tab touches a call.
LEMMA OutsideCalls ==
  ASSUME Outside
  PROVE  UNCHANGED <<calls, jar, astray>>
BY DEF Outside, SessionExpires, BeginOIDCLogin, FlowExpires, SetInstallationUser,
       SeedAdministrator, Tick, vars

\* A call that opens a session answers with it.
LEMMA OpensAnswer ==
  ASSUME Typed, SessionsStep, NEW t \in Tabs, Opens(t)
  PROVE  /\ Len(sessions') = Len(sessions) + 1
         /\ \E cookie : /\ cookie = <<Len(sessions) + 1, 0>> /\ KnownCookie(cookie)'
                        /\ Answer(t, cookie)
<1>0. SessionsOK /\ Len(sessions) \in Nat /\ SessionsOK' /\ Len(sessions) \in 1..MaxSessions
  BY SessionRows DEF Typed, SessionsStep, SessionsOK
<1>1. Len(sessions') = Len(sessions) + 1
  <2>1. Delete(Ids) \in Seq(Session) /\ Len(Delete(Ids)) = Len(sessions) BY <1>0, Deleted
  <2>2. Len(sessions') # Len(sessions)
    BY <1>0, <2>1 DEF Opens, Login, CompleteOIDCLogin, SessionsOK
  <2> QED BY <2>2 DEF SessionsStep
<1>2. PICK cookie : cookie = <<Len(sessions) + 1, 0>> OBVIOUS
<1>3. Answer(t, cookie) BY <1>2 DEF Opens, Login, CompleteOIDCLogin
<1>4. Names(cookie) = {Len(sessions) + 1} /\ Len(sessions) + 1 \in Ids'
  BY <1>0, <1>1, <1>2, CookieNames DEF Ids
<1>5. cookie \in Cookies
  <2>1. Len(sessions) + 1 \in 1..MaxSessions BY <1>0, <1>1 DEF SessionsOK
  <2> QED BY <1>2, <2>1, Zeros DEF Cookies
<1>6. KnownCookie(cookie)' BY <1>4, <1>5 DEF KnownCookie, Names
<1> QED BY <1>1, <1>2, <1>3, <1>6

\* So does a call that is given a new token.
LEMMA RefreshAnswers ==
  ASSUME Typed, SessionsStep, NEW t \in Tabs, Refresh(t)
  PROVE  \E cookie :
           /\ cookie = <<calls[t].session, sessions[calls[t].session].token + 1>>
           /\ KnownCookie(cookie)' /\ Answer(t, cookie)
<1> DEFINE i == calls[t].session
           n == sessions[i].token + 1
<1>1. i \in Ids /\ sessions[i].token < MaxToken BY DEF Refresh, Live
<1>2. sessions[i] \in Session BY <1>1, SessionRows DEF Typed
<1>3. n \in 0..MaxToken BY <1>1, <1>2, Bounds DEF Session
<1>4. i \in Ids' /\ i \in 1..MaxSessions
  BY <1>1, CallsLast, Bounds DEF Ids, Typed, SessionsOK
<1>5. PICK cookie : cookie = <<i, n>> OBVIOUS
<1>6. Answer(t, cookie) BY <1>5 DEF Refresh
<1> HIDE DEF i, n
<1>7. cookie \in Cookies BY <1>3, <1>4, <1>5 DEF Cookies
<1>8. Names(cookie) = {i} BY <1>5, CookieNames
<1>9. KnownCookie(cookie)' BY <1>4, <1>7, <1>8 DEF KnownCookie, Names
<1> QED BY <1>5, <1>6, <1>9 DEF i, n

\* Calls stay well typed.
LEMMA CallsTypes ==
  ASSUME Typed, SessionsStep, [Next]_vars
  PROVE  CallsOK'
<1>0. /\ CallsOK /\ SessionsOK' /\ \A c : CallOK(c) => CallOK(c)'
  BY CallsLast DEF Typed, SessionsStep
<1>n. KnownCookie(<<>>)' BY DEF KnownCookie, Cookies, Names
<1>a. ASSUME NEW t \in Tabs, NEW cookie, KnownCookie(cookie)', Answer(t, cookie) PROVE CallsOK'
  BY <1>0, <1>a, AnswerTypes
<1>1. ASSUME NEW t \in Tabs, NEW c, Begins(t, c) PROVE CallsOK'
  BY <1>1, CallReplaced DEF Begins
<1>2. ASSUME NEW t \in Tabs, LockRecoveryUser(t) PROVE CallsOK'
  <2> DEFINE c == [calls[t] EXCEPT !.locked = TRUE]
  <2>1. CallOK(calls[t]) /\ calls[t] \in CallRecord
    BY <1>0, <1>2, CallRows DEF LockRecoveryUser
  <2>2. CallOK(c)
    <3>1. c \in CallRecord BY <2>1 DEF CallRecord
    <3>2. /\ c.op = calls[t].op /\ c.session = calls[t].session /\ c.offer = calls[t].offer
          /\ c.cookie = calls[t].cookie
      BY <2>1 DEF CallRecord
    <3> HIDE DEF c
    <3> QED BY <1>2, <2>1, <3>1, <3>2 DEF CallOK, LockRecoveryUser
  <2>3. calls' = [calls EXCEPT ![t] = c] BY <1>0, <1>2 DEF LockRecoveryUser, CallsOK
  <2> HIDE DEF c
  <2> QED BY <2>2, <2>3, CallReplaced
<1>3. ASSUME NEW t \in Tabs, EndsCall(t) PROVE CallsOK'
  <2>1. CASE Done(t) BY <2>1, CallReplaced DEF Done
  <2>2. CASE Answer(t, <<>>) BY <1>a, <1>n, <2>2
  <2> QED BY <1>3, <2>1, <2>2 DEF EndsCall
<1>4. ASSUME NEW t \in Tabs, Opens(t) \/ Refresh(t) PROVE CallsOK'
  BY <1>4, <1>a, OpensAnswer, RefreshAnswers
<1>5. ASSUME UNCHANGED calls PROVE CallsOK'
  <2>1. \A t \in Tabs : calls'[t] # NoCall => CallOK(calls[t])'
    <3> SUFFICES ASSUME NEW t \in Tabs, calls'[t] # NoCall PROVE CallOK(calls[t])' OBVIOUS
    <3>1. PICK d : d = calls[t] OBVIOUS
    <3>2. CallOK(d) BY <1>0, <1>5, <3>1 DEF CallsOK
    <3> QED BY <1>0, <1>5, <3>1, <3>2
  <2> QED BY <1>0, <1>5, <2>1 DEF CallsOK
<1> QED BY <1>1, <1>2, <1>3, <1>4, <1>5, StepKinds, CallKinds, OutsideCalls

-----------------------------------------------------------------------------
(* The account goes on, and what was spent stays spent.                    *)

\* Counters grow, a code used stays used until its seed is replaced, and recovery codes
\* already issued are not issued again.
AccountGoesOn ==
  /\ account.flows <= account'.flows /\ account.issued <= account'.issued
  /\ \A n \in 1..account.issued : n \in account'.codes => n \in account.codes
  /\ \/ account'.seed = account.seed /\ account.step <= account'.step
     \/ account'.seed = account.seed + 1

LEMMA AccountSteps ==
  ASSUME Typed, [Next]_vars
  PROVE  AccountGoesOn
<1>0. /\ account \in Account /\ clock \in 1..MaxClock /\ account.step <= clock
      /\ account.seed = account.seeds /\ account.codes \subseteq 1..account.issued
      /\ account.step \in Nat /\ account.issued \in Nat /\ clock \in Nat
      /\ account.flows \in Nat /\ account.seed \in Nat
  BY Bounds DEF Typed, AccountOK, Account
<1>u. /\ Used \in Account /\ Used.seed = account.seed /\ account.step <= Used.step
      /\ Used.codes = account.codes /\ Used.issued = account.issued
      /\ Used.flows = account.flows
  BY <1>0 DEF Used, Account
<1>e. account' = account \/ account' = Used => AccountGoesOn
  BY <1>0, <1>u DEF AccountGoesOn
<1>1. ASSUME NEW t \in Tabs, Login(t) PROVE AccountGoesOn
  <2>1. /\ account'.flows = account.flows /\ account'.issued = account.issued
        /\ account'.codes \subseteq account.codes /\ account'.seed = account.seed
        /\ account.step <= account'.step
    BY <1>0, <1>1 DEF Login, Account
  <2> QED BY <1>0, <2>1 DEF AccountGoesOn
<1>2. ASSUME NEW t \in Tabs, ChangePassword(t) \/ DisableMFA(t) \/ UnlinkOIDC(t)
      PROVE  AccountGoesOn
  <2>1. /\ account'.flows = Used.flows /\ account'.issued = Used.issued
        /\ account'.codes = Used.codes /\ account'.seed = Used.seed
        /\ account'.step = Used.step
    BY <1>2, <1>u DEF ChangePassword, DisableMFA, UnlinkOIDC, Account
  <2> QED BY <1>0, <1>u, <2>1 DEF AccountGoesOn
<1>3. ASSUME NEW t \in Tabs, GenerateRecoveryCodes(t) PROVE AccountGoesOn
  <2>1. account' = [Used EXCEPT !.codes = {account.issued + 1}, !.issued = account.issued + 1]
    BY <1>3, <1>u DEF GenerateRecoveryCodes
  <2>2. /\ account'.codes = {account.issued + 1} /\ account'.issued = account.issued + 1
        /\ account'.seed = account.seed /\ account.step <= account'.step
        /\ account'.flows = account.flows
    BY <1>u, <2>1 DEF Account
  <2> QED BY <1>0, <2>2 DEF AccountGoesOn
<1>4. ASSUME NEW t \in Tabs, EnableMFA(t) \/ VerifyMfa(t) \/ LinkOIDC(t)
      PROVE  AccountGoesOn
  <2>1. /\ account'.flows = account.flows /\ account'.issued = account.issued
        /\ account'.codes = account.codes /\ account'.seed = account.seed
        /\ account'.step \in {account.step, clock}
    BY <1>0, <1>4 DEF EnableMFA, VerifyMfa, LinkOIDC, Account
  <2> QED BY <1>0, <2>1 DEF AccountGoesOn
<1>5. ASSUME NEW t \in Tabs, BeginMFAEnrollment(t) PROVE AccountGoesOn
  <2>1. /\ account'.flows = account.flows /\ account'.issued = account.issued
        /\ account'.codes = account.codes /\ account'.seed = account.seed + 1
    BY <1>0, <1>5 DEF BeginMFAEnrollment, Account
  <2> QED BY <1>0, <2>1 DEF AccountGoesOn
<1>6. ASSUME NEW t \in Tabs, RevokeAccountSession(t) \/ CompleteOIDCLogin(t) \/ KeepMFA(t)
      PROVE  AccountGoesOn
  BY <1>6, <1>e DEF RevokeAccountSession, CompleteOIDCLogin, KeepMFA
<1>7. ASSUME NEW t \in Tabs, BeginOIDCLink(t) PROVE AccountGoesOn
  <2>1. account' = [Used EXCEPT !.flows = account.flows + 1]
    BY <1>7, <1>u DEF BeginOIDCLink
  <2>2. /\ account'.codes = account.codes /\ account'.issued = account.issued
        /\ account'.seed = account.seed /\ account.step <= account'.step
        /\ account'.flows = account.flows + 1
    BY <1>u, <2>1 DEF Account
  <2> QED BY <1>0, <2>2 DEF AccountGoesOn
<1>8. CASE \/ BeginOIDCLogin \/ SeedAdministrator
           \/ \E active \in BOOLEAN : SetInstallationUser(active)
  <2>1. /\ account'.flows \in {account.flows, account.flows + 1}
        /\ account'.issued = account.issued /\ account'.codes = account.codes
        /\ account'.seed = account.seed /\ account'.step = account.step
    BY <1>0, <1>8 DEF BeginOIDCLogin, SeedAdministrator, SetInstallationUser, Account
  <2> QED BY <1>0, <2>1 DEF AccountGoesOn
<1>9. ASSUME NEW t \in Tabs, Waits(t) \/ Refresh(t) \/ VerifyOIDCFlow(t) \/ Logout(t)
       PROVE  AccountGoesOn
  BY <1>9, <1>e, Waiting DEF Refresh, VerifyOIDCFlow, Logout
<1>10. FlowExpires \/ Tick \/ UNCHANGED vars \/ (\E i \in Ids : SessionExpires(i)) => AccountGoesOn
  BY <1>e DEF FlowExpires, Tick, vars, SessionExpires
<1> QED
  BY <1>1, <1>2, <1>3, <1>4, <1>5, <1>6, <1>7, <1>8, <1>9, <1>10, StepKinds DEF Commit, Outside

\* The flow is left, given up, claimed, verified, or a new one with a number of its own; only
\* one that links an identity belongs to a session.
FlowGoesOn ==
  \/ flow' = NoFlow
  \/ flow # NoFlow /\ flow' = flow
  \/ flow # NoFlow /\ flow.mode # "verified" /\ flow' = [flow EXCEPT !.claimed = TRUE]
  \/ flow # NoFlow /\ flow.mode = "login" /\ flow' = [flow EXCEPT !.mode = "verified"]
  \/ /\ \E mode \in {"login", "link"}, i \in 0..Len(sessions) :
          NewFlow(mode, i) /\ (mode # "link" => i = 0)
     /\ flow = NoFlow /\ account.flows < MaxFlow /\ account'.flows = account.flows + 1

LEMMA FlowSteps ==
  ASSUME Typed, [Next]_vars
  PROVE  FlowGoesOn
<1>a. /\ account \in Account /\ Used \in Account /\ Used.flows = account.flows
      /\ Ids \subseteq 0..Len(sessions) /\ 0 \in 0..Len(sessions)
  <2>1. account \in Account /\ Used \in Account /\ Used.flows = account.flows
    BY Bounds DEF Typed, AccountOK, Account, Used
  <2>2. Ids \subseteq 0..Len(sessions) /\ 0 \in 0..Len(sessions) BY SessionRows DEF Typed
  <2> QED BY <2>1, <2>2
<1>s. UNCHANGED flow => FlowGoesOn BY DEF FlowGoesOn
<1>c. (\E ids : flow' = Cascade(ids)) => FlowGoesOn BY DEF FlowGoesOn, Cascade
<1>1. ASSUME NEW t \in Tabs, BeginOIDCLink(t) PROVE FlowGoesOn
  <2>1. /\ NewFlow("link", calls[t].session) /\ flow = NoFlow /\ account.flows < MaxFlow
        /\ Live(calls[t].session)
    BY <1>1 DEF BeginOIDCLink
  <2>2. account' = [Used EXCEPT !.flows = account.flows + 1]
    BY <1>1, <1>a DEF BeginOIDCLink
  <2>3. account'.flows = account.flows + 1 BY <1>a, <2>2 DEF Account
  <2>4. calls[t].session \in 0..Len(sessions) BY <1>a, <2>1 DEF Live
  <2> QED BY <2>1, <2>3, <2>4 DEF FlowGoesOn
<1>2. CASE BeginOIDCLogin
  <2>1. /\ NewFlow("login", 0) /\ flow = NoFlow /\ account.flows < MaxFlow
        /\ account'.flows = account.flows + 1
    BY <1>2, <1>a DEF BeginOIDCLogin, Account
  <2> QED BY <1>a, <2>1 DEF FlowGoesOn
<1>3. ASSUME NEW t \in Tabs, ClaimOIDCFlow(t) \/ VerifyOIDCFlow(t) PROVE FlowGoesOn
  BY <1>3 DEF ClaimOIDCFlow, VerifyOIDCFlow, FlowGoesOn
<1>4. ASSUME NEW t \in Tabs, LinkOIDC(t) \/ CompleteOIDCLogin(t) \/ Login(t)
      PROVE  FlowGoesOn
  BY <1>4, <1>c, <1>s DEF LinkOIDC, CompleteOIDCLogin, Login, FlowGoesOn
<1>5. ASSUME NEW t \in Tabs, SignsOut(t) \/ RevokeAccountSession(t) \/ Logout(t)
      PROVE  FlowGoesOn
  BY <1>5, <1>c, SigningOut DEF RevokeAccountSession, Logout
<1>6. ASSUME NEW t \in Tabs,
             \/ VerifyMfa(t) \/ GenerateRecoveryCodes(t) \/ BeginMFAEnrollment(t)
             \/ Refresh(t) \/ KeepMFA(t)
      PROVE  FlowGoesOn
  BY <1>6, <1>s DEF VerifyMfa, GenerateRecoveryCodes, BeginMFAEnrollment, Refresh, KeepMFA
<1>7. ASSUME NEW t \in Tabs, Waits(t), ~ClaimOIDCFlow(t) PROVE FlowGoesOn
  BY <1>7, <1>s DEF Waits, Begin, BeginLogin, BeginCompletion, BeginAccountChange,
                    BeginVerifyMfa, BeginLogout, BeginRefresh, LockRecoveryUser, Refused,
                    Arrives, AnswerLost
<1>8. CASE SeedAdministrator \/ \E active \in BOOLEAN : SetInstallationUser(active)
  BY <1>8, <1>c DEF SeedAdministrator, SetInstallationUser, DeleteUserSessions
<1>9. CASE FlowExpires \/ Tick \/ UNCHANGED vars \/ \E i \in Ids : SessionExpires(i)
  BY <1>9, <1>s DEF FlowExpires, Tick, vars, SessionExpires, FlowGoesOn
<1> QED
  BY <1>1, <1>2, <1>3, <1>4, <1>5, <1>6, <1>7, <1>8, <1>9, StepKinds
  DEF Commit, Outside, SignsOut

\* What was spent once is spent for good.
LEMMA SpentStays ==
  ASSUME Typed, [Next]_vars, AccountOK', NEW p \in Proofs, NEW n \in Nat, Spent(p, n)
  PROVE  Spent(p, n)'
<1>0. /\ account.seed = account.seeds /\ account'.seed = account'.seeds
      /\ account.seed \in Nat /\ account'.seed \in Nat
      /\ account.step \in Nat /\ account'.step \in Nat
      /\ account.issued \in Nat /\ account'.issued \in Nat
      /\ account.flows \in Nat /\ account'.flows \in Nat
  BY Bounds DEF Typed, AccountOK, Account
<1>1. AccountGoesOn /\ FlowGoesOn BY AccountSteps, FlowSteps
<1>2. CASE p.kind = "code"
  <2>1. p.seed \in Nat /\ p.step \in Nat
    <3>1. p \in [kind : {"code"}, seed : 1..MaxSeed, step : 1..MaxClock]
      BY <1>2 DEF Proofs, NoProof
    <3> QED BY <3>1, Bounds
  <2>2. p.seed <= account.seed /\ (p.seed = account.seed => p.step <= n /\ n <= account.step)
    BY <1>0, <1>2 DEF Spent
  <2> QED BY <1>0, <1>1, <1>2, <2>1, <2>2 DEF Spent, AccountGoesOn
<1>3. CASE p.kind = "recovery"
  <2>1. p.number \in Nat \ {0}
    <3>1. p \in [kind : {"recovery"}, number : 1..MaxCode]
      BY <1>3 DEF Proofs, NoProof
    <3> QED BY <3>1, Bounds
  <2>2. p.number <= account.issued /\ p.number \notin account.codes BY <1>3 DEF Spent
  <2>3. p.number \in 1..account.issued BY <1>0, <2>1, <2>2
  <2>4. p.number <= account'.issued BY <1>0, <1>1, <2>1, <2>2 DEF AccountGoesOn
  <2> QED BY <1>1, <1>3, <2>2, <2>3, <2>4 DEF Spent, AccountGoesOn
<1>4. CASE p.kind = "flow"
  <2>1. p.id \in Nat
    <3>1. p \in [kind : {"flow"}, id : 1..MaxFlow] BY <1>4 DEF Proofs, NoProof
    <3> QED BY <3>1, Bounds
  <2>2. p.id <= account.flows /\ (flow # NoFlow => flow.id # p.id) BY <1>4 DEF Spent
  <2>3. p.id <= account'.flows BY <1>0, <1>1, <2>1, <2>2 DEF AccountGoesOn
  <2>4. flow' # NoFlow => flow'.id # p.id
    <3>1. flow # NoFlow => flow \in FlowRecord BY DEF Typed, FlowOK
    <3>2. ASSUME NEW mode \in {"login", "link"}, NEW i \in 0..Len(sessions), NewFlow(mode, i)
          PROVE  flow'.id = account.flows + 1
      BY <3>2 DEF NewFlow
    <3>3. flow # NoFlow => /\ [flow EXCEPT !.claimed = TRUE].id = flow.id
                           /\ [flow EXCEPT !.mode = "verified"].id = flow.id
      BY <3>1 DEF FlowRecord
    <3>4. \/ flow' = NoFlow
          \/ flow # NoFlow /\ flow'.id = flow.id
          \/ flow'.id = account.flows + 1
      BY <1>1, <3>2, <3>3 DEF FlowGoesOn
    <3> QED BY <1>0, <2>1, <2>2, <3>4
  <2> QED BY <1>4, <2>3, <2>4 DEF Spent
<1> QED BY <1>2, <1>3, <1>4 DEF Spent

-----------------------------------------------------------------------------
(* The flow, the browser and the locks.                                    *)

LEMMA FlowTypes ==
  ASSUME Typed, SessionsStep, AccountOK', [Next]_vars
  PROVE  FlowOK'
<1>0. /\ AccountGoesOn /\ FlowGoesOn /\ account.flows \in Nat /\ account'.flows \in Nat
      /\ Len(sessions) \in Nat /\ Len(sessions') \in Nat /\ Len(sessions) <= Len(sessions')
      /\ Len(sessions) <= MaxSessions
  <2>1. AccountGoesOn /\ FlowGoesOn BY AccountSteps, FlowSteps
  <2>2. account.flows \in Nat /\ account'.flows \in Nat
    BY Bounds DEF Typed, AccountOK, Account
  <2>3. /\ Len(sessions) \in Nat /\ Len(sessions') \in Nat /\ Len(sessions) <= Len(sessions')
        /\ Len(sessions) <= MaxSessions
    BY Bounds DEF Typed, SessionsOK, SessionsStep
  <2> QED BY <2>1, <2>2, <2>3
<1> SUFFICES ASSUME flow' # NoFlow PROVE FlowOK' BY DEF FlowOK
<1>1. CASE /\ flow # NoFlow
           /\ \/ flow' = flow
              \/ flow.mode # "verified" /\ flow' = [flow EXCEPT !.claimed = TRUE]
              \/ flow.mode = "login" /\ flow' = [flow EXCEPT !.mode = "verified"]
  <2>1. /\ flow \in FlowRecord /\ flow.id <= account.flows
        /\ flow.session \in 0..Len(sessions) /\ (flow.mode # "link" => flow.session = 0)
    BY <1>1 DEF Typed, FlowOK
  <2>2. /\ flow' \in FlowRecord /\ flow'.id = flow.id /\ flow'.session = flow.session
        /\ flow'.mode # "link" => flow.mode # "link"
    BY <1>1, <2>1 DEF FlowRecord
  <2>3. flow'.id <= account'.flows
    BY <1>0, <2>1, <2>2 DEF AccountGoesOn, FlowRecord
  <2>4. flow'.session \in 0..Len(sessions') BY <1>0, <2>1, <2>2
  <2> QED BY <2>1, <2>2, <2>3, <2>4 DEF FlowOK
<1>2. ASSUME NEW mode \in {"login", "link"}, NEW i \in 0..Len(sessions), NewFlow(mode, i),
             mode # "link" => i = 0, account.flows < MaxFlow,
             account'.flows = account.flows + 1
      PROVE  FlowOK'
  <2> DEFINE n == account.flows + 1
  <2>1. n \in 1..MaxFlow /\ n <= account'.flows BY <1>0, <1>2, Bounds
  <2>2. i \in 0..MaxSessions /\ i \in 0..Len(sessions') BY <1>0, Bounds
  <2>3. flow' = [id |-> n, mode |-> mode, claimed |-> FALSE, session |-> i]
    BY <1>2 DEF NewFlow
  <2> HIDE DEF n
  <2>4. flow' \in FlowRecord /\ flow'.id = n /\ flow'.mode = mode /\ flow'.session = i
    BY <2>1, <2>2, <2>3 DEF FlowRecord
  <2> QED BY <1>2, <2>1, <2>2, <2>4 DEF FlowOK
<1> QED BY <1>0, <1>1, <1>2 DEF FlowGoesOn

\* Only an answer that arrives or is lost changes what the browser holds.
LEMMA BrowserSteps ==
  ASSUME [Next]_vars
  PROVE  UNCHANGED <<jar, astray>> \/ \E t \in Tabs : Arrives(t) \/ AnswerLost(t)
<1>1. ASSUME NEW t \in Tabs, Begin(t) \/ LockRecoveryUser(t) \/ Refused(t)
      PROVE  UNCHANGED <<jar, astray>>
  BY <1>1 DEF Begin, BeginLogin, BeginCompletion, BeginAccountChange, BeginVerifyMfa,
              BeginLogout, BeginRefresh, ClaimOIDCFlow, LockRecoveryUser, Refused
<1>2. ASSUME NEW t \in Tabs, Commit(t) PROVE UNCHANGED <<jar, astray>>
  BY <1>2 DEF Commit, Login, Refresh, VerifyMfa, Logout, ChangePassword,
              GenerateRecoveryCodes, RevokeAccountSession, EnableMFA, DisableMFA, KeepMFA,
              BeginMFAEnrollment, BeginOIDCLink, UnlinkOIDC, VerifyOIDCFlow, LinkOIDC,
              CompleteOIDCLogin
<1> QED BY <1>1, <1>2, StepKinds, OutsideCalls DEF Waits

LEMMA BrowserTypes ==
  ASSUME Typed, SessionsStep, [Next]_vars
  PROVE  BrowserOK'
<1>0. /\ KnownCookie(jar) /\ astray \subseteq Ids /\ Ids \subseteq Ids'
      /\ \A c : KnownCookie(c) => KnownCookie(c)'
  BY CallsLast DEF Typed, BrowserOK
<1>1. \A c : KnownCookie(c) => Names(c) \subseteq Ids BY DEF KnownCookie
<1>2. CASE UNCHANGED <<jar, astray>>
  <2>1. PICK c : c = jar OBVIOUS
  <2>2. KnownCookie(c)' BY <1>0, <2>1
  <2>3. KnownCookie(jar)' BY <1>2, <2>1, <2>2
  <2> QED BY <1>0, <1>2, <2>3 DEF BrowserOK
<1>3. ASSUME NEW t \in Tabs, Arrives(t) \/ AnswerLost(t) PROVE BrowserOK'
  <2>1. PICK c : c = calls[t].cookie OBVIOUS
  <2>2. KnownCookie(c) BY <1>3, <2>1 DEF Arrives, AnswerLost, Asked, Typed, CallsOK, CallOK
  <2>3. jar' \in {jar, c} /\ astray' \subseteq astray \cup Names(jar) \cup Names(c)
    BY <1>3, <2>1 DEF Arrives, AnswerLost
  <2>4. PICK d \in {jar, c} : d = jar' BY <2>3
  <2>5. KnownCookie(d)' BY <1>0, <2>2, <2>4
  <2>6. KnownCookie(jar)' BY <2>4, <2>5
  <2>7. astray' \subseteq Ids' BY <1>0, <1>1, <2>2, <2>3
  <2> QED BY <2>6, <2>7 DEF BrowserOK
<1> QED BY <1>2, <1>3, BrowserSteps

\* A call to verify a code is begun with the present seed, and lasts as it is.
LEMMA VerifySteps ==
  ASSUME Typed, SessionsStep, [Next]_vars, NEW t \in Tabs, Asked(t, "verify")'
  PROVE  \/ calls'[t] = calls[t]
         \/ account' = account /\ calls'[t].offer.seed = account.seed
<1>0. calls \in [Tabs -> CallRecord \cup {NoCall}] BY DEF Typed, CallsOK
<1>1. calls'[t] # NoCall /\ calls'[t].op = "verify" BY DEF Asked
<1>a. ASSUME NEW u \in Tabs, NEW cookie, Answer(u, cookie) PROVE calls'[t] = calls[t]
  BY <1>0, <1>1, <1>a DEF Answer
<1>2. ASSUME NEW u \in Tabs, NEW c, Begins(u, c)
      PROVE  \/ calls'[t] = calls[t]
             \/ account' = account /\ calls'[t].offer.seed = account.seed
  BY <1>0, <1>1, <1>2 DEF Begins
<1>3. ASSUME NEW u \in Tabs, LockRecoveryUser(u) PROVE calls'[t] = calls[t]
  <2>1. calls[u] \in CallRecord BY <1>0, <1>3 DEF LockRecoveryUser
  <2>2. calls'[u].op = calls[u].op /\ \A v \in Tabs \ {u} : calls'[v] = calls[v]
    BY <1>0, <1>3, <2>1 DEF LockRecoveryUser, CallRecord
  <2>3. calls[u].op # "verify" BY <1>3 DEF LockRecoveryUser, AccountChanges
  <2> QED BY <1>1, <2>2, <2>3
<1>4. ASSUME NEW u \in Tabs, EndsCall(u) PROVE calls'[t] = calls[t]
  BY <1>0, <1>1, <1>4, <1>a DEF EndsCall, Done
<1>5. ASSUME NEW u \in Tabs, Opens(u) \/ Refresh(u) PROVE calls'[t] = calls[t]
  BY <1>5, <1>a, OpensAnswer, RefreshAnswers
<1> QED BY <1>2, <1>3, <1>4, <1>5, StepKinds, CallKinds, OutsideCalls

LEMMA VerifiesStep ==
  ASSUME Typed, VerifiesPresentSeed, SessionsStep, [Next]_vars
  PROVE  VerifiesPresentSeed'
<1> SUFFICES ASSUME NEW t \in Tabs, Asked(t, "verify")', account'.mfa,
                    Live(calls[t].session)'
             PROVE  calls'[t].offer.seed = account'.seed
  BY DEF VerifiesPresentSeed
<1>1. CASE calls'[t] = calls[t]
  <2>1. PICK i : i = calls[t].session OBVIOUS
  <2>2. i \in 0..Len(sessions) /\ i \in 1..Len(sessions') /\ sessions'[i].live
    BY <1>1, <2>1 DEF Asked, Typed, CallsOK, CallOK, Live, Ids
  <2>3. i \in Ids BY <2>2, SessionRows DEF Typed, Ids
  <2>4. /\ sessions[i].live /\ account.mfa /\ account'.seed = account.seed
    BY <2>2, <2>3 DEF SessionsStep, Keeps, AccountStands
  <2>5. calls[t].offer.seed = account.seed
    BY <1>1, <2>1, <2>3, <2>4 DEF VerifiesPresentSeed, Asked, Live
  <2> QED BY <1>1, <2>4, <2>5
<1>2. CASE account' = account /\ calls'[t].offer.seed = account.seed BY <1>2
<1> QED BY <1>1, <1>2, VerifySteps

\* While one call holds the row no other commits a change of it.
LEMMA HolderAlone ==
  ASSUME RowLocksHold, NEW t \in Tabs, HoldsLock(t)
  PROVE  ~AccountFree /\ \A u \in Tabs \ {t} : \A op : ~UnderLock(u, op)
<1>1. ~AccountFree BY DEF AccountFree, HoldsLock
<1>2. ASSUME NEW u \in Tabs \ {t}, NEW op, UnderLock(u, op) PROVE FALSE
  <2>1. HoldsLock(u) BY <1>2 DEF UnderLock, Asked, HoldsLock
  <2> QED BY <2>1 DEF RowLocksHold
<1> QED BY <1>1, <1>2

\* The row is as it was, up to the number of flows, and so is the flow that is completed.
RowStands(t) ==
  /\ account' = account \/ account' = [account EXCEPT !.flows = @ + 1]
  /\ clock' \in {clock, clock + 1}
  /\ calls[t].op = "complete" => flow' = flow

LEMMA RowKept ==
  ASSUME Typed, RowLocksHold, NEW t \in Tabs, HoldsLock(t),
         \/ Outside
         \/ \E u \in Tabs \ {t} : Waits(u) \/ Commit(u)
  PROVE  RowStands(t)
<1>1. ~AccountFree /\ \A u \in Tabs \ {t} : \A op : ~UnderLock(u, op) BY HolderAlone
<1>2. calls[t].op = "complete" =>
        /\ UnderLock(t, "complete") /\ flow # NoFlow /\ flow.mode = "verified"
        /\ flow.session = 0
  <2> SUFFICES ASSUME calls[t].op = "complete"
               PROVE  /\ UnderLock(t, "complete") /\ flow # NoFlow /\ flow.mode = "verified"
                      /\ flow.session = 0
    OBVIOUS
  <2>1. UnderLock(t, "complete") BY DEF HoldsLock, UnderLock, Asked
  <2>2. flow # NoFlow /\ flow.mode = "verified" BY DEF RowLocksHold, Verified
  <2> QED BY <2>1, <2>2 DEF Typed, FlowOK
<1>3. ASSUME NEW u \in Tabs \ {t}, Waits(u) PROVE RowStands(t)
  <2>1. UNCHANGED <<account, clock>> BY <1>3, Waiting
  <2>2. CASE ClaimOIDCFlow(u) BY <1>2, <2>1, <2>2 DEF ClaimOIDCFlow, RowStands
  <2>3. CASE ~ClaimOIDCFlow(u)
    <3>1. flow' = flow
      BY <1>3, <2>3 DEF Waits, Begin, BeginLogin, BeginCompletion, BeginAccountChange,
         BeginVerifyMfa, BeginLogout, BeginRefresh, LockRecoveryUser, Refused, Arrives, AnswerLost
    <3> QED BY <2>1, <3>1 DEF RowStands
  <2> QED BY <2>2, <2>3
<1>4. ASSUME NEW u \in Tabs \ {t}, Commit(u) PROVE RowStands(t)
  <2>1. Refresh(u) \/ Logout(u) \/ VerifyOIDCFlow(u)
    BY <1>1, <1>4 DEF Commit, Login, VerifyMfa, ChangePassword, GenerateRecoveryCodes,
       RevokeAccountSession, EnableMFA, DisableMFA, KeepMFA, BeginMFAEnrollment,
       BeginOIDCLink, UnlinkOIDC, LinkOIDC, CompleteOIDCLogin
  <2>2. CASE Refresh(u) BY <2>2 DEF Refresh, RowStands
  <2>3. CASE VerifyOIDCFlow(u) BY <1>2, <2>3 DEF VerifyOIDCFlow, RowStands
  <2>4. CASE Logout(u)
    <3>1. CallOK(calls[u]) BY <2>4, CallRows DEF Logout, Asked, Typed
    <3>2. calls[u].session \in Ids BY <2>4, <3>1 DEF Logout, Asked, CallOK
    <3>3. calls[u].session # 0 BY <3>2, SessionRows DEF Typed
    <3>4. flow' = Cascade({calls[u].session}) /\ UNCHANGED <<account, clock>>
      BY <2>4 DEF Logout
    <3> QED BY <1>2, <3>3, <3>4 DEF Cascade, RowStands
  <2> QED BY <2>1, <2>2, <2>3, <2>4
<1>5. CASE Outside
  <2>1. ~SeedAdministrator /\ \A active : ~SetInstallationUser(active)
    BY <1>1 DEF SeedAdministrator, SetInstallationUser
  <2>2. FlowExpires => calls[t].op # "complete" BY <1>2 DEF FlowExpires
  <2>3. BeginOIDCLogin => calls[t].op # "complete" BY <1>2 DEF BeginOIDCLogin
  <2>4. CASE FlowExpires BY <2>2, <2>4 DEF FlowExpires, RowStands
  <2>5. CASE BeginOIDCLogin BY <2>3, <2>5 DEF BeginOIDCLogin, RowStands
  <2>6. CASE Tick \/ UNCHANGED vars \/ \E i \in Ids : SessionExpires(i)
    BY <2>6 DEF Tick, vars, SessionExpires, RowStands
  <2> QED BY <1>5, <2>1, <2>4, <2>5, <2>6 DEF Outside
<1> QED BY <1>3, <1>4, <1>5

\* What a call that holds the row found when it took it.
Holding(t) ==
  /\ account.active
  /\ calls[t].op # "complete" => account.password = calls[t].password
  /\ calls[t].op = "complete" => account.linked /\ Verified(calls[t].flow)
  /\ CodeAsked(t) => \E step \in 1..MaxClock :
       /\ calls[t].offer = Code(account.seed, step)
       /\ account.step <= step /\ step <= clock

LEMMA HoldingKept ==
  ASSUME Typed, NEW t \in Tabs, Holding(t), RowStands(t), calls'[t] = calls[t]
  PROVE  Holding(t)'
<1>0. /\ account \in Account /\ clock \in 1..MaxClock /\ clock \in Nat
      /\ account.step \in Nat
  BY Bounds DEF Typed, AccountOK, Account
<1>1. /\ account'.active = account.active /\ account'.password = account.password
      /\ account'.linked = account.linked /\ account'.seed = account.seed
      /\ account'.step = account.step /\ account'.mfa = account.mfa
  BY <1>0 DEF RowStands, Account
<1>2. calls[t].op = "complete" => flow' = flow BY DEF RowStands
<1>3. CodeAsked(t)' <=> CodeAsked(t) BY <1>1 DEF CodeAsked
<1>4. ASSUME CodeAsked(t)
      PROVE  \E step \in 1..MaxClock :
               /\ calls'[t].offer = Code(account.seed, step)'
               /\ account'.step <= step /\ step <= clock'
  <2>1. PICK step \in 1..MaxClock :
          calls[t].offer = Code(account.seed, step) /\ account.step <= step /\ step <= clock
    BY <1>4 DEF Holding
  <2>2. step <= clock' BY <1>0, <2>1 DEF RowStands
  <2>3. Code(account.seed, step)' = Code(account.seed, step) BY <1>1 DEF Code
  <2> QED BY <1>1, <2>1, <2>2, <2>3
<1>5. calls[t].op = "complete" => account'.linked /\ Verified(calls[t].flow)'
  BY <1>1, <1>2 DEF Holding, Verified
<1> QED BY <1>1, <1>3, <1>4, <1>5 DEF Holding

\* The row is locked by a call that finds it as it wants it.
LEMMA LockTaken ==
  ASSUME Typed, NEW t \in Tabs, LockRecoveryUser(t)
  PROVE  Holding(t)' /\ calls[t] # NoCall /\ \A u \in Tabs \ {t} : calls'[u] = calls[u]
<1>0. /\ calls \in [Tabs -> CallRecord \cup {NoCall}] /\ account.step <= clock
      /\ clock \in 1..MaxClock
  BY DEF Typed, CallsOK, AccountOK
<1>1. /\ calls[t] # NoCall /\ calls[t] \in CallRecord /\ Locked(t) /\ CodeChecked(t)
      /\ calls[t].op = "complete" => StillVerified(t)
      /\ calls' = [calls EXCEPT ![t].locked = TRUE]
      /\ UNCHANGED <<account, flow, clock>>
  BY <1>0 DEF LockRecoveryUser
<1>2. /\ calls'[t].op = calls[t].op /\ calls'[t].offer = calls[t].offer
      /\ calls'[t].password = calls[t].password /\ calls'[t].flow = calls[t].flow
      /\ \A u \in Tabs \ {t} : calls'[u] = calls[u]
  BY <1>0, <1>1 DEF CallRecord
<1>3. CodeAsked(t)' => calls[t].offer = Code(account.seed, clock)
  BY <1>1, <1>2 DEF CodeAsked, CodeChecked
<1>4. Code(account.seed, clock)' = Code(account.seed, clock) BY <1>1
<1>5. CodeAsked(t)' => \E step \in 1..MaxClock :
        /\ calls'[t].offer = Code(account.seed, step)'
        /\ account'.step <= step /\ step <= clock'
  <2> SUFFICES ASSUME CodeAsked(t)'
               PROVE  \E step \in 1..MaxClock :
                        /\ calls'[t].offer = Code(account.seed, step)'
                        /\ account'.step <= step /\ step <= clock'
    OBVIOUS
  <2>1. PICK step \in 1..MaxClock : step = clock BY <1>0
  <2>2. Code(account.seed, step)' = Code(account.seed, clock) BY <1>1, <2>1 DEF Code
  <2>3. step <= clock' /\ account'.step <= step BY <1>0, <1>1, <2>1, Bounds
  <2> QED BY <1>2, <1>3, <2>2, <2>3
<1>6. Holding(t)'
  BY <1>1, <1>2, <1>5 DEF Holding, Locked, StillVerified, Verified
<1> QED BY <1>1, <1>2, <1>6

LEMMA LocksStep ==
  ASSUME Typed, RowLocksHold, SessionsStep, [Next]_vars
  PROVE  RowLocksHold'
<1>0. calls \in [Tabs -> CallRecord \cup {NoCall}] BY DEF Typed, CallsOK
\* A call that holds the row after the step held it before, or has just taken it.
<1>1. ASSUME NEW t \in Tabs, HoldsLock(t)'
      PROVE  \/ LockRecoveryUser(t)
             \/ /\ HoldsLock(t) /\ calls'[t] = calls[t]
                /\ Outside \/ \E u \in Tabs \ {t} : Waits(u) \/ Commit(u)
  <2>a. ASSUME NEW u \in Tabs, NEW cookie, Answer(u, cookie)
        PROVE  u # t /\ calls'[t] = calls[t]
    BY <1>0, <1>1, <2>a DEF Answer, HoldsLock
  <2>1. CASE Outside BY <1>1, <2>1, OutsideCalls DEF HoldsLock
  <2>2. ASSUME NEW u \in Tabs, Waits(u) \/ Commit(u), u # t \/ ~LockRecoveryUser(u)
        PROVE  u # t /\ calls'[t] = calls[t]
    <3>1. ASSUME NEW c, Begins(u, c) PROVE u # t /\ calls'[t] = calls[t]
      BY <1>0, <1>1, <3>1 DEF Begins, HoldsLock
    <3>2. CASE LockRecoveryUser(u) BY <2>2, <3>2, LockTaken
    <3>3. CASE EndsCall(u) BY <1>0, <1>1, <2>a, <3>3 DEF EndsCall, Done, HoldsLock
    <3>4. CASE Opens(u) \/ Refresh(u) BY <2>a, <3>4, OpensAnswer, RefreshAnswers
    <3> QED BY <2>2, <3>1, <3>2, <3>3, <3>4, CallKinds
  <2> QED BY <1>1, <2>1, <2>2, StepKinds DEF HoldsLock
<1>2. ASSUME NEW t \in Tabs, HoldsLock(t)' PROVE Holding(t)'
  <2>1. CASE LockRecoveryUser(t) BY <2>1, LockTaken
  <2>2. CASE ~LockRecoveryUser(t)
    <3>1. HoldsLock(t) /\ calls'[t] = calls[t] /\ RowStands(t)
      BY <1>1, <1>2, <2>2, RowKept
    <3>2. Holding(t) BY <3>1 DEF RowLocksHold, Holding
    <3> QED BY <3>1, <3>2, HoldingKept
  <2> QED BY <2>1, <2>2
<1>3. ASSUME NEW t \in Tabs, NEW u \in Tabs, HoldsLock(t)', HoldsLock(u)', t # u PROVE FALSE
  <2>1. \A v \in Tabs : LockRecoveryUser(v) =>
          /\ \A w \in Tabs : ~HoldsLock(w)
          /\ \A w \in Tabs \ {v} : calls'[w] = calls[w]
    BY LockTaken DEF LockRecoveryUser, AccountFree, HoldsLock
  <2>2. HoldsLock(t) /\ HoldsLock(u) BY <1>1, <1>3, <2>1 DEF HoldsLock
  <2> QED BY <1>3, <2>2 DEF RowLocksHold
<1> QED BY <1>2, <1>3 DEF RowLocksHold, Holding

\* What every step keeps: types, locks, and the seed under verification.
SoundCalls == Typed /\ RowLocksHold /\ VerifiesPresentSeed

LEMMA SoundStep ==
  ASSUME SoundCalls, [Next]_vars
  PROVE  SoundCalls' /\ SessionsStep
<1>0. Typed /\ RowLocksHold /\ VerifiesPresentSeed BY DEF SoundCalls
<1>1. SessionsStep BY <1>0, SessionsSteps
<1>2. AccountOK' BY <1>0, AccountTypes
<1>3. CallsOK' BY <1>0, <1>1, CallsTypes
<1>4. FlowOK' BY <1>0, <1>1, <1>2, FlowTypes
<1>5. BrowserOK' BY <1>0, <1>1, BrowserTypes
<1>6. VerifiesPresentSeed' BY <1>0, <1>1, VerifiesStep
<1>7. SessionsOK' BY <1>1 DEF SessionsStep
<1>8. RowLocksHold' BY <1>0, <1>1, LocksStep
<1> QED BY <1>1, <1>2, <1>3, <1>4, <1>5, <1>6, <1>7, <1>8 DEF Typed, SoundCalls

LEMMA InitSound == Init => SoundCalls
<1> SUFFICES ASSUME Init PROVE SoundCalls OBVIOUS
<1>1. \A t \in Tabs : calls[t] = NoCall BY DEF Init
<1> QED BY <1>1, InitTyped DEF SoundCalls, RowLocksHold, HoldsLock, VerifiesPresentSeed, Asked

\* The rows, the calls and the cookies keep their types, whatever people, administrators
\* and the clock do.
THEOREM TypeCorrect == Spec => []TypeOK
<1>1. Init => SoundCalls BY InitSound
<1>2. SoundCalls /\ [Next]_vars => SoundCalls' BY SoundStep
<1>3. SoundCalls => TypeOK BY TypedIsTypeOK DEF SoundCalls
<1> QED BY <1>1, <1>2, <1>3, PTL DEF Spec

-----------------------------------------------------------------------------
(* What an open session stands for.                                        *)

\* Whatever opened a session is spent.
AllSpent == \A i \in Ids : \A p \in sessions[i].proof : Spent(p, sessions[i].spent)

SessionsIInv ==
  /\ SoundCalls
  /\ AllSpent /\ ProofsAreSpent /\ RecoveryStandsAlone
  /\ OpenedUnderPresentCredentials /\ SecondFactorStands

LEMMA InitSessionsIInv == Init => SessionsIInv
<1> SUFFICES ASSUME Init PROVE SessionsIInv OBVIOUS
<1>0. SoundCalls BY InitSound
<1>1. /\ Ids = {1} /\ sessions[1].live = TRUE /\ sessions[1].password = 0
      /\ sessions[1].confirmed = 1 /\ sessions[1].proof = {Code(1, 1)}
      /\ sessions[1].spent = 1
  BY DEF Init, Ids, Opened
<1>2. /\ account.active /\ account.password = 0 /\ account.seed = 1 /\ account.seeds = 1
      /\ account.step = 1
  BY DEF Init
<1>3. AllSpent
  <2>1. ASSUME NEW p, p = Code(1, 1) PROVE Spent(p, 1)
    <3>1. p.kind = "code" /\ p.seed = 1 /\ p.step = 1 BY <2>1 DEF Code
    <3> QED BY <1>2, <3>1 DEF Spent
  <2> QED BY <1>1, <2>1 DEF AllSpent
<1>4. Kinds(1) = {"code"} BY <1>1 DEF Kinds, Code
<1>5. ProofsAreSpent BY <1>1 DEF ProofsAreSpent
<1>6. RecoveryStandsAlone BY <1>1 DEF RecoveryStandsAlone
<1>7. OpenedUnderPresentCredentials BY <1>1, <1>2, <1>4 DEF OpenedUnderPresentCredentials
<1>8. SecondFactorStands BY <1>1, <1>2, <1>4 DEF SecondFactorStands
<1> QED BY <1>0, <1>3, <1>5, <1>6, <1>7, <1>8 DEF SessionsIInv

\* After a step, a session is one that was there or the new one.
LEMMA EarlierOrNew ==
  ASSUME Typed, SessionsStep, NEW i \in Ids'
  PROVE  \/ i \in Ids /\ Keeps(i) /\ Kinds(i)' = Kinds(i)
         \/ /\ i = Len(sessions) + 1 /\ i \notin Ids
            /\ OpensWell(sessions'[i])
<1>1. Len(sessions) \in Nat /\ Len(sessions') \in Nat
  BY Bounds DEF Typed, SessionsOK, SessionsStep
<1>2. CASE i \in Ids
  <2>1. Keeps(i) BY <1>2 DEF SessionsStep
  <2> QED BY <1>2, <2>1 DEF Keeps, Kinds
<1>3. CASE i \notin Ids BY <1>1, <1>3 DEF SessionsStep, Ids
<1> QED BY <1>2, <1>3

LEMMA AllSpentStep ==
  ASSUME Typed, AllSpent, AccountOK', SessionsStep, [Next]_vars
  PROVE  AllSpent'
<1> SUFFICES ASSUME NEW i \in Ids', NEW p \in sessions'[i].proof, NEW n, n = sessions'[i].spent
             PROVE  Spent(p, n)'
  BY DEF AllSpent
<1>1. CASE i \in Ids /\ Keeps(i)
  <2>1. p \in sessions[i].proof /\ n = sessions[i].spent BY <1>1 DEF Keeps
  <2>2. p \in Proofs /\ n \in Nat
    BY <1>1, <2>1, SessionRows, Bounds DEF Typed, Session
  <2> QED BY <1>1, <2>1, <2>2, SpentStays DEF AllSpent
<1>2. CASE OpensWell(sessions'[i]) BY <1>2 DEF OpensWell
<1> QED BY <1>1, <1>2, EarlierOrNew

\* A proof of an earlier session opens another only if it is a code of the present seed,
\* consumed in its own step, with nothing newer consumed since.
LEMMA ProofsAreSpentStep ==
  ASSUME Typed, AllSpent, ProofsAreSpent, SessionsStep
  PROVE  ProofsAreSpent'
<1> SUFFICES ASSUME NEW i \in Ids', NEW j \in Ids', i < j,
                    NEW p \in sessions'[i].proof, p \in sessions'[j].proof
             PROVE  /\ p.kind = "code" /\ sessions'[i].spent = p.step
                    /\ p.step < sessions'[j].spent
  BY DEF ProofsAreSpent
<1>0. /\ Len(sessions) \in Nat /\ Len(sessions') \in Nat /\ Ids = 1..Len(sessions)
      /\ account.step \in Nat
  BY Bounds DEF Typed, SessionsOK, SessionsStep, AccountOK, Account, Ids
<1>1. i \in Ids BY <1>0 DEF SessionsStep, Ids
<1>2. /\ p \in sessions[i].proof /\ sessions'[i].spent = sessions[i].spent
      /\ Spent(p, sessions[i].spent) /\ p \in Proofs /\ sessions[i].spent \in Nat
  <2>1. p \in sessions[i].proof /\ sessions'[i].spent = sessions[i].spent
    BY <1>1 DEF SessionsStep, Keeps
  <2> QED BY <1>1, <2>1, SessionRows, Bounds DEF AllSpent, Typed, Session
<1>3. CASE j \in Ids
  <2>1. p \in sessions[j].proof /\ sessions'[j].spent = sessions[j].spent
    BY <1>3 DEF SessionsStep, Keeps
  <2> QED BY <1>1, <1>2, <1>3, <2>1 DEF ProofsAreSpent
<1>4. CASE OpensWell(sessions'[j])
  <2>1. p.kind = "code" BY <1>2, <1>4 DEF OpensWell
  <2>2. /\ p.seed = account.seed /\ account.step <= p.step
        /\ account.step < sessions'[j].spent
    BY <1>4, <2>1 DEF OpensWell
  <2>3. p.step <= sessions[i].spent /\ sessions[i].spent <= account.step
    BY <1>2, <2>1, <2>2 DEF Spent
  <2>4. p.step \in Nat
    <3>1. p \in [kind : {"code"}, seed : 1..MaxSeed, step : 1..MaxClock]
      BY <1>2, <2>1 DEF Proofs, NoProof
    <3> QED BY <3>1, Bounds
  <2>5. p.step = account.step /\ sessions[i].spent = p.step BY <1>0, <1>2, <2>2, <2>3, <2>4
  <2> QED BY <1>2, <2>1, <2>2, <2>5
<1> QED BY <1>3, <1>4, EarlierOrNew

LEMMA StandsAloneStep ==
  ASSUME Typed, RecoveryStandsAlone, SessionsStep
  PROVE  RecoveryStandsAlone'
<1> SUFFICES ASSUME NEW i \in Ids', NEW j \in Ids', i < j, "recovery" \in Kinds(j)'
             PROVE  ~sessions'[i].live
  BY DEF RecoveryStandsAlone, Live
<1>0. Len(sessions) \in Nat /\ Len(sessions') \in Nat
  BY Bounds DEF Typed, SessionsOK, SessionsStep
<1>1. i \in Ids
  BY <1>0 DEF SessionsStep, Ids
<1>2. CASE j \in Ids /\ Kinds(j)' = Kinds(j)
  <2>1. ~sessions[i].live BY <1>1, <1>2 DEF RecoveryStandsAlone, Live
  <2> QED BY <1>1, <2>1 DEF SessionsStep, Keeps
<1>3. CASE OpensWell(sessions'[j])
  <2>1. \E p \in sessions'[j].proof : p.kind = "recovery" BY DEF Kinds
  <2> QED BY <1>1, <1>3, <2>1 DEF OpensWell
<1> QED BY <1>2, <1>3, EarlierOrNew

LEMMA CredentialsStep ==
  ASSUME Typed, OpenedUnderPresentCredentials, SessionsStep
  PROVE  OpenedUnderPresentCredentials'
<1> SUFFICES ASSUME NEW i \in Ids', Live(i)'
             PROVE  /\ account'.active
                    /\ sessions'[i].password = account'.password
                    /\ "flow" \in Kinds(i)' => account'.linked
  BY DEF OpenedUnderPresentCredentials
<1>0. sessions'[i].live BY DEF Live
<1>1. CASE i \in Ids /\ Keeps(i) /\ Kinds(i)' = Kinds(i)
  <2>1. Live(i) /\ AccountStands /\ sessions'[i].password = sessions[i].password
    BY <1>0, <1>1 DEF Keeps, Live
  <2> QED BY <1>1, <2>1 DEF OpenedUnderPresentCredentials, AccountStands
<1>2. CASE OpensWell(sessions'[i])
  <2>1. "flow" \in Kinds(i)' => \E p \in sessions'[i].proof : p.kind = "flow" BY DEF Kinds
  <2> QED BY <1>2, <2>1 DEF OpensWell
<1> QED BY <1>1, <1>2, EarlierOrNew

LEMMA SecondFactorStep ==
  ASSUME Typed, SecondFactorStands, SessionsStep
  PROVE  SecondFactorStands'
<1> SUFFICES ASSUME account'.mfa, NEW i \in Ids', Live(i)'
             PROVE  /\ Kinds(i)' \cap {"code", "recovery"} # {}
                    /\ sessions'[i].confirmed \in {0, account'.seed}
  BY DEF SecondFactorStands
<1>0. sessions'[i].live BY DEF Live
<1>1. CASE i \in Ids /\ Keeps(i) /\ Kinds(i)' = Kinds(i)
  <2>1. /\ Live(i) /\ AccountStands
        /\ sessions'[i].confirmed \in {sessions[i].confirmed, account.seed}
    BY <1>0, <1>1 DEF Keeps, Live
  <2>2. account.mfa /\ account'.seed = account.seed BY <2>1 DEF AccountStands
  <2> QED BY <1>1, <2>1, <2>2 DEF SecondFactorStands
<1>2. CASE OpensWell(sessions'[i])
  <2>1. /\ \E p \in sessions'[i].proof : p.kind \in {"code", "recovery"}
        /\ sessions'[i].confirmed \in {0, account'.seed}
    BY <1>2 DEF OpensWell
  <2> QED BY <2>1 DEF Kinds
<1> QED BY <1>1, <1>2, EarlierOrNew

LEMMA SessionsIInvStep ==
  ASSUME SessionsIInv, [Next]_vars
  PROVE  SessionsIInv'
<1>0. /\ SoundCalls /\ Typed /\ AllSpent /\ ProofsAreSpent /\ RecoveryStandsAlone
      /\ OpenedUnderPresentCredentials /\ SecondFactorStands
  BY DEF SessionsIInv, SoundCalls
<1>1. SoundCalls' /\ SessionsStep /\ AccountOK'
  <2>1. SoundCalls' /\ SessionsStep BY <1>0, SoundStep
  <2> QED BY <2>1 DEF SoundCalls, Typed
<1> QED
  BY <1>0, <1>1, AllSpentStep, ProofsAreSpentStep, StandsAloneStep, CredentialsStep,
     SecondFactorStep DEF SessionsIInv

LEMMA SessionsIInvHolds == Spec => []SessionsIInv
<1>1. Init => SessionsIInv BY InitSessionsIInv
<1>2. SessionsIInv /\ [Next]_vars => SessionsIInv'
  <2>1. ASSUME SessionsIInv, UNCHANGED vars PROVE SessionsIInv' BY <2>1, SessionsIInvStep
  <2> QED BY <2>1, SessionsIInvStep
<1> QED BY <1>1, <1>2, PTL DEF Spec

\* A recovery code or an identity flow opens one session, of all that were ever opened, and a
\* code two at most: the second only if the first consumed it in its own step, nothing newer
\* has been consumed since, and the clock has gone on between the check and the consumption.
\* And signing in with a recovery code leaves no earlier session behind.
THEOREM SessionsHold == Spec => []SessionsInv
<1>1. SessionsIInv => SessionsInv BY TypedIsTypeOK DEF SessionsIInv, SessionsInv, SoundCalls
<1> QED BY <1>1, SessionsIInvHolds, PTL

\* An open session was opened under the credentials the account has now: every call that
\* replaces one deletes the sessions in the same transaction.
THEOREM PresentCredentials == Spec => []OpenedUnderPresentCredentials
<1>1. SessionsIInv => OpenedUnderPresentCredentials BY DEF SessionsIInv
<1> QED BY <1>1, SessionsIInvHolds, PTL

\* No open session of an account that asks for codes did without one, and none counts as
\* confirmed by an authenticator that has been replaced, though VerifyMfa compares the code
\* before its transaction: a seed is replaced only while MFA is off.
THEOREM SecondFactor == Spec => []SecondFactorStands
<1>1. SessionsIInv => SecondFactorStands BY DEF SessionsIInv
<1> QED BY <1>1, SessionsIInvHolds, PTL

\* MFA that is on has the seed that was proved when it was turned on: EnableMFA compares the
\* code under the lock with the seed that is stored then, whatever other tabs have enrolled
\* since the call began, and nobody replaces a seed while MFA is on.
THEOREM SeedProved == Spec => []EnabledSeedIsHeld
<1> DEFINE Inv == SoundCalls /\ EnabledSeedIsHeld
<1>1. Init => Inv
  <2>1. Init => account.proved = account.seed BY DEF Init
  <2> QED BY <2>1, InitSound DEF EnabledSeedIsHeld
<1>2. Inv /\ [Next]_vars => Inv'
  <2> SUFFICES ASSUME Inv, [Next]_vars PROVE EnabledSeedIsHeld' BY SoundStep
  <2>0. account \in Account /\ RowLocksHold BY DEF SoundCalls, Typed, AccountOK
  <2>u. /\ Used \in Account /\ Used.mfa = account.mfa /\ Used.seed = account.seed
        /\ Used.proved = account.proved
    BY <2>0, Bounds DEF Used, Account, SoundCalls, Typed, AccountOK
  <2>k. /\ account'.mfa => account.mfa
        /\ account'.seed = account.seed /\ account'.proved = account.proved
        => EnabledSeedIsHeld'
    BY DEF EnabledSeedIsHeld
  <2>1. ASSUME NEW t \in Tabs, EnableMFA(t) PROVE EnabledSeedIsHeld'
    <3>1. calls[t].offer.seed = account.seed BY <2>0, <2>1, EnabledWith
    <3> QED BY <2>0, <2>1, <3>1 DEF EnableMFA, EnabledSeedIsHeld, Account
  <2>2. ASSUME NEW t \in Tabs, BeginMFAEnrollment(t) PROVE EnabledSeedIsHeld'
    BY <2>0, <2>2 DEF BeginMFAEnrollment, EnabledSeedIsHeld, Account
  <2>3. ASSUME NEW t \in Tabs,
               \/ ChangePassword(t) \/ DisableMFA(t) \/ KeepMFA(t) \/ RevokeAccountSession(t)
               \/ UnlinkOIDC(t) \/ GenerateRecoveryCodes(t) \/ BeginOIDCLink(t)
               \/ CompleteOIDCLogin(t)
        PROVE  EnabledSeedIsHeld'
    BY <2>u, <2>3, <2>k DEF ChangePassword, DisableMFA, KeepMFA, RevokeAccountSession,
       UnlinkOIDC, GenerateRecoveryCodes, BeginOIDCLink, CompleteOIDCLogin, Account
  <2>4. ASSUME NEW t \in Tabs, Login(t) \/ VerifyMfa(t) \/ LinkOIDC(t)
        PROVE  EnabledSeedIsHeld'
    BY <2>0, <2>4, <2>k DEF Login, VerifyMfa, LinkOIDC, Account
  <2>5. ASSUME NEW t \in Tabs, Waits(t) \/ Refresh(t) \/ VerifyOIDCFlow(t) \/ Logout(t)
        PROVE  EnabledSeedIsHeld'
    BY <2>5, <2>k, Waiting DEF Refresh, VerifyOIDCFlow, Logout
  <2>6. CASE Outside
    BY <2>0, <2>6, <2>k DEF Outside, SessionExpires, BeginOIDCLogin, FlowExpires,
       SetInstallationUser, SeedAdministrator, Tick, vars, Account
  <2> QED BY <2>1, <2>2, <2>3, <2>4, <2>5, <2>6, StepKinds DEF Commit
<1>3. Inv => EnabledSeedIsHeld OBVIOUS
<1> QED BY <1>1, <1>2, <1>3, PTL DEF Spec

-----------------------------------------------------------------------------
(* The browser's refresh token.                                            *)

\* An answer that tells the browser of a session.
Tells(t, c) == Asked(t, "answer") /\ calls[t].cookie = c /\ c # <<>>

\* A token a refresh is asked with, or would be.
AsksWith(c) ==
  c # <<>> /\ (c = jar \/ \E t \in Tabs : Asked(t, "refresh") /\ calls[t].cookie = c)

\* The answer under way for an open session is one, and carries its token.
Fresh ==
  \A t \in Tabs : \A c : Tells(t, c) /\ Live(c[1]) =>
    /\ c[2] = sessions[c[1]].token
    /\ \A u \in Tabs : \A d : Tells(u, d) /\ d[1] = c[1] => u = t

\* Nobody asks with a token that is not issued yet, and while a newer one is on its way to
\* the browser every token it can ask with is old.
Behind ==
  \A c : AsksWith(c) /\ Live(c[1]) =>
    /\ c[2] <= sessions[c[1]].token
    /\ c[1] \in UnderWay => c[2] < sessions[c[1]].token

RefreshInv == Fresh /\ Behind /\ BrowserKeepsUp

\* Open sessions keep their tokens, the same answers are under way, and nobody asks with a
\* token he could not ask with before.
TokensKept == \A i \in Ids : sessions'[i].live => sessions'[i].token = sessions[i].token
AnswersKept == \A t \in Tabs : \A c : Tells(t, c)' <=> Tells(t, c)
RequestsKept == \A c : AsksWith(c)' => AsksWith(c)

LEMMA OnTheWay ==
  ASSUME NEW i
  PROVE  i \in UnderWay <=> \E t \in Tabs : \E c : Tells(t, c) /\ c[1] = i
<1>1. i \in UnderWay <=> \E t \in Tabs : Asked(t, "answer") /\ i \in Names(calls[t].cookie)
  BY DEF UnderWay
<1>2. ASSUME NEW t \in Tabs, Asked(t, "answer"), i \in Names(calls[t].cookie)
      PROVE  \E u \in Tabs : \E c : Tells(u, c) /\ c[1] = i
  <2>1. calls[t].cookie # <<>> /\ calls[t].cookie[1] = i BY <1>2 DEF Names
  <2>2. Tells(t, calls[t].cookie) BY <1>2, <2>1 DEF Tells
  <2> QED BY <2>1, <2>2
<1>3. ASSUME NEW t \in Tabs, NEW c, Tells(t, c), c[1] = i
      PROVE  Asked(t, "answer") /\ i \in Names(calls[t].cookie)
  BY <1>3 DEF Tells, Names
<1> QED BY <1>1, <1>2, <1>3

LEMMA OnTheWayNext ==
  ASSUME NEW i
  PROVE  i \in UnderWay' <=> \E t \in Tabs : \E c : Tells(t, c)' /\ c[1] = i
<1>1. i \in UnderWay' <=> \E t \in Tabs : Asked(t, "answer")' /\ i \in Names(calls'[t].cookie)
  BY DEF UnderWay, Names
<1>2. ASSUME NEW t \in Tabs, Asked(t, "answer")', i \in Names(calls'[t].cookie)
      PROVE  \E u \in Tabs : \E c : Tells(u, c)' /\ c[1] = i
  <2>1. calls'[t].cookie # <<>> /\ calls'[t].cookie[1] = i BY <1>2 DEF Names
  <2>2. \A c : c = calls'[t].cookie => Tells(t, c)' BY <1>2, <2>1 DEF Tells
  <2> QED BY <2>1, <2>2
<1>3. ASSUME NEW t \in Tabs, NEW c, Tells(t, c)', c[1] = i
      PROVE  Asked(t, "answer")' /\ i \in Names(calls'[t].cookie)
  BY <1>3 DEF Tells, Names
<1> QED BY <1>1, <1>2, <1>3

LEMMA InitRefresh == Init => RefreshInv
<1> SUFFICES ASSUME Init PROVE RefreshInv OBVIOUS
<1>1. /\ \A t \in Tabs : calls[t] = NoCall
      /\ jar = <<1, 0>> /\ astray = {} /\ Ids = {1} /\ sessions[1].token = 0
  BY DEF Init, Ids, Opened
<1>2. \A t \in Tabs : \A c : ~Tells(t, c) BY <1>1 DEF Tells, Asked
<1>3. UnderWay = {} BY <1>2, OnTheWay
<1>4. Fresh BY <1>2 DEF Fresh
<1>5. Behind
  <2>1. \A c : AsksWith(c) => c = jar BY <1>1 DEF AsksWith, Asked
  <2>2. jar[1] = 1 /\ jar[2] = 0 BY <1>1
  <2> QED BY <1>1, <1>3, <2>1, <2>2 DEF Behind
<1>6. BrowserKeepsUp BY <1>1 DEF BrowserKeepsUp
<1> QED BY <1>4, <1>5, <1>6 DEF RefreshInv

\* The tokens of open sessions change by Refresh alone.
LEMMA TokenSteps ==
  ASSUME Typed, [Next]_vars, ~ \E t \in Tabs : Refresh(t)
  PROVE  TokensKept
<1>0. SessionsOK /\ sessions \in [1..Len(sessions) -> Session] /\ Ids = 1..Len(sessions)
      /\ sessions \in Seq(Session)
  BY SessionRows DEF Typed, SessionsOK
<1>s. sessions' = sessions => TokensKept BY DEF TokensKept
<1>d. ASSUME NEW ids, sessions' = Delete(ids) PROVE TokensKept
  <2>1. ASSUME NEW i \in Ids, sessions'[i].live PROVE sessions'[i] = sessions[i]
    BY <1>0, <1>d, <2>1, Deleted
  <2> QED BY <2>1 DEF TokensKept
<1>a. ASSUME NEW new, sessions' = Append(sessions, new) \/ sessions' = Append(Delete(Ids), new)
      PROVE  TokensKept
  <2> DEFINE S == Session \cup {new}
  <2>1. /\ sessions \in Seq(S) /\ Delete(Ids) \in Seq(S) /\ new \in S
        /\ Len(Delete(Ids)) = Len(sessions)
    <3>1. Delete(Ids) \in Seq(Session) /\ Len(Delete(Ids)) = Len(sessions) BY <1>0, Deleted
    <3> QED BY <1>0, <3>1
  <2> HIDE DEF S
  <2>2. ASSUME NEW i \in Ids PROVE sessions'[i] = sessions[i] \/ sessions'[i] = Delete(Ids)[i]
    <3>1. CASE sessions' = Append(sessions, new)
      <4>1. Append(sessions, new)[i] = sessions[i] BY <1>0, <2>1, AppendProperties
      <4> QED BY <3>1, <4>1
    <3>2. CASE sessions' = Append(Delete(Ids), new)
      <4>1. Append(Delete(Ids), new)[i] = Delete(Ids)[i] BY <1>0, <2>1, AppendProperties
      <4> QED BY <3>2, <4>1
    <3> QED BY <1>a, <3>1, <3>2
  <2>3. \A i \in Ids : ~Delete(Ids)[i].live BY <1>0, Deleted
  <2> QED BY <2>2, <2>3 DEF TokensKept
<1>c. ASSUME NEW i \in Ids, NEW n, sessions' = [sessions EXCEPT ![i].confirmed = n]
      PROVE  TokensKept
  BY <1>0, <1>c DEF TokensKept, Session
<1>1. ASSUME NEW t \in Tabs, Opens(t) PROVE TokensKept
  <2>1. \E new : sessions' = Append(sessions, new) \/ sessions' = Append(Delete(Ids), new)
    BY <1>1 DEF Opens, Login, CompleteOIDCLogin
  <2> QED BY <1>a, <2>1
<1>2. ASSUME NEW t \in Tabs, VerifyMfa(t) \/ GenerateRecoveryCodes(t) PROVE TokensKept
  <2>1. \/ sessions' = sessions
        \/ \E i \in Ids : \E n : sessions' = [sessions EXCEPT ![i].confirmed = n]
    BY <1>2 DEF VerifyMfa, GenerateRecoveryCodes, Live
  <2> QED BY <1>c, <1>s, <2>1
<1>3. ASSUME NEW t \in Tabs,
             \/ Waits(t) \/ KeepMFA(t) \/ BeginMFAEnrollment(t) \/ BeginOIDCLink(t)
             \/ VerifyOIDCFlow(t) \/ LinkOIDC(t)
      PROVE  TokensKept
  BY <1>3, <1>s, Waiting DEF KeepMFA, BeginMFAEnrollment, BeginOIDCLink, VerifyOIDCFlow,
                             LinkOIDC
<1>4. ASSUME NEW t \in Tabs, SignsOut(t) \/ RevokeAccountSession(t) \/ Logout(t)
      PROVE  TokensKept
  BY <1>4, <1>d, SigningOut DEF RevokeAccountSession, Logout
<1>5. ASSUME Outside PROVE TokensKept
  BY <1>5, <1>d, <1>s DEF Outside, SessionExpires, BeginOIDCLogin, FlowExpires,
              SetInstallationUser, SeedAdministrator, DeleteUserSessions, Tick, vars
<1> QED BY <1>1, <1>2, <1>3, <1>4, <1>5, StepKinds DEF Commit, Opens, SignsOut

\* Only an answer that arrives or is lost ends one that was under way.
LEMMA Unanswered ==
  ASSUME NEW t \in Tabs, Waits(t) \/ Commit(t), ~Arrives(t), ~AnswerLost(t)
  PROVE  ~Asked(t, "answer")
<1>1. CASE Waits(t)
  BY <1>1 DEF Waits, Begin, BeginLogin, BeginCompletion, BeginAccountChange, BeginVerifyMfa,
       BeginLogout, BeginRefresh, ClaimOIDCFlow, LockRecoveryUser, Refused, Idle, Asked,
       AccountChanges
<1>2. CASE Commit(t)
  BY <1>2 DEF Commit, Login, Refresh, VerifyMfa, Logout, ChangePassword,
       GenerateRecoveryCodes, RevokeAccountSession, EnableMFA, DisableMFA, KeepMFA,
       BeginMFAEnrollment, BeginOIDCLink, UnlinkOIDC, VerifyOIDCFlow, LinkOIDC,
       CompleteOIDCLogin, Callback, UnderLock, Asked
<1> QED BY <1>1, <1>2

\* The steps that send an answer, or end one.
Answers(t) == Opens(t) \/ Refresh(t) \/ Arrives(t) \/ AnswerLost(t)

LEMMA CallSteps ==
  ASSUME Typed, SessionsStep, [Next]_vars, ~ \E t \in Tabs : Answers(t)
  PROVE  AnswersKept /\ RequestsKept
<1>0. calls \in [Tabs -> CallRecord \cup {NoCall}] BY DEF Typed, CallsOK
<1>j. UNCHANGED jar BY BrowserSteps DEF Answers
<1>r. ASSUME NEW t \in Tabs, ~Asked(t, "answer"),
             \A u \in Tabs \ {t} : calls'[u] = calls[u],
             \/ calls'[t] = NoCall
             \/ calls'[t].op # "answer" /\ calls'[t].cookie \in {jar, <<>>}
             \/ calls'[t].op \notin {"answer", "refresh"}
             \/ calls'[t].op = "answer" /\ calls'[t].cookie = <<>>
      PROVE  AnswersKept /\ RequestsKept
  <2>1. AnswersKept BY <1>r DEF AnswersKept, Tells, Asked
  <2>2. RequestsKept BY <1>j, <1>r DEF RequestsKept, AsksWith, Asked
  <2> QED BY <2>1, <2>2
<1>1. ASSUME NEW t \in Tabs, NEW c, Begins(t, c) PROVE AnswersKept /\ RequestsKept
  <2>1. calls'[t] = c /\ \A u \in Tabs \ {t} : calls'[u] = calls[u]
    BY <1>0, <1>1 DEF Begins
  <2>2. ~Asked(t, "answer") /\ c.op # "answer" /\ c.cookie \in {jar, <<>>}
    BY <1>1 DEF Begins, Asked
  <2> QED BY <1>r, <2>1, <2>2
<1>2. ASSUME NEW t \in Tabs, LockRecoveryUser(t) PROVE AnswersKept /\ RequestsKept
  <2>1. calls[t] \in CallRecord BY <1>0, <1>2 DEF LockRecoveryUser
  <2>2. calls'[t].op = calls[t].op /\ calls[t].op \notin {"answer", "refresh"}
        /\ \A u \in Tabs \ {t} : calls'[u] = calls[u]
    BY <1>0, <1>2, <2>1 DEF LockRecoveryUser, CallRecord, AccountChanges
  <2> QED BY <1>r, <2>2 DEF Asked
<1>3. ASSUME NEW t \in Tabs, Waits(t) \/ Commit(t), EndsCall(t) PROVE AnswersKept /\ RequestsKept
  <2>1. ~Asked(t, "answer") BY <1>3, Unanswered DEF Answers
  <2>2. CASE Done(t)
    <3>1. calls'[t] = NoCall /\ \A u \in Tabs \ {t} : calls'[u] = calls[u]
      BY <1>0, <2>2 DEF Done
    <3> QED BY <1>r, <2>1, <3>1
  <2>3. CASE Answer(t, <<>>)
    <3>1. calls'[t].op = "answer" /\ calls'[t].cookie = <<>>
          /\ \A u \in Tabs \ {t} : calls'[u] = calls[u]
      BY <1>0, <2>3 DEF Answer
    <3> QED BY <1>r, <2>1, <3>1
  <2> QED BY <1>3, <2>2, <2>3 DEF EndsCall
<1>4. ASSUME UNCHANGED calls PROVE AnswersKept /\ RequestsKept
  BY <1>4, <1>j DEF AnswersKept, RequestsKept, Tells, AsksWith, Asked
<1> QED BY <1>1, <1>2, <1>3, <1>4, StepKinds, CallKinds, OutsideCalls DEF Answers

\* Requests and answers are about sessions that exist.
LEMMA TokenTypes ==
  ASSUME Typed
  PROVE  /\ \A c : AsksWith(c) => c[1] \in Ids /\ c[2] \in Nat
         /\ \A t \in Tabs : \A c : Tells(t, c) => c[1] \in Ids /\ c[2] \in Nat
         /\ \A i \in Ids : sessions[i].token \in Nat
<1>1. \A c : KnownCookie(c) /\ c # <<>> => c[1] \in Ids /\ c[2] \in Nat
  BY Bounds DEF KnownCookie, Cookies, Names
<1>2. ASSUME NEW t \in Tabs, Asked(t, "refresh") \/ Asked(t, "answer")
      PROVE  KnownCookie(calls[t].cookie)
  BY <1>2 DEF Asked, Typed, CallsOK, CallOK
<1>3. KnownCookie(jar) BY DEF Typed, BrowserOK
<1>4. \A i \in Ids : sessions[i].token \in Nat
  BY SessionRows, Bounds DEF Typed, Session
<1> QED BY <1>1, <1>2, <1>3, <1>4 DEF AsksWith, Tells

\* Only a sign-in adds a session.
LEMMA RowsOpened ==
  ASSUME Typed, SessionsStep, [Next]_vars, ~ \E t \in Tabs : Opens(t)
  PROVE  Len(sessions') = Len(sessions)
<1>0. SessionsOK BY DEF Typed
<1>s. sessions' = sessions => Len(sessions') = Len(sessions) OBVIOUS
<1>d. ASSUME NEW ids, sessions' = Delete(ids) PROVE Len(sessions') = Len(sessions)
  BY <1>0, <1>d, Deleted
<1>1. ASSUME NEW t \in Tabs, VerifyMfa(t) \/ GenerateRecoveryCodes(t) \/ Refresh(t)
      PROVE  Len(sessions') = Len(sessions)
  <2>1. \/ sessions' = sessions
        \/ \E f, r : sessions' = [sessions EXCEPT ![f] = r]
    BY <1>1 DEF VerifyMfa, GenerateRecoveryCodes, Refresh
  <2>2. ASSUME NEW f, NEW r, sessions' = [sessions EXCEPT ![f] = r]
        PROVE  Len(sessions') = Len(sessions)
    <3>1. sessions \in [1..Len(sessions) -> Session] /\ Len(sessions) \in Nat
      BY <1>0, SessionRows
    <3>2. DOMAIN sessions' = 1..Len(sessions) BY <2>2, <3>1
    <3>3. sessions' \in Seq(Session) BY DEF SessionsStep, SessionsOK
    <3> QED BY <3>1, <3>2, <3>3, LenProperties
  <2> QED BY <2>1, <2>2
<1>2. ASSUME NEW t \in Tabs,
             \/ Waits(t) \/ KeepMFA(t) \/ BeginMFAEnrollment(t) \/ BeginOIDCLink(t)
             \/ VerifyOIDCFlow(t) \/ LinkOIDC(t)
      PROVE  Len(sessions') = Len(sessions)
  BY <1>2, <1>s, Waiting DEF KeepMFA, BeginMFAEnrollment, BeginOIDCLink, VerifyOIDCFlow,
                             LinkOIDC
<1>3. ASSUME NEW t \in Tabs, SignsOut(t) \/ RevokeAccountSession(t) \/ Logout(t)
      PROVE  Len(sessions') = Len(sessions)
  BY <1>3, <1>d, SigningOut DEF RevokeAccountSession, Logout
<1>4. ASSUME Outside PROVE Len(sessions') = Len(sessions)
  BY <1>4, <1>d, <1>s DEF Outside, SessionExpires, BeginOIDCLogin, FlowExpires,
              SetInstallationUser, SeedAdministrator, DeleteUserSessions, Tick, vars
<1> QED BY <1>1, <1>2, <1>3, <1>4, StepKinds DEF Commit, Opens, SignsOut

LEMMA LiveBefore ==
  ASSUME Typed, SessionsStep, NEW i \in Ids
  PROVE  Live(i)' => Live(i) /\ sessions'[i].live
BY DEF SessionsStep, Keeps, Live

LEMMA QuietRefresh ==
  ASSUME Typed, SessionsStep, RefreshInv, TokensKept, AnswersKept, RequestsKept,
         Len(sessions') = Len(sessions), UNCHANGED <<jar, astray>>
  PROVE  RefreshInv'
<1>0. Fresh /\ Behind /\ BrowserKeepsUp /\ Ids' = Ids BY DEF RefreshInv, Ids
<1>1. \A i \in Ids : Live(i)' => Live(i) /\ sessions'[i].token = sessions[i].token
  BY LiveBefore DEF TokensKept
<1>2. \A i : i \in UnderWay' <=> i \in UnderWay
  BY OnTheWay, OnTheWayNext DEF AnswersKept
<1>3. Fresh' BY <1>0, <1>1, TokenTypes DEF Fresh, AnswersKept
<1>4. Behind' BY <1>0, <1>1, <1>2, TokenTypes DEF Behind, RequestsKept
<1>5. BrowserKeepsUp' BY <1>0, <1>1, <1>2 DEF BrowserKeepsUp
<1> QED BY <1>3, <1>4, <1>5 DEF RefreshInv

\* A tab that waits for an answer gets one.
LEMMA AnswerSent ==
  ASSUME Typed, SessionsStep, NEW t \in Tabs, NEW k, KnownCookie(k)', k # <<>>, Answer(t, k),
         ~Asked(t, "answer")
  PROVE  /\ \A u \in Tabs : \A c :
              Tells(u, c)' <=> (u = t /\ c = k) \/ (u # t /\ Tells(u, c))
         /\ \A c : AsksWith(c)' => (c # <<>> /\ c = jar') \/ AsksWith(c)
         /\ \A i : i \in UnderWay' <=> i = k[1] \/ i \in UnderWay
<1>0. SessionsOK' /\ CallsOK /\ \A c : CallOK(c) => CallOK(c)'
  BY CallsLast DEF Typed, SessionsStep
<1>1. /\ calls'[t] # NoCall /\ calls'[t].op = "answer" /\ calls'[t].cookie = k
      /\ \A u \in Tabs \ {t} : calls'[u] = calls[u]
  BY <1>0, AnswerTypes
<1>2. ASSUME NEW u \in Tabs, NEW c
      PROVE  Tells(u, c)' <=> (u = t /\ c = k) \/ (u # t /\ Tells(u, c))
  BY <1>1 DEF Tells, Asked
<1>3. \A c : AsksWith(c)' => (c # <<>> /\ c = jar') \/ AsksWith(c)
  BY <1>1 DEF AsksWith, Asked
<1>4. ASSUME NEW i PROVE i \in UnderWay' <=> i = k[1] \/ i \in UnderWay
  <2>1. \A u \in Tabs : \A c : Tells(u, c) => u # t BY DEF Tells
  <2>2. i \in UnderWay <=> \E u \in Tabs : \E c : Tells(u, c) /\ c[1] = i BY OnTheWay
  <2>3. i \in UnderWay' <=> \E u \in Tabs : \E c : Tells(u, c)' /\ c[1] = i
    BY OnTheWayNext
  <2> QED BY <1>2, <2>1, <2>2, <2>3
<1> QED BY <1>2, <1>3, <1>4

LEMMA OpenedRefresh ==
  ASSUME Typed, SessionsStep, RefreshInv, TokensKept, NEW t \in Tabs, NEW k,
         NEW n, n = Len(sessions) + 1, Len(sessions') = n,
         k # <<>>, k[1] = n, k[2] = 0, KnownCookie(k)', Answer(t, k), ~Asked(t, "answer"),
         sessions'[n].token = 0, UNCHANGED <<jar, astray>>
  PROVE  RefreshInv'
<1>0. /\ Fresh /\ Behind /\ BrowserKeepsUp
      /\ n \notin Ids /\ Ids' = Ids \cup {n}
  BY SessionRows DEF RefreshInv, Typed, Ids
<1>1. \A i \in Ids : Live(i)' => Live(i) /\ sessions'[i].token = sessions[i].token
  BY LiveBefore DEF TokensKept
<1>2. /\ \A u \in Tabs : \A c :
           Tells(u, c)' <=> (u = t /\ c = k) \/ (u # t /\ Tells(u, c))
      /\ \A c : AsksWith(c)' => (c # <<>> /\ c = jar') \/ AsksWith(c)
      /\ \A i : i \in UnderWay' <=> i = k[1] \/ i \in UnderWay
  BY AnswerSent
<1>3. Fresh'
  <2>1. ASSUME NEW u \in Tabs, NEW c, Tells(u, c)', Live(c[1])'
        PROVE  /\ c[2] = sessions'[c[1]].token
               /\ \A v \in Tabs : \A d : Tells(v, d)' /\ d[1] = c[1] => v = u
    <3>1. CASE u = t /\ c = k
      BY <1>0, <1>2, <3>1, TokenTypes
    <3>2. CASE u # t /\ Tells(u, c)
      <4>1. c[1] \in Ids /\ Live(c[1]) /\ sessions'[c[1]].token = sessions[c[1]].token
        BY <1>1, <2>1, <3>2, TokenTypes
      <4> QED BY <1>0, <1>2, <3>2, <4>1 DEF Fresh
    <3> QED BY <1>2, <2>1, <3>1, <3>2
  <2> QED BY <2>1 DEF Fresh
<1>4. \A c : AsksWith(c)' => AsksWith(c) BY <1>2 DEF AsksWith
<1>5. \A i \in Ids : i \in UnderWay' <=> i \in UnderWay BY <1>0, <1>2
<1>6. Behind' BY <1>0, <1>1, <1>4, <1>5, TokenTypes DEF Behind
<1>7. BrowserKeepsUp'
  <2> SUFFICES ASSUME NEW i \in Ids', Live(i)', i \notin UnderWay' \cup astray'
               PROVE  jar' = <<i, sessions'[i].token>>
    BY DEF BrowserKeepsUp
  <2>1. i # n BY <1>2
  <2> QED BY <1>0, <1>1, <1>5, <2>1 DEF BrowserKeepsUp
<1> QED BY <1>3, <1>6, <1>7 DEF RefreshInv

\* Whoever is served asked with the good token, so no newer one is on its way.
LEMMA RotatedRefresh ==
  ASSUME Typed, SessionsStep, RefreshInv, NEW t \in Tabs, Refresh(t)
  PROVE  RefreshInv'
<1>1. PICK i, n, k : /\ i = calls[t].session
                     /\ n = sessions[i].token
                     /\ k = <<i, n + 1>>
  OBVIOUS
<1>2. /\ Fresh /\ Behind /\ BrowserKeepsUp /\ SessionsOK
  BY DEF RefreshInv, Typed
<1>3. /\ Live(i) /\ i \in Ids /\ n \in Nat /\ n < MaxToken
      /\ calls[t].cookie # <<>> /\ calls[t].cookie[1] = i /\ calls[t].cookie[2] = n
      /\ Asked(t, "refresh") /\ ~Asked(t, "answer") /\ UNCHANGED <<jar, astray>>
      /\ Answer(t, k) /\ KnownCookie(k)' /\ k # <<>> /\ k[1] = i /\ k[2] = n + 1
  <2>1. /\ Live(i) /\ i \in Ids /\ n < MaxToken /\ calls[t].cookie[2] = n
        /\ Asked(t, "refresh") /\ UNCHANGED <<jar, astray>>
    BY <1>1 DEF Refresh, Live
  <2>2. n \in Nat BY <1>1, <2>1, TokenTypes
  <2>3. calls[t].cookie # <<>> /\ calls[t].cookie[1] = i
    BY <1>1, <2>1 DEF Asked, Typed, CallsOK, CallOK
  <2>4. ~Asked(t, "answer") BY <2>1 DEF Asked
  <2>5. Answer(t, k) /\ KnownCookie(k)' BY <1>1, RefreshAnswers
  <2>6. k # <<>> /\ k[1] = i /\ k[2] = n + 1 BY <1>1
  <2> QED BY <2>1, <2>2, <2>3, <2>4, <2>5, <2>6
<1>4. /\ Ids' = Ids /\ sessions'[i].token = n + 1
      /\ \A j \in Ids : /\ sessions'[j].live = sessions[j].live
                        /\ j # i => sessions'[j].token = sessions[j].token
  <2>1. /\ sessions \in [1..Len(sessions) -> Session] /\ Ids = 1..Len(sessions)
        /\ \A j \in Ids : sessions[j] \in Session
    BY <1>2, SessionRows
  <2>2. n + 1 \in 0..MaxToken BY <1>3, Bounds
  <2>3. sessions' = [sessions EXCEPT ![i].token = n + 1]
    BY <1>1, <1>3, <2>1 DEF Refresh
  <2>4. Len(sessions') = Len(sessions) BY <1>2, <1>3, <2>2, <2>3, Updated
  <2>5. sessions'[i].token = n + 1
        /\ \A j \in Ids : /\ sessions'[j].live = sessions[j].live
                          /\ j # i => sessions'[j].token = sessions[j].token
    BY <1>3, <2>1, <2>3 DEF Session
  <2> QED BY <2>4, <2>5 DEF Ids
<1>5. \A j : Live(j)' <=> Live(j) BY <1>4 DEF Live
<1>6. i \notin UnderWay
  <2>1. \A c : c = calls[t].cookie => AsksWith(c) BY <1>3 DEF AsksWith
  <2>2. i \in UnderWay => calls[t].cookie[2] < n BY <1>1, <1>2, <1>3, <2>1 DEF Behind
  <2> QED BY <1>3, <2>2
<1>7. /\ \A u \in Tabs : \A c :
           Tells(u, c)' <=> (u = t /\ c = k) \/ (u # t /\ Tells(u, c))
      /\ \A c : AsksWith(c)' => (c # <<>> /\ c = jar') \/ AsksWith(c)
      /\ \A j : j \in UnderWay' <=> j = k[1] \/ j \in UnderWay
  BY <1>3, AnswerSent
<1>8. \A u \in Tabs : \A c : Tells(u, c) => c[1] \in Ids /\ c[1] # i
  BY <1>6, TokenTypes, OnTheWay
<1>9. Fresh'
  <2>1. ASSUME NEW u \in Tabs, NEW c, Tells(u, c)', Live(c[1])'
        PROVE  /\ c[2] = sessions'[c[1]].token
               /\ \A v \in Tabs : \A d : Tells(v, d)' /\ d[1] = c[1] => v = u
    <3>1. CASE u = t /\ c = k BY <1>3, <1>4, <1>7, <1>8, <3>1
    <3>2. CASE u # t /\ Tells(u, c)
      <4>1. c[1] \in Ids /\ c[1] # i /\ Live(c[1])
            /\ sessions'[c[1]].token = sessions[c[1]].token
        BY <1>4, <1>5, <1>8, <2>1, <3>2
      <4> QED BY <1>2, <1>3, <1>7, <3>2, <4>1 DEF Fresh
    <3> QED BY <1>7, <2>1, <3>1, <3>2
  <2> QED BY <2>1 DEF Fresh
<1>10. \A c : AsksWith(c)' => AsksWith(c) BY <1>3, <1>7 DEF AsksWith
<1>11. \A j : j # i => (j \in UnderWay' <=> j \in UnderWay) BY <1>3, <1>7
<1>12. Behind'
  <2>1. ASSUME NEW c, AsksWith(c)', Live(c[1])'
        PROVE  c[2] <= sessions'[c[1]].token
               /\ (c[1] \in UnderWay' => c[2] < sessions'[c[1]].token)
    <3>1. AsksWith(c) /\ c[1] \in Ids /\ c[2] \in Nat /\ Live(c[1])
      BY <1>5, <1>10, <2>1, TokenTypes
    <3>2. CASE c[1] = i
      <4>1. c[2] <= n BY <1>1, <1>2, <3>1, <3>2 DEF Behind
      <4> QED BY <1>3, <1>4, <3>1, <3>2, <4>1
    <3>3. CASE c[1] # i BY <1>2, <1>4, <1>11, <3>1, <3>3 DEF Behind
    <3> QED BY <3>2, <3>3
  <2> QED BY <2>1 DEF Behind
<1>13. BrowserKeepsUp'
  <2> SUFFICES ASSUME NEW j \in Ids', Live(j)', j \notin UnderWay' \cup astray'
               PROVE  jar' = <<j, sessions'[j].token>>
    BY DEF BrowserKeepsUp
  <2>1. j # i /\ j \in Ids /\ Live(j) /\ j \notin UnderWay \cup astray
    BY <1>3, <1>4, <1>5, <1>7
  <2> QED BY <1>2, <1>3, <1>4, <2>1 DEF BrowserKeepsUp
<1> QED BY <1>9, <1>12, <1>13 DEF RefreshInv

\* A tab no longer waits for its answer.
LEMMA AnswerEnded ==
  ASSUME Typed, NEW t \in Tabs, Done(t), Asked(t, "answer"), sessions' = sessions
  PROVE  /\ \A u \in Tabs : \A c : Tells(u, c)' <=> u # t /\ Tells(u, c)
         /\ \A c : AsksWith(c)' => (c # <<>> /\ c = jar') \/ AsksWith(c)
         /\ \A i : i \in UnderWay' => i \in UnderWay
         /\ \A i : i \in UnderWay /\ i \notin UnderWay' => i \in Names(calls[t].cookie)
         /\ Ids' = Ids /\ \A i : Live(i)' <=> Live(i)
<1>0. calls \in [Tabs -> CallRecord \cup {NoCall}] BY DEF Typed, CallsOK
<1>1. calls'[t] = NoCall /\ \A u \in Tabs \ {t} : calls'[u] = calls[u] BY <1>0 DEF Done
<1>2. ASSUME NEW u \in Tabs, NEW c
      PROVE  Tells(u, c)' <=> u # t /\ Tells(u, c)
  BY <1>1 DEF Tells, Asked
<1>3. \A c : AsksWith(c)' => (c # <<>> /\ c = jar') \/ AsksWith(c)
  BY <1>1 DEF AsksWith, Asked
<1>4. Ids' = Ids /\ \A i : Live(i)' <=> Live(i) BY DEF Ids, Live
<1>5. ASSUME NEW i
      PROVE  /\ i \in UnderWay' => i \in UnderWay
             /\ i \in UnderWay /\ i \notin UnderWay' => i \in Names(calls[t].cookie)
  <2>1. i \in UnderWay <=> \E u \in Tabs : \E c : Tells(u, c) /\ c[1] = i BY OnTheWay
  <2>2. i \in UnderWay' <=> \E u \in Tabs : \E c : Tells(u, c)' /\ c[1] = i
    BY OnTheWayNext
  <2>3. ASSUME NEW c, Tells(t, c), c[1] = i PROVE i \in Names(calls[t].cookie)
    BY <2>3 DEF Tells, Names
  <2> QED BY <1>2, <2>1, <2>2, <2>3
<1> QED BY <1>2, <1>3, <1>4, <1>5

LEMMA ArrivesRefresh ==
  ASSUME Typed, RefreshInv, NEW t \in Tabs, Arrives(t)
  PROVE  RefreshInv'
<1>0. Fresh /\ Behind /\ BrowserKeepsUp BY DEF RefreshInv
<1>1. PICK k : k = calls[t].cookie OBVIOUS
<1>2. /\ Asked(t, "answer") /\ jar' = k /\ Done(t) /\ sessions' = sessions
      /\ astray' = (astray \cup Names(jar)) \ Names(k) /\ KnownCookie(k)
  BY <1>1 DEF Arrives, Asked, Typed, CallsOK, CallOK
<1>3. /\ \A u \in Tabs : \A c : Tells(u, c)' <=> u # t /\ Tells(u, c)
      /\ \A c : AsksWith(c)' => (c # <<>> /\ c = jar') \/ AsksWith(c)
      /\ \A i : i \in UnderWay' => i \in UnderWay
      /\ \A i : i \in UnderWay /\ i \notin UnderWay' => i \in Names(k)
      /\ Ids' = Ids /\ \A i : Live(i)' <=> Live(i)
  BY <1>1, <1>2, AnswerEnded
<1>4. k # <<>> => k[1] \in Ids /\ k[2] \in Nat
  BY <1>2, Bounds DEF KnownCookie, Cookies, Names
<1>5. ASSUME k # <<>>, Live(k[1])
      PROVE  k[2] = sessions[k[1]].token /\ k[1] \notin UnderWay'
  <2>1. Tells(t, k) BY <1>1, <1>2, <1>5 DEF Tells
  <2>2. /\ k[2] = sessions[k[1]].token
        /\ \A u \in Tabs : \A d : Tells(u, d) /\ d[1] = k[1] => u = t
    BY <1>0, <1>5, <2>1 DEF Fresh
  <2>3. k[1] \notin UnderWay' BY <1>3, <2>2, OnTheWayNext
  <2> QED BY <2>2, <2>3
<1>6. Fresh' BY <1>0, <1>2, <1>3 DEF Fresh
<1>7. Behind'
  <2>1. ASSUME NEW c, AsksWith(c)', Live(c[1])'
        PROVE  c[2] <= sessions'[c[1]].token
               /\ (c[1] \in UnderWay' => c[2] < sessions'[c[1]].token)
    <3>1. Live(c[1]) BY <1>3, <2>1
    <3>2. CASE c # <<>> /\ c = k BY <1>2, <1>4, <1>5, <3>1, <3>2
    <3>3. CASE AsksWith(c) BY <1>0, <1>2, <1>3, <3>1, <3>3 DEF Behind
    <3> QED BY <1>2, <1>3, <2>1, <3>2, <3>3
  <2> QED BY <2>1 DEF Behind
<1>8. BrowserKeepsUp'
  <2> SUFFICES ASSUME NEW i \in Ids', Live(i)', i \notin UnderWay' \cup astray'
               PROVE  jar' = <<i, sessions'[i].token>>
    BY DEF BrowserKeepsUp
  <2>1. i \in Ids /\ Live(i) BY <1>3
  <2>2. CASE i \in Names(k)
    <3>1. k # <<>> /\ k[1] = i BY <2>2 DEF Names
    <3>2. k = <<i, k[2]>>
      <4>1. k \in (1..MaxSessions) \X (0..MaxToken) BY <1>2, <3>1 DEF KnownCookie, Cookies
      <4> QED BY <3>1, <4>1
    <3> QED BY <1>2, <1>5, <2>1, <3>1, <3>2
  <2>3. CASE i \notin Names(k)
    <3>1. i \notin UnderWay \cup astray /\ i \notin Names(jar) BY <1>2, <1>3, <2>3
    <3>2. jar = <<i, sessions[i].token>> BY <1>0, <2>1, <3>1 DEF BrowserKeepsUp
    <3>3. Names(jar) = {i} BY <3>2, CookieNames
    <3> QED BY <3>1, <3>3
  <2> QED BY <2>2, <2>3
<1> QED BY <1>6, <1>7, <1>8 DEF RefreshInv

LEMMA LostRefresh ==
  ASSUME Typed, RefreshInv, NEW t \in Tabs, AnswerLost(t)
  PROVE  RefreshInv'
<1>0. Fresh /\ Behind /\ BrowserKeepsUp BY DEF RefreshInv
<1>1. /\ Asked(t, "answer") /\ jar' = jar /\ Done(t) /\ sessions' = sessions
      /\ astray' = astray \cup Names(calls[t].cookie)
  BY DEF AnswerLost
<1>2. /\ \A u \in Tabs : \A c : Tells(u, c)' <=> u # t /\ Tells(u, c)
      /\ \A c : AsksWith(c)' => (c # <<>> /\ c = jar') \/ AsksWith(c)
      /\ \A i : i \in UnderWay' => i \in UnderWay
      /\ \A i : i \in UnderWay /\ i \notin UnderWay' => i \in Names(calls[t].cookie)
      /\ Ids' = Ids /\ \A i : Live(i)' <=> Live(i)
  BY <1>1, AnswerEnded
<1>3. Fresh' BY <1>0, <1>1, <1>2 DEF Fresh
<1>4. \A c : AsksWith(c)' => AsksWith(c) BY <1>1, <1>2 DEF AsksWith
<1>5. Behind' BY <1>0, <1>1, <1>2, <1>4 DEF Behind
<1>6. \A i : i \notin UnderWay' \cup astray' => i \notin UnderWay \cup astray
  BY <1>1, <1>2
<1>7. BrowserKeepsUp' BY <1>0, <1>1, <1>2, <1>6 DEF BrowserKeepsUp
<1> QED BY <1>3, <1>5, <1>7 DEF RefreshInv

LEMMA RefreshInvStep ==
  ASSUME SoundCalls, SessionsStep, RefreshInv, [Next]_vars
  PROVE  RefreshInv'
<1>0. Typed BY DEF SoundCalls
<1>1. CASE ~ \E t \in Tabs : Answers(t)
  <2>1. TokensKept BY <1>0, <1>1, TokenSteps DEF Answers
  <2>2. AnswersKept /\ RequestsKept BY <1>0, <1>1, CallSteps
  <2>3. UNCHANGED <<jar, astray>> BY <1>1, BrowserSteps DEF Answers
  <2>4. Len(sessions') = Len(sessions) BY <1>0, <1>1, RowsOpened DEF Answers
  <2> QED BY <1>0, <2>1, <2>2, <2>3, <2>4, QuietRefresh
<1>2. ASSUME NEW t \in Tabs, Opens(t) PROVE RefreshInv'
  <2>1. PICK k : /\ k = <<Len(sessions) + 1, 0>> /\ KnownCookie(k)'
                 /\ Answer(t, k)
    BY <1>0, <1>2, OpensAnswer
  <2>2. PICK n : n = Len(sessions) + 1 OBVIOUS
  <2>3. Len(sessions') = n BY <1>0, <1>2, <2>2, OpensAnswer
  <2>4. k # <<>> /\ k[1] = n /\ k[2] = 0 BY <2>1, <2>2
  <2>5. ~Asked(t, "answer") /\ UNCHANGED <<jar, astray>>
    BY <1>2 DEF Opens, Login, CompleteOIDCLogin, UnderLock, Asked
  <2>6. ~ \E u \in Tabs : Refresh(u)
    <3>1. ASSUME NEW u \in Tabs, Refresh(u) PROVE FALSE
      <4>1. calls \in [Tabs -> CallRecord \cup {NoCall}] BY <1>0 DEF Typed, CallsOK
      <4>2. u # t BY <1>2, <3>1 DEF Opens, Login, CompleteOIDCLogin, Refresh, UnderLock, Asked
      <4>3. calls'[t] # calls[t]
        BY <1>0, <1>2, <2>1, CallsLast, AnswerTypes
        DEF Typed, SessionsStep, Opens, Login, CompleteOIDCLogin, UnderLock, Asked
      <4> QED BY <3>1, <4>1, <4>2, <4>3 DEF Refresh, Answer
    <3> QED BY <3>1
  <2>7. TokensKept BY <1>0, <2>6, TokenSteps
  <2>8. sessions'[n].token = 0
    <3>1. PICK s \in {sessions, Delete(Ids)} : \E password, confirmed, proof, spent :
            sessions' = Append(s, Opened(password, confirmed, proof, spent))
      BY <1>2 DEF Opens, Login, CompleteOIDCLogin
    <3>2. PICK password, confirmed, proof, spent :
            sessions' = Append(s, Opened(password, confirmed, proof, spent))
      BY <3>1
    <3> DEFINE new == Opened(password, confirmed, proof, spent)
               S == Session \cup {new}
    <3>3. /\ s \in Seq(S) /\ new \in S /\ Len(s) = Len(sessions)
      BY <1>0, Deleted DEF Typed, SessionsOK
    <3>4. new.token = 0 BY DEF Opened
    <3> HIDE DEF S, new
    <3>5. Append(s, new)[Len(s) + 1] = new BY <3>3, AppendProperties
    <3>6. sessions' = Append(s, new) BY <3>2 DEF new
    <3> QED BY <2>2, <3>3, <3>4, <3>5, <3>6
  <2> QED BY <1>0, <2>1, <2>2, <2>3, <2>4, <2>5, <2>7, <2>8, OpenedRefresh
<1>3. ASSUME NEW t \in Tabs, Refresh(t) \/ Arrives(t) \/ AnswerLost(t) PROVE RefreshInv'
  BY <1>0, <1>3, RotatedRefresh, ArrivesRefresh, LostRefresh
<1> QED BY <1>1, <1>2, <1>3 DEF Answers

\* The browser holds the good refresh token of an open session unless an answer about it is
\* under way or was lost, or another answer arrived after it, however many tabs refresh at
\* once: Refresh serves only the token that is good, so whoever asks with an older one is
\* turned away.
THEOREM BrowserHoldsTheToken == Spec => []BrowserKeepsUp
<1> DEFINE Inv == SoundCalls /\ RefreshInv
<1>1. Init => Inv BY InitSound, InitRefresh
<1>2. Inv /\ [Next]_vars => Inv' BY SoundStep, RefreshInvStep
<1>3. Inv => BrowserKeepsUp BY DEF RefreshInv
<1> QED BY <1>1, <1>2, <1>3, PTL DEF Spec

-----------------------------------------------------------------------------
(* Access: the inductive invariant.                                        *)

Invitation ==
  [user : Users, role : Roles, revision : 1..MaxRevision, inviter : Users,
   perms : SUBSET Perms, status : {"open", "accepted", "revoked", "expired"}]

PolicyRow == [enabled : BOOLEAN, recovery : SUBSET Users]

RoleRequest == [op : {"role"}, role : CustomRoles, perms : SUBSET Perms]
MemberRequest == [op : {"member"}, target : Users, role : Roles, active : BOOLEAN]
TeamRequest == [op : {"team"}, team : TeamRow \cup {NoTeam}]
InviteRequest == [op : {"invite"}, user : Users, role : Roles]
SettleRequest == [op : {"settle"}, invitation : Nat, status : {"accepted", "revoked"}]
PolicyRequest == [op : {"policy"}, policy : PolicyRow]
UserRequest ==
  [op : {"user"}, target : Users, active : BOOLEAN, global : BOOLEAN, updated : BOOLEAN]

Requests ==
  RoleRequest \cup MemberRequest \cup TeamRequest \cup InviteRequest
    \cup SettleRequest \cup PolicyRequest \cup UserRequest

Transaction == [asks : Requests, held : SUBSET Perms, seen : [Users -> UserRow]]

Tables ==
  /\ users \in [Users -> UserRow] /\ members \in [Users -> Membership \cup {NoMember}]
  /\ roles \in [Roles -> RoleRow] /\ team \in TeamRow \cup {NoTeam} /\ policy \in PolicyRow
  /\ invitations \in Seq(Invitation)
  /\ tx \in [Users -> Transaction \cup {NoTx}] /\ edits \in Nat

\* Who is active, an administrator of the installation or a member has an account, and who
\* is in the team is a member.
Known ==
  /\ \A u \in Users : users[u].active \/ users[u].global \/ members[u] # NoMember
                        => users[u].known
  /\ team # NoTeam => \A u \in team.members : members[u] # NoMember

Administered(m, p) ==
  /\ \E u \in Users : AdministratorIn(m, u)
  /\ p.enabled => \E u \in p.recovery : AdministratorIn(m, u)

\* The lock of the organization and the locks of account rows.
LocksHold ==
  /\ \A u, w \in Users :
       Pending(u) /\ Pending(w) /\ tx[u].asks.op # "user" /\ tx[w].asks.op # "user" => u = w
  /\ \A u \in Users : Prepared(u, "user") => RowFree(u, u)

\* An invitation of the role's present revision grants what the role grants.
TermsKept ==
  \A i \in DOMAIN invitations :
    LET role == roles[invitations[i].role] IN
    /\ invitations[i].revision <= role.revision
    /\ invitations[i].revision = role.revision => invitations[i].perms = role.perms

\* What somebody may do, by the accounts a transaction saw.
SeenPermissions(seen, u) ==
  IF ~seen[u].active THEN {}
  ELSE IF seen[u].global THEN roles["administrator"].perms
  ELSE IF members[u] # NoMember /\ members[u].active
    THEN roles[members[u].role].perms \cup TeamGrants(u)
  ELSE {}

\* What the checks of a transaction established still holds when it commits.
RoleSound(t) ==
  /\ t.asks.perms \cup roles[t.asks.role].perms \subseteq t.held
  /\ roles[t.asks.role].revision < MaxRevision
MemberSound(t) ==
  /\ members[t.asks.target] # NoMember
  /\ roles[t.asks.role].perms \cup SeenPermissions(t.seen, t.asks.target) \subseteq t.held
  /\ Administered(WithMember(t.asks.target, t.asks.role, t.asks.active), policy)
TeamSound(t) ==
  /\ t.asks.team # NoTeam =>
       /\ roles[t.asks.team.role].perms \subseteq t.held
       /\ \A v \in t.asks.team.members : members[v] # NoMember
  /\ team # NoTeam => roles[team.role].perms \subseteq t.held
SettleSound(u, t) ==
  LET i == t.asks.invitation IN
  /\ i \in DOMAIN invitations /\ invitations[i].status \in {"open", "expired"}
  /\ t.asks.status = "accepted" =>
       /\ invitations[i].status = "open" /\ invitations[i].user = u
       /\ members[u] = NoMember /\ RoleUnchanged(i)
       /\ roles[invitations[i].role].perms \subseteq t.held
PolicySound(t) == Administered(members, t.asks.policy)
UserSound(u, t) ==
  /\ users[u].active /\ users[u].global
  /\ t.asks.target # u /\ users[t.asks.target].known

Sound(u, t) ==
  /\ t.asks.op = "role" => RoleSound(t)
  /\ t.asks.op = "member" => MemberSound(t)
  /\ t.asks.op = "team" => TeamSound(t)
  /\ t.asks.op = "settle" => SettleSound(u, t)
  /\ t.asks.op = "policy" => PolicySound(t)
  /\ t.asks.op = "user" => UserSound(u, t)

AllSound == \A u \in Users : \A t : Pending(u) /\ tx[u] = t => Sound(u, t)

AccessIInv ==
  /\ Tables /\ Known /\ Administered(members, policy) /\ InstallationAdministered
  /\ LocksHold /\ TermsKept /\ AllSound

LEMMA AccessIInvSuffices == AccessIInv => AccessInv
<1> SUFFICES ASSUME AccessIInv PROVE AccessInv OBVIOUS
<1>1. /\ Tables /\ Known /\ Administered(members, policy) /\ InstallationAdministered
  BY DEF AccessIInv
<1>2. \A i \in DOMAIN invitations :
        invitations[i].status \in {"open", "accepted", "revoked", "expired"}
  <2>1. \A i \in DOMAIN invitations : invitations[i] \in Invitation
    BY <1>1, LenProperties DEF Tables
  <2> QED BY <2>1 DEF Invitation
<1>3. AccessTypeOK BY <1>1, <1>2 DEF AccessTypeOK, Tables, Known, PolicyRow
<1>4. AdministratorStays BY <1>1 DEF AdministratorStays, Administered
<1> QED BY <1>1, <1>3, <1>4 DEF AccessInv

\* What setup leaves.
LEMMA InitAccess == AccessInit => AccessIInv
<1> SUFFICES ASSUME AccessInit PROVE AccessIInv OBVIOUS
<1>1. PICK o \in Organizations :
        users = o.users /\ members = o.members /\ roles = o.roles /\ team = o.team
  BY DEF AccessInit
<1>2. /\ invitations = <<>> /\ tx = [u \in Users |-> NoTx] /\ edits = 0
      /\ policy = [enabled |-> FALSE, recovery |-> {}]
  BY DEF AccessInit
<1>3. Tables
  <2>1. invitations \in Seq(Invitation) BY <1>2
  <2>2. policy \in PolicyRow BY <1>2 DEF PolicyRow
  <2>3. tx \in [Users -> Transaction \cup {NoTx}] /\ edits \in Nat BY <1>2
  <2> QED BY <1>1, <2>1, <2>2, <2>3, OrganizationsAssumption DEF Tables
<1>4. Known BY <1>1, OrganizationsAssumption DEF Known
<1>5. InstallationAdministered BY <1>1, OrganizationsAssumption DEF InstallationAdministered
<1>6. Administered(members, policy)
  <2>1. PICK u \in Users : members[u] = [role |-> "administrator", active |-> TRUE]
    BY <1>1, OrganizationsAssumption
  <2>2. members[u] \in Membership BY <2>1 DEF Membership, Roles
  <2>3. members[u] # NoMember BY <2>2, NoMemberAssumption
  <2>4. members[u].role = "administrator" /\ members[u].active = TRUE BY <2>1
  <2>5. AdministratorIn(members, u) BY <2>3, <2>4 DEF AdministratorIn
  <2>6. policy.enabled = FALSE BY <1>2
  <2> QED BY <2>5, <2>6 DEF Administered
<1>7. LocksHold /\ AllSound BY <1>2 DEF LocksHold, AllSound, Pending, Prepared
<1>8. TermsKept BY <1>2 DEF TermsKept
<1> QED BY <1>3, <1>4, <1>5, <1>6, <1>7, <1>8 DEF AccessIInv

\* A transaction under way and what it asks for.
LEMMA Asking ==
  ASSUME AccessIInv, NEW u \in Users, Pending(u)
  PROVE  /\ tx[u] \in Transaction /\ tx[u].asks \in Requests /\ Sound(u, tx[u])
         /\ tx[u].asks.op = "role" => tx[u].asks \in RoleRequest /\ RoleSound(tx[u])
         /\ tx[u].asks.op = "member" => tx[u].asks \in MemberRequest /\ MemberSound(tx[u])
         /\ tx[u].asks.op = "team" => tx[u].asks \in TeamRequest /\ TeamSound(tx[u])
         /\ tx[u].asks.op = "invite" => tx[u].asks \in InviteRequest
         /\ tx[u].asks.op = "settle" => tx[u].asks \in SettleRequest /\ SettleSound(u, tx[u])
         /\ tx[u].asks.op = "policy" => tx[u].asks \in PolicyRequest /\ PolicySound(tx[u])
         /\ tx[u].asks.op = "user" => tx[u].asks \in UserRequest /\ UserSound(u, tx[u])
<1>1. tx[u] \in Transaction BY DEF AccessIInv, Tables, Pending
<1>2. tx[u].asks \in Requests BY <1>1 DEF Transaction
<1>3. Sound(u, tx[u]) BY DEF AccessIInv, AllSound
<1>4. ASSUME NEW q \in Requests
      PROVE  /\ q.op = "role" => q \in RoleRequest
             /\ q.op = "member" => q \in MemberRequest
             /\ q.op = "team" => q \in TeamRequest
             /\ q.op = "invite" => q \in InviteRequest
             /\ q.op = "settle" => q \in SettleRequest
             /\ q.op = "policy" => q \in PolicyRequest
             /\ q.op = "user" => q \in UserRequest
  BY DEF Requests, RoleRequest, MemberRequest, TeamRequest, InviteRequest, SettleRequest,
         PolicyRequest, UserRequest
<1> QED BY <1>1, <1>2, <1>3, <1>4 DEF Sound

\* Nobody may do what does not exist.
LEMMA PermissionsTyped ==
  ASSUME AccessIInv, NEW u \in Users
  PROVE  Permissions(u) \in SUBSET Perms /\ Permissions(u) = SeenPermissions(users, u)
<1>1. \A role \in Roles : roles[role].perms \in SUBSET Perms
  BY DEF AccessIInv, Tables, RoleRow
<1>2. team # NoTeam => team.role \in Roles BY DEF AccessIInv, Tables, TeamRow
<1>3. members[u] # NoMember => members[u].role \in Roles
  BY DEF AccessIInv, Tables, Membership
<1>4. TeamGrants(u) \in SUBSET Perms BY <1>1, <1>2 DEF TeamGrants
<1> QED BY <1>1, <1>3, <1>4 DEF Permissions, SeenPermissions, Roles

-----------------------------------------------------------------------------
(* Transactions begin.                                                     *)

\* What stays sound while tables stay.
LEMMA SoundStays ==
  ASSUME UNCHANGED organization, NEW u, NEW t, Sound(u, t),
         t.asks.op = "user" => UserSound(u, t)'
  PROVE  Sound(u, t)'
<1>1. /\ members' = members /\ roles' = roles /\ team' = team
      /\ invitations' = invitations /\ policy' = policy
  BY DEF organization
<1>2. \A seen, v : SeenPermissions(seen, v)' = SeenPermissions(seen, v)
  BY <1>1 DEF SeenPermissions, TeamGrants
<1>3. t.asks.op = "role" => RoleSound(t)' BY <1>1 DEF Sound, RoleSound
<1>4. t.asks.op = "member" => MemberSound(t)'
  <2>1. \A m, p : Administered(m, p)' <=> Administered(m, p)
    BY DEF Administered, AdministratorIn
  <2>2. \A v, role, active : WithMember(v, role, active)' = WithMember(v, role, active)
    BY <1>1 DEF WithMember
  <2> QED BY <1>1, <1>2, <2>1, <2>2
         DEF Sound, MemberSound, Administered, AdministratorIn, WithMember
<1>5. t.asks.op = "team" => TeamSound(t)' BY <1>1 DEF Sound, TeamSound
<1>6. t.asks.op = "settle" => SettleSound(u, t)'
  BY <1>1 DEF Sound, SettleSound, RoleUnchanged
<1>7. t.asks.op = "policy" => PolicySound(t)'
  BY <1>1 DEF Sound, PolicySound, Administered, AdministratorIn
<1> QED BY <1>3, <1>4, <1>5, <1>6, <1>7 DEF Sound

\* The invariant but for the transactions.
LEMMA TablesStay ==
  ASSUME AccessIInv, UNCHANGED <<users, organization>>
  PROVE  Known' /\ Administered(members, policy)' /\ InstallationAdministered' /\ TermsKept'
BY DEF AccessIInv, organization, Known, Administered, AdministratorIn,
       InstallationAdministered, TermsKept

LEMMA PrepareKeeps ==
  ASSUME AccessIInv, NEW u \in Users, NEW request \in Requests, NEW held \in SUBSET Perms,
         ~Pending(u), Prepare(u, request, held),
         request.op # "user" => AccessFree,
         request.op = "user" => RowFree(u, u) /\ ~request.updated,
         \A t : t = [asks |-> request, held |-> held, seen |-> users] => Sound(u, t)
  PROVE  AccessIInv'
<1> DEFINE new == [asks |-> request, held |-> held, seen |-> users]
<1>1. /\ UNCHANGED <<users, organization>> /\ edits' = edits
      /\ tx' = [tx EXCEPT ![u] = new]
  BY DEF Prepare
<1>2. /\ new \in Transaction /\ new.asks = request
      /\ tx \in [Users -> Transaction \cup {NoTx}]
  BY DEF Transaction, AccessIInv, Tables
<1> HIDE DEF new
<1>3. /\ tx' \in [Users -> Transaction \cup {NoTx}] /\ tx'[u] = new
      /\ \A w \in Users \ {u} : tx'[w] = tx[w]
  BY <1>1, <1>2
<1>4. Tables' BY <1>1, <1>3 DEF AccessIInv, Tables, organization
<1>5. LocksHold'
  <2>1. ASSUME NEW v \in Users, NEW w \in Users, Pending(v)', Pending(w)',
               tx'[v].asks.op # "user", tx'[w].asks.op # "user"
        PROVE  v = w
    <3>1. CASE v # u /\ w # u
      BY <1>3, <2>1, <3>1 DEF AccessIInv, LocksHold, Pending
    <3>2. CASE v = u \/ w = u
      BY <1>2, <1>3, <2>1, <3>2 DEF AccessFree, Pending
    <3> QED BY <3>1, <3>2
  <2>2. ASSUME NEW v \in Users, Prepared(v, "user")', NEW w \in Users \ {v}, Holds(w, v)'
        PROVE  FALSE
    <3>1. CASE w = u
      <4>1. request.op = "user" /\ request.updated
        BY <1>2, <1>3, <2>2, <3>1 DEF Holds
      <4> QED BY <4>1
    <3>2. CASE w # u
      <4>1. Holds(w, v) BY <1>3, <2>2, <3>2 DEF Holds, Pending
      <4>2. CASE v = u
        <5>1. request.op = "user" BY <1>2, <1>3, <2>2, <4>2 DEF Prepared
        <5> QED BY <3>2, <4>1, <4>2, <5>1 DEF RowFree
      <4>3. CASE v # u
        <5>1. Prepared(v, "user") BY <1>3, <2>2, <4>3 DEF Prepared, Pending
        <5> QED BY <2>2, <4>1, <5>1 DEF AccessIInv, LocksHold, RowFree
      <4> QED BY <4>2, <4>3
    <3> QED BY <3>1, <3>2
  <2> QED BY <2>1, <2>2 DEF LocksHold, RowFree
<1>6. AllSound'
  <2> SUFFICES ASSUME NEW w \in Users, NEW t, Pending(w)', tx'[w] = t
               PROVE  Sound(w, t)'
    BY DEF AllSound
  <2>1. Sound(w, t)
    <3>1. CASE w = u BY <1>3, <3>1 DEF new
    <3>2. CASE w # u BY <1>3, <3>2 DEF AccessIInv, AllSound, Pending
    <3> QED BY <3>1, <3>2
  <2>2. t.asks.op = "user" => UserSound(w, t)' BY <1>1, <2>1 DEF Sound, UserSound
  <2> QED BY <1>1, <2>1, <2>2, SoundStays
<1> QED BY <1>1, <1>4, <1>5, <1>6, TablesStay DEF AccessIInv

LEMMA RequestKeeps ==
  ASSUME AccessIInv, NEW u \in Users, Request(u), ~UpdateTarget(u)
  PROVE  AccessIInv'
<1> DEFINE Fit(request, held) ==
             /\ request \in Requests /\ held \in SUBSET Perms /\ ~Pending(u)
             /\ request.op # "user" /\ AccessFree
             /\ \A t : t = [asks |-> request, held |-> held, seen |-> users] => Sound(u, t)
<1>p. Permissions(u) \in SUBSET Perms /\ \A v \in Users : Permissions(v) = SeenPermissions(users, v)
  BY PermissionsTyped
<1>f. ASSUME NEW request, NEW held, Fit(request, held), Prepare(u, request, held)
      PROVE  AccessIInv'
  BY <1>f, PrepareKeeps
<1>t. ASSUME NEW request, NEW held, NEW t, t = [asks |-> request, held |-> held, seen |-> users]
      PROVE  t.asks = request /\ t.held = held /\ t.seen = users
  BY <1>t
<1>1. ASSUME NEW role \in CustomRoles, NEW perms \in RolePermissions, SaveRole(u, role, perms)
      PROVE  AccessIInv'
  <2> DEFINE request == [op |-> "role", role |-> role, perms |-> perms]
  <2>1. /\ request \in RoleRequest /\ request.op = "role" /\ request.role = role
        /\ request.perms = perms
    BY AccessAssumption DEF RoleRequest
  <2>2. Prepare(u, request, Permissions(u)) BY <1>1 DEF SaveRole
  <2> HIDE DEF request
  <2>3. ASSUME NEW t, t = [asks |-> request, held |-> Permissions(u), seen |-> users]
        PROVE  Sound(u, t)
    <3>1. t.asks = request /\ t.held = Permissions(u) BY <1>t, <2>3
    <3>2. RoleSound(t) BY <1>1, <2>1, <3>1 DEF SaveRole, RoleSound
    <3> QED BY <2>1, <3>1, <3>2 DEF Sound
  <2>4. Fit(request, Permissions(u))
    BY <1>1, <1>p, <2>1, <2>3 DEF Requests, SaveRole, MayChange
  <2> QED BY <1>f, <2>2, <2>4
<1>2. ASSUME NEW v \in Users, NEW role \in Roles, NEW b \in BOOLEAN, UpdateMember(u, v, role, b)
      PROVE  AccessIInv'
  <2> DEFINE request == [op |-> "member", target |-> v, role |-> role, active |-> b]
  <2>1. /\ request \in MemberRequest /\ request.op = "member" /\ request.role = role
        /\ request.target = v /\ request.active = b
    BY DEF MemberRequest
  <2>2. Prepare(u, request, Permissions(u)) BY <1>2 DEF UpdateMember
  <2> HIDE DEF request
  <2>3. ASSUME NEW t, t = [asks |-> request, held |-> Permissions(u), seen |-> users]
        PROVE  Sound(u, t)
    <3>1. t.asks = request /\ t.held = Permissions(u) /\ t.seen = users BY <1>t, <2>3
    <3>2. Administered(WithMember(v, role, b), policy)
      <4>1. PICK m : m = WithMember(v, role, b) OBVIOUS
      <4>2. /\ ActiveAdministrators(m) # {}
            /\ policy.enabled => policy.recovery \cap ActiveAdministrators(m) # {}
        BY <1>2, <4>1 DEF UpdateMember, LeavesAdministrators
      <4> QED BY <4>1, <4>2 DEF ActiveAdministrators, Administered
    <3>3. roles[role].perms \cup SeenPermissions(users, v) \subseteq Permissions(u)
      BY <1>2, <1>p DEF UpdateMember, Covers
    <3>4. MemberSound(t) BY <1>2, <2>1, <3>1, <3>2, <3>3 DEF UpdateMember, MemberSound
    <3> QED BY <2>1, <3>1, <3>4 DEF Sound
  <2>4. Fit(request, Permissions(u))
    BY <1>2, <1>p, <2>1, <2>3 DEF Requests, UpdateMember, MayChange
  <2> QED BY <1>f, <2>2, <2>4
<1>3. ASSUME NEW role \in Roles, NEW b \in BOOLEAN, NEW ids \in TeamMembers,
             SaveTeam(u, role, b, ids)
      PROVE  AccessIInv'
  <2> DEFINE row == [role |-> role, active |-> b, members |-> ids]
             request == [op |-> "team", team |-> row]
  <2>1. row \in TeamRow /\ row.role = role /\ row.members = ids
    BY AccessAssumption DEF TeamRow
  <2> HIDE DEF row
  <2>2. request \in TeamRequest /\ request.op = "team" /\ request.team = row
    BY <2>1 DEF TeamRequest
  <2>3. Prepare(u, request, Permissions(u)) BY <1>3 DEF SaveTeam, row
  <2> HIDE DEF request
  <2>4. ASSUME NEW t, t = [asks |-> request, held |-> Permissions(u), seen |-> users]
        PROVE  Sound(u, t)
    <3>1. t.asks = request /\ t.held = Permissions(u) BY <1>t, <2>4
    <3>2. TeamSound(t) BY <1>3, <2>1, <2>2, <3>1 DEF SaveTeam, TeamSound, MembersOnly
    <3> QED BY <2>2, <3>1, <3>2 DEF Sound
  <2>5. Fit(request, Permissions(u))
    BY <1>3, <1>p, <2>2, <2>4 DEF Requests, SaveTeam, MayChange
  <2> QED BY <1>f, <2>3, <2>5
<1>4. ASSUME DeleteTeam(u) PROVE AccessIInv'
  <2> DEFINE request == [op |-> "team", team |-> NoTeam]
  <2>2. request \in TeamRequest /\ request.op = "team" /\ request.team = NoTeam
    BY DEF TeamRequest
  <2>3. Prepare(u, request, Permissions(u)) BY <1>4 DEF DeleteTeam
  <2> HIDE DEF request
  <2>4. ASSUME NEW t, t = [asks |-> request, held |-> Permissions(u), seen |-> users]
        PROVE  Sound(u, t)
    <3>1. t.asks = request /\ t.held = Permissions(u) BY <1>t, <2>4
    <3>2. TeamSound(t) BY <1>4, <2>2, <3>1 DEF DeleteTeam, TeamSound
    <3> QED BY <2>2, <3>1, <3>2 DEF Sound
  <2>5. Fit(request, Permissions(u))
    BY <1>4, <1>p, <2>2, <2>4 DEF Requests, DeleteTeam, MayChange
  <2> QED BY <1>f, <2>3, <2>5
<1>5. ASSUME NEW v \in Users, NEW role \in Roles, CreateInvitation(u, v, role)
      PROVE  AccessIInv'
  <2> DEFINE request == [op |-> "invite", user |-> v, role |-> role]
  <2>1. request \in InviteRequest /\ request.op = "invite" BY DEF InviteRequest
  <2>2. Prepare(u, request, Permissions(u)) BY <1>5 DEF CreateInvitation
  <2> HIDE DEF request
  <2>3. ASSUME NEW t, t = [asks |-> request, held |-> Permissions(u), seen |-> users]
        PROVE  Sound(u, t)
    BY <1>t, <2>1, <2>3 DEF Sound
  <2>4. Fit(request, Permissions(u))
    BY <1>5, <1>p, <2>1, <2>3 DEF Requests, CreateInvitation, MayChange
  <2> QED BY <1>f, <2>2, <2>4
<1>i. \A i \in DOMAIN invitations : i \in Nat /\ invitations[i] \in Invitation
  BY LenProperties DEF AccessIInv, Tables
<1>6. ASSUME NEW i \in DOMAIN invitations, RevokeInvitation(u, i) PROVE AccessIInv'
  <2> DEFINE request == [op |-> "settle", invitation |-> i, status |-> "revoked"]
  <2>1. /\ request \in SettleRequest /\ request.op = "settle" /\ request.invitation = i
        /\ request.status = "revoked"
    BY <1>i DEF SettleRequest
  <2>2. Prepare(u, request, Permissions(u)) BY <1>6 DEF RevokeInvitation
  <2> HIDE DEF request
  <2>3. ASSUME NEW t, t = [asks |-> request, held |-> Permissions(u), seen |-> users]
        PROVE  Sound(u, t)
    <3>1. t.asks = request BY <1>t, <2>3
    <3>2. SettleSound(u, t) BY <1>6, <2>1, <3>1 DEF RevokeInvitation, SettleSound
    <3> QED BY <2>1, <3>1, <3>2 DEF Sound
  <2>4. Fit(request, Permissions(u))
    BY <1>6, <1>p, <2>1, <2>3 DEF Requests, RevokeInvitation, MayChange
  <2> QED BY <1>f, <2>2, <2>4
<1>7. ASSUME NEW i \in DOMAIN invitations, AcceptInvitation(u, i) PROVE AccessIInv'
  <2> DEFINE request == [op |-> "settle", invitation |-> i, status |-> "accepted"]
             own == Permissions(invitations[i].inviter)
  <2>1. /\ request \in SettleRequest /\ request.op = "settle" /\ request.invitation = i
        /\ request.status = "accepted"
    BY <1>i DEF SettleRequest
  <2>2. Prepare(u, request, own) BY <1>7 DEF AcceptInvitation
  <2>3. own \in SUBSET Perms
    <3>1. invitations[i].inviter \in Users BY <1>i DEF Invitation
    <3> QED BY <3>1, PermissionsTyped
  <2>4. Valid(i) /\ invitations[i].user = u /\ members[u] = NoMember
    BY <1>7 DEF AcceptInvitation
  <2>5. /\ invitations[i].status = "open" /\ RoleUnchanged(i)
        /\ roles[invitations[i].role].perms \subseteq own
    BY <2>4 DEF Valid
  <2> HIDE DEF request, own
  <2>6. ASSUME NEW t, t = [asks |-> request, held |-> own, seen |-> users]
        PROVE  Sound(u, t)
    <3>1. t.asks = request /\ t.held = own BY <1>t, <2>6
    <3>2. SettleSound(u, t) BY <2>1, <2>4, <2>5, <3>1 DEF SettleSound
    <3> QED BY <2>1, <3>1, <3>2 DEF Sound
  <2>7. Fit(request, own)
    BY <1>7, <2>1, <2>3, <2>6 DEF Requests, AcceptInvitation
  <2> QED BY <1>f, <2>2, <2>7
<1>8. ASSUME NEW b \in BOOLEAN, NEW ids \in SUBSET Users, SaveIdentityPolicy(u, b, ids)
      PROVE  AccessIInv'
  <2> DEFINE row == [enabled |-> b, recovery |-> ids]
             request == [op |-> "policy", policy |-> row]
  <2>1. row \in PolicyRow /\ row.enabled = b /\ row.recovery = ids BY DEF PolicyRow
  <2> HIDE DEF row
  <2>2. request \in PolicyRequest /\ request.op = "policy" /\ request.policy = row
    BY <2>1 DEF PolicyRequest
  <2>3. Prepare(u, request, Permissions(u)) BY <1>8 DEF SaveIdentityPolicy, row
  <2> HIDE DEF request
  <2>4. ASSUME NEW t, t = [asks |-> request, held |-> Permissions(u), seen |-> users]
        PROVE  Sound(u, t)
    <3>1. t.asks = request BY <1>t, <2>4
    <3>2. Administered(members, row)
      BY <1>8, <2>1 DEF SaveIdentityPolicy, Administered, ActiveAdministrators, AccessIInv
    <3>3. PolicySound(t) BY <2>2, <3>1, <3>2 DEF PolicySound
    <3> QED BY <2>2, <3>1, <3>3 DEF Sound
  <2>5. Fit(request, Permissions(u))
    BY <1>8, <1>p, <2>2, <2>4 DEF Requests, SaveIdentityPolicy, MayChange
  <2> QED BY <1>f, <2>3, <2>5
<1>9. ASSUME NEW v \in Users, NEW b \in BOOLEAN, NEW c \in BOOLEAN, LockCaller(u, v, b, c)
      PROVE  AccessIInv'
  <2> DEFINE request == [op |-> "user", target |-> v, active |-> b, global |-> c,
                         updated |-> FALSE]
  <2>1. /\ request \in UserRequest /\ request.op = "user" /\ request.target = v
        /\ request.updated = FALSE
    BY DEF UserRequest
  <2>2. PICK held : held = Permissions(u) /\ Prepare(u, request, held) BY <1>9 DEF LockCaller
  <2> HIDE DEF request
  <2>3. ASSUME NEW t, t = [asks |-> request, held |-> held, seen |-> users]
        PROVE  Sound(u, t)
    <3>1. t.asks = request BY <1>t, <2>3
    <3>2. UserSound(u, t) BY <1>9, <2>1, <3>1 DEF LockCaller, UserSound
    <3> QED BY <2>1, <3>1, <3>2 DEF Sound
  <2>4. /\ request \in Requests /\ held \in SUBSET Perms /\ ~Pending(u) /\ RowFree(u, u)
    BY <1>9, <1>p, <2>1, <2>2 DEF Requests, LockCaller, CallerLocked
  <2> QED BY <2>1, <2>2, <2>3, <2>4, PrepareKeeps
<1> QED BY <1>1, <1>2, <1>3, <1>4, <1>5, <1>6, <1>7, <1>8, <1>9 DEF Request

\* The target's row is locked too.
LEMMA UpdateTargetKeeps ==
  ASSUME AccessIInv, NEW u \in Users, UpdateTarget(u)
  PROVE  AccessIInv'
<1>1. /\ Pending(u) /\ tx[u].asks.op = "user" /\ RowFree(tx[u].asks.target, u)
      /\ tx' = [tx EXCEPT ![u].asks.updated = TRUE]
      /\ UNCHANGED <<users, organization>> /\ edits' = edits
  BY DEF UpdateTarget
<1>2. PICK t : t = tx[u] OBVIOUS
<1>3. PICK q : q = [t.asks EXCEPT !.updated = TRUE] OBVIOUS
<1>4. PICK s : s = [t EXCEPT !.asks = q] OBVIOUS
<1>5. tx' = [tx EXCEPT ![u] = s]
  BY <1>1, <1>2, <1>3, <1>4
<1>6. /\ t \in Transaction /\ t.asks \in UserRequest /\ UserSound(u, t) /\ t.asks.op = "user"
  BY <1>1, <1>2, Asking
<1>7. q \in UserRequest /\ q.op = "user" /\ q.target = t.asks.target
  BY <1>3, <1>6 DEF UserRequest
<1>8. s \in Transaction /\ s.asks = q /\ s.held = t.held /\ s.seen = t.seen
  BY <1>4, <1>6, <1>7 DEF Transaction, Requests
<1>9. /\ tx' \in [Users -> Transaction \cup {NoTx}] /\ tx'[u] = s
      /\ \A w \in Users \ {u} : tx'[w] = tx[w]
  BY <1>5, <1>8 DEF AccessIInv, Tables
<1>10. Tables' BY <1>1, <1>9 DEF AccessIInv, Tables, organization
<1>11. LocksHold'
  <2>1. ASSUME NEW v \in Users, NEW w \in Users, Pending(v)', Pending(w)',
               tx'[v].asks.op # "user", tx'[w].asks.op # "user"
        PROVE  v = w
    <3>1. v # u /\ w # u BY <1>7, <1>8, <1>9, <2>1
    <3> QED BY <1>9, <2>1, <3>1 DEF AccessIInv, LocksHold, Pending
  <2>2. ASSUME NEW v \in Users, Prepared(v, "user")', NEW w \in Users \ {v}, Holds(w, v)'
        PROVE  FALSE
    <3>0. Prepared(v, "user")
      <4>1. CASE v = u BY <1>1, <4>1 DEF Prepared
      <4>2. CASE v # u BY <1>9, <2>2, <4>2 DEF Prepared, Pending
      <4> QED BY <4>1, <4>2
    <3>1. CASE w = u
      <4>1. t.asks.target = v BY <1>7, <1>8, <1>9, <2>2, <3>1 DEF Holds
      <4>2. Holds(v, v) BY <3>0 DEF Holds, Prepared
      <4> QED BY <1>1, <1>2, <2>2, <3>1, <4>1, <4>2 DEF RowFree
    <3>2. CASE w # u
      <4>1. Holds(w, v) BY <1>9, <2>2, <3>2 DEF Holds, Pending
      <4> QED BY <2>2, <3>0, <4>1 DEF AccessIInv, LocksHold, RowFree
    <3> QED BY <3>1, <3>2
  <2> QED BY <2>1, <2>2 DEF LocksHold, RowFree
<1>12. AllSound'
  <2> SUFFICES ASSUME NEW w \in Users, NEW r, Pending(w)', tx'[w] = r
               PROVE  Sound(w, r)'
    BY DEF AllSound
  <2>1. Sound(w, r)
    <3>1. CASE w = u
      <4>1. r = s BY <1>9, <3>1
      <4>2. UserSound(u, s) BY <1>6, <1>7, <1>8 DEF UserSound
      <4> QED BY <1>7, <1>8, <3>1, <4>1, <4>2 DEF Sound
    <3>2. CASE w # u BY <1>9, <3>2 DEF AccessIInv, AllSound, Pending
    <3> QED BY <3>1, <3>2
  <2>2. r.asks.op = "user" => UserSound(w, r)' BY <1>1, <2>1 DEF Sound, UserSound
  <2> QED BY <1>1, <2>1, <2>2, SoundStays
<1> QED BY <1>1, <1>10, <1>11, <1>12, TablesStay DEF AccessIInv

-----------------------------------------------------------------------------
(* Transactions end.                                                       *)

\* The locks that are left.
LEMMA EndKeepsLocks ==
  ASSUME AccessIInv, NEW u \in Users, Pending(u), tx' = [tx EXCEPT ![u] = NoTx]
  PROVE  /\ tx' \in [Users -> Transaction \cup {NoTx}] /\ LocksHold' /\ tx'[u] = NoTx
         /\ \A w \in Users : Pending(w)' => Pending(w) /\ w # u /\ tx'[w] = tx[w]
<1>1. /\ tx' \in [Users -> Transaction \cup {NoTx}] /\ tx'[u] = NoTx
      /\ \A w \in Users \ {u} : tx'[w] = tx[w]
  BY DEF AccessIInv, Tables
<1>2. \A w \in Users : Pending(w)' => Pending(w) /\ w # u /\ tx'[w] = tx[w]
  BY <1>1 DEF Pending
<1>3. \A v, w \in Users : Holds(w, v)' => Holds(w, v) BY <1>2 DEF Holds, Pending
<1>4. \A v \in Users : Prepared(v, "user")' => Prepared(v, "user")
  BY <1>2 DEF Prepared, Pending
<1>5. LocksHold' BY <1>2, <1>3, <1>4 DEF AccessIInv, LocksHold, RowFree
<1> QED BY <1>1, <1>2, <1>5

LEMMA RollbackKeeps ==
  ASSUME AccessIInv, NEW u \in Users, Rollback(u)
  PROVE  AccessIInv'
<1>1. /\ Pending(u) /\ tx' = [tx EXCEPT ![u] = NoTx] /\ UNCHANGED <<users, organization>>
      /\ edits' = edits
  BY DEF Rollback
<1>2. /\ tx' \in [Users -> Transaction \cup {NoTx}] /\ LocksHold'
      /\ \A w \in Users : Pending(w)' => Pending(w) /\ tx'[w] = tx[w]
  BY <1>1, EndKeepsLocks
<1>3. Tables' BY <1>1, <1>2 DEF AccessIInv, Tables, organization
<1>4. AllSound'
  <2> SUFFICES ASSUME NEW w \in Users, NEW t, Pending(w)', tx'[w] = t
               PROVE  Sound(w, t)'
    BY DEF AllSound
  <2>1. Sound(w, t) BY <1>2 DEF AccessIInv, AllSound
  <2>2. t.asks.op = "user" => UserSound(w, t)' BY <1>1, <2>1 DEF Sound, UserSound
  <2> QED BY <1>1, <2>1, <2>2, SoundStays
<1> QED BY <1>1, <1>2, <1>3, <1>4, TablesStay DEF AccessIInv

LEMMA ExpiryKeeps ==
  ASSUME AccessIInv, NEW i \in DOMAIN invitations, InvitationExpires(i)
  PROVE  AccessIInv'
<1>1. /\ \A u \in Users : ~(Prepared(u, "settle") /\ tx[u].asks.invitation = i)
      /\ invitations' = [invitations EXCEPT ![i].status = "expired"]
      /\ users' = users /\ members' = members /\ roles' = roles /\ team' = team
      /\ policy' = policy /\ tx' = tx /\ edits' = edits
  BY DEF InvitationExpires
<1>2. PICK n : n = [invitations[i] EXCEPT !.status = "expired"] OBVIOUS
<1>3. invitations' = [invitations EXCEPT ![i] = n] BY <1>1, <1>2
<1>4. \A j \in DOMAIN invitations : j \in Nat /\ invitations[j] \in Invitation
  BY LenProperties DEF AccessIInv, Tables
<1>5. /\ n \in Invitation /\ n.role = invitations[i].role /\ n.perms = invitations[i].perms
      /\ n.revision = invitations[i].revision
  BY <1>2, <1>4 DEF Invitation
<1>6. invitations' \in Seq(Invitation) BY <1>3, <1>5, ExceptSeq DEF AccessIInv, Tables
<1>7. DOMAIN invitations' = DOMAIN invitations /\ invitations'[i] = n
      /\ \A j \in DOMAIN invitations \ {i} : invitations'[j] = invitations[j]
  BY <1>3
<1>8. Tables' BY <1>1, <1>6 DEF AccessIInv, Tables
<1>9. Known' /\ Administered(members, policy)' /\ InstallationAdministered'
  BY <1>1 DEF AccessIInv, Known, Administered, AdministratorIn, InstallationAdministered
<1>10. LocksHold' BY <1>1 DEF AccessIInv, LocksHold, Pending, Prepared, RowFree, Holds
<1>11. TermsKept'
  <2>1. \A j \in DOMAIN invitations :
          /\ invitations'[j].role = invitations[j].role
          /\ invitations'[j].perms = invitations[j].perms
          /\ invitations'[j].revision = invitations[j].revision
    BY <1>5, <1>7
  <2> QED BY <1>1, <1>7, <2>1 DEF AccessIInv, TermsKept
<1>12. AllSound'
  <2> SUFFICES ASSUME NEW w \in Users, NEW t, Pending(w)', tx'[w] = t
               PROVE  Sound(w, t)'
    BY DEF AllSound
  <2>1. Pending(w) /\ tx[w] = t BY <1>1 DEF Pending
  <2>2. Sound(w, t) BY <2>1 DEF AccessIInv, AllSound
  <2>3. t.asks.op = "settle" => SettleSound(w, t)'
    <3> SUFFICES ASSUME t.asks.op = "settle" PROVE SettleSound(w, t)'
      OBVIOUS
    <3>1. t.asks.invitation # i BY <1>1, <2>1 DEF Prepared
    <3>2. SettleSound(w, t) BY <2>2 DEF Sound
    <3> QED BY <1>1, <1>7, <3>1, <3>2 DEF SettleSound, RoleUnchanged
  <2>4. t.asks.op = "role" => RoleSound(t)' BY <1>1, <2>2 DEF Sound, RoleSound
  <2>5. t.asks.op = "member" => MemberSound(t)'
    BY <1>1, <2>2 DEF Sound, MemberSound, Administered, AdministratorIn, WithMember,
                      SeenPermissions, TeamGrants
  <2>6. t.asks.op = "team" => TeamSound(t)' BY <1>1, <2>2 DEF Sound, TeamSound
  <2>7. t.asks.op = "policy" => PolicySound(t)'
    BY <1>1, <2>2 DEF Sound, PolicySound, Administered, AdministratorIn
  <2>8. t.asks.op = "user" => UserSound(w, t)' BY <1>1, <2>2 DEF Sound, UserSound
  <2> QED BY <2>3, <2>4, <2>5, <2>6, <2>7, <2>8 DEF Sound
<1> QED BY <1>8, <1>9, <1>10, <1>11, <1>12 DEF AccessIInv

\* What is left to show of a commit that held the lock of the organization.
LEMMA LockedEnds ==
  ASSUME AccessIInv, NEW u \in Users, Pending(u), tx[u].asks.op # "user", Ends(u),
         \A v \in Users : /\ users[v].known => users'[v].known
                          /\ users[v].active => users'[v].active
                          /\ users[v].global => users'[v].global
  PROVE  /\ tx' \in [Users -> Transaction \cup {NoTx}] /\ edits' \in Nat
         /\ InstallationAdministered' /\ LocksHold' /\ AllSound'
<1>1. tx' = [tx EXCEPT ![u] = NoTx] /\ edits' = edits + 1 BY DEF Ends
<1>2. /\ tx' \in [Users -> Transaction \cup {NoTx}] /\ LocksHold'
      /\ \A w \in Users : Pending(w)' => Pending(w) /\ w # u /\ tx'[w] = tx[w]
  BY <1>1, EndKeepsLocks
<1>3. edits' \in Nat BY <1>1 DEF AccessIInv, Tables
<1>4. InstallationAdministered' BY DEF AccessIInv, InstallationAdministered
<1>5. AllSound'
  <2> SUFFICES ASSUME NEW w \in Users, NEW t, Pending(w)', tx'[w] = t
               PROVE  Sound(w, t)'
    BY DEF AllSound
  <2>1. Pending(w) /\ w # u /\ tx[w] = t BY <1>2
  <2>2. t.asks.op = "user" BY <2>1 DEF AccessIInv, LocksHold
  <2>3. t.asks \in UserRequest /\ UserSound(w, t) BY <2>1, <2>2, Asking
  <2>4. t.asks.target \in Users BY <2>3 DEF UserRequest
  <2>5. UserSound(w, t)' BY <2>3, <2>4 DEF UserSound
  <2> QED BY <2>2, <2>5 DEF Sound
<1> QED BY <1>2, <1>3, <1>4, <1>5

LEMMA CommitRoleKeeps ==
  ASSUME AccessIInv, NEW u \in Users, CommitRole(u)
  PROVE  AccessIInv'
<1>1. PICK t : t = tx[u] OBVIOUS
<1>2. PICK role : role = t.asks.role OBVIOUS
<1>3. /\ Pending(u) /\ tx[u].asks.op = "role" /\ Ends(u)
      /\ users' = users /\ members' = members /\ team' = team /\ invitations' = invitations
      /\ policy' = policy
  BY DEF CommitRole, Prepared
<1>4. t \in Transaction /\ t.asks \in RoleRequest /\ RoleSound(t) BY <1>1, <1>3, Asking
<1>5. role \in Roles /\ t.asks.perms \in SUBSET Perms BY <1>2, <1>4 DEF RoleRequest, Roles
<1>6. PICK row : row = [perms |-> t.asks.perms, revision |-> roles[role].revision + 1] OBVIOUS
<1>7. roles' = [roles EXCEPT ![role] = row] BY <1>1, <1>2, <1>6 DEF CommitRole
<1>8. roles \in [Roles -> RoleRow] BY DEF AccessIInv, Tables
<1>9. /\ roles[role].revision \in Nat /\ row.revision = roles[role].revision + 1
      /\ row \in RoleRow
  <2>1. roles[role].revision \in 1..MaxRevision BY <1>5, <1>8 DEF RoleRow
  <2>2. roles[role].revision < MaxRevision BY <1>2, <1>4 DEF RoleSound
  <2>3. roles[role].revision + 1 \in 1..MaxRevision BY <2>1, <2>2, AccessAssumption
  <2> QED BY <1>5, <1>6, <2>1, <2>3 DEF RoleRow
<1>10. /\ roles' \in [Roles -> RoleRow] /\ roles'[role] = row
       /\ \A r \in Roles \ {role} : roles'[r] = roles[r]
  BY <1>5, <1>7, <1>8, <1>9
<1>11. /\ tx' \in [Users -> Transaction \cup {NoTx}] /\ edits' \in Nat
       /\ InstallationAdministered' /\ LocksHold' /\ AllSound'
  BY <1>3, LockedEnds
<1>12. Tables' BY <1>3, <1>10, <1>11 DEF AccessIInv, Tables
<1>13. Known' /\ Administered(members, policy)'
  BY <1>3 DEF AccessIInv, Known, Administered, AdministratorIn
<1>14. TermsKept'
  <2> SUFFICES ASSUME NEW i \in DOMAIN invitations
               PROVE  /\ invitations[i].revision <= roles'[invitations[i].role].revision
                      /\ invitations[i].revision = roles'[invitations[i].role].revision
                           => invitations[i].perms = roles'[invitations[i].role].perms
    BY <1>3 DEF TermsKept
  <2>1. invitations[i] \in Invitation BY LenProperties DEF AccessIInv, Tables
  <2>2. invitations[i].role \in Roles /\ invitations[i].revision \in Nat
    BY <2>1, AccessAssumption DEF Invitation
  <2>3. /\ invitations[i].revision <= roles[invitations[i].role].revision
        /\ invitations[i].revision = roles[invitations[i].role].revision
             => invitations[i].perms = roles[invitations[i].role].perms
    BY DEF AccessIInv, TermsKept
  <2>4. CASE invitations[i].role = role BY <1>9, <1>10, <2>2, <2>3, <2>4
  <2>5. CASE invitations[i].role # role BY <1>10, <2>2, <2>3, <2>5
  <2> QED BY <2>4, <2>5
<1> QED BY <1>11, <1>12, <1>13, <1>14 DEF AccessIInv

LEMMA CommitMemberKeeps ==
  ASSUME AccessIInv, NEW u \in Users, CommitMember(u)
  PROVE  AccessIInv'
<1>1. PICK t : t = tx[u] OBVIOUS
<1>2. PICK v : v = t.asks.target OBVIOUS
<1>3. /\ Pending(u) /\ tx[u].asks.op = "member" /\ Ends(u)
      /\ users' = users /\ roles' = roles /\ team' = team /\ invitations' = invitations
      /\ policy' = policy
  BY DEF CommitMember, Prepared
<1>4. t \in Transaction /\ t.asks \in MemberRequest /\ MemberSound(t) BY <1>1, <1>3, Asking
<1>5. members' = WithMember(v, t.asks.role, t.asks.active) BY <1>1, <1>2 DEF CommitMember
<1>6. /\ v \in Users /\ [role |-> t.asks.role, active |-> t.asks.active] \in Membership
      /\ members \in [Users -> Membership \cup {NoMember}]
  BY <1>2, <1>4 DEF MemberRequest, Membership, AccessIInv, Tables
<1>7. /\ members' \in [Users -> Membership \cup {NoMember}] /\ members'[v] # NoMember
      /\ \A w \in Users \ {v} : members'[w] = members[w]
  BY <1>5, <1>6, NoMemberAssumption DEF WithMember
<1>8. members[v] # NoMember BY <1>2, <1>4 DEF MemberSound
<1>11. /\ tx' \in [Users -> Transaction \cup {NoTx}] /\ edits' \in Nat
       /\ InstallationAdministered' /\ LocksHold' /\ AllSound'
  BY <1>3, LockedEnds
<1>12. Tables' BY <1>3, <1>7, <1>11 DEF AccessIInv, Tables
<1>13. Known'
  <2>1. \A w \in Users : members'[w] # NoMember <=> members[w] # NoMember BY <1>6, <1>7, <1>8
  <2>2. \A w \in Users : users'[w].active \/ users'[w].global \/ members'[w] # NoMember
                           => users'[w].known
    BY <1>3, <2>1 DEF AccessIInv, Known
  <2>3. ASSUME team' # NoTeam, NEW w \in team'.members PROVE members'[w] # NoMember
    <3>1. team'.members \subseteq Users BY <1>12, <2>3 DEF Tables, TeamRow
    <3> QED BY <1>3, <2>1, <2>3, <3>1 DEF AccessIInv, Known
  <2> QED BY <2>2, <2>3 DEF Known
<1>14. Administered(members, policy)'
  <2>1. PICK m : m = WithMember(v, t.asks.role, t.asks.active) OBVIOUS
  <2>2. Administered(m, policy) BY <1>2, <1>4, <2>1 DEF MemberSound
  <2>3. members' = m BY <1>5, <2>1
  <2> QED BY <1>3, <2>2, <2>3 DEF Administered, AdministratorIn
<1>15. TermsKept' BY <1>3 DEF AccessIInv, TermsKept
<1> QED BY <1>11, <1>12, <1>13, <1>14, <1>15 DEF AccessIInv

LEMMA CommitTeamKeeps ==
  ASSUME AccessIInv, NEW u \in Users, CommitTeam(u)
  PROVE  AccessIInv'
<1>1. PICK t : t = tx[u] OBVIOUS
<1>3. /\ Pending(u) /\ tx[u].asks.op = "team" /\ Ends(u) /\ team' = t.asks.team
      /\ users' = users /\ members' = members /\ roles' = roles
      /\ invitations' = invitations /\ policy' = policy
  BY <1>1 DEF CommitTeam, Prepared
<1>4. t.asks \in TeamRequest /\ TeamSound(t) BY <1>1, <1>3, Asking
<1>5. t.asks.team \in TeamRow \cup {NoTeam} BY <1>4 DEF TeamRequest
<1>11. /\ tx' \in [Users -> Transaction \cup {NoTx}] /\ edits' \in Nat
       /\ InstallationAdministered' /\ LocksHold' /\ AllSound'
  BY <1>3, LockedEnds
<1>12. Tables' BY <1>3, <1>5, <1>11 DEF AccessIInv, Tables
<1>13. Known' BY <1>3, <1>4 DEF AccessIInv, Known, TeamSound
<1>14. Administered(members, policy)' BY <1>3 DEF AccessIInv, Administered, AdministratorIn
<1>15. TermsKept' BY <1>3 DEF AccessIInv, TermsKept
<1> QED BY <1>11, <1>12, <1>13, <1>14, <1>15 DEF AccessIInv

LEMMA CommitPolicyKeeps ==
  ASSUME AccessIInv, NEW u \in Users, CommitPolicy(u)
  PROVE  AccessIInv'
<1>1. PICK t : t = tx[u] OBVIOUS
<1>3. /\ Pending(u) /\ tx[u].asks.op = "policy" /\ Ends(u) /\ policy' = t.asks.policy
      /\ users' = users /\ members' = members /\ roles' = roles /\ team' = team
      /\ invitations' = invitations
  BY <1>1 DEF CommitPolicy, Prepared
<1>4. t.asks \in PolicyRequest /\ PolicySound(t) BY <1>1, <1>3, Asking
<1>5. t.asks.policy \in PolicyRow BY <1>4 DEF PolicyRequest
<1>11. /\ tx' \in [Users -> Transaction \cup {NoTx}] /\ edits' \in Nat
       /\ InstallationAdministered' /\ LocksHold' /\ AllSound'
  BY <1>3, LockedEnds
<1>12. Tables' BY <1>3, <1>5, <1>11 DEF AccessIInv, Tables
<1>13. Known' BY <1>3 DEF AccessIInv, Known
<1>14. Administered(members, policy)'
  BY <1>3, <1>4 DEF PolicySound, Administered, AdministratorIn
<1>15. TermsKept' BY <1>3 DEF AccessIInv, TermsKept
<1> QED BY <1>11, <1>12, <1>13, <1>14, <1>15 DEF AccessIInv

LEMMA CommitInvitationKeeps ==
  ASSUME AccessIInv, NEW u \in Users, CommitInvitation(u)
  PROVE  AccessIInv'
<1>1. PICK t : t = tx[u] OBVIOUS
<1>2. PICK role : role = t.asks.role OBVIOUS
<1>3. /\ Pending(u) /\ tx[u].asks.op = "invite" /\ Ends(u)
      /\ users' = users /\ members' = members /\ roles' = roles /\ team' = team
      /\ policy' = policy
  BY DEF CommitInvitation, Prepared
<1>4. t.asks \in InviteRequest BY <1>1, <1>3, Asking
<1>5. PICK n : n = [user |-> t.asks.user, role |-> role, revision |-> roles[role].revision,
                    inviter |-> u, perms |-> roles[role].perms, status |-> "open"]
  OBVIOUS
<1>6. invitations' = Append(invitations, n) BY <1>1, <1>2, <1>5 DEF CommitInvitation
<1>7. t.asks.user \in Users /\ role \in Roles BY <1>2, <1>4 DEF InviteRequest
<1>8. roles[role].revision \in 1..MaxRevision /\ roles[role].perms \in SUBSET Perms
  BY <1>7 DEF AccessIInv, Tables, RoleRow
<1>9. /\ n \in Invitation /\ n.role = role /\ n.revision = roles[role].revision
      /\ n.perms = roles[role].perms
  BY <1>5, <1>7, <1>8 DEF Invitation
<1>10. invitations \in Seq(Invitation) BY DEF AccessIInv, Tables
<1>11. /\ tx' \in [Users -> Transaction \cup {NoTx}] /\ edits' \in Nat
       /\ InstallationAdministered' /\ LocksHold' /\ AllSound'
  BY <1>3, LockedEnds
<1>12. Tables' BY <1>3, <1>6, <1>9, <1>10, <1>11, AppendProperties DEF AccessIInv, Tables
<1>13. Known' BY <1>3 DEF AccessIInv, Known
<1>14. Administered(members, policy)' BY <1>3 DEF AccessIInv, Administered, AdministratorIn
<1>15. TermsKept'
  <2> SUFFICES ASSUME NEW i \in DOMAIN invitations'
               PROVE  /\ invitations'[i].revision <= roles[invitations'[i].role].revision
                      /\ invitations'[i].revision = roles[invitations'[i].role].revision
                           => invitations'[i].perms = roles[invitations'[i].role].perms
    BY <1>3 DEF TermsKept
  <2>1. /\ Len(invitations) \in Nat /\ DOMAIN invitations = 1..Len(invitations)
        /\ DOMAIN invitations' = 1..(Len(invitations) + 1)
        /\ \A j \in 1..Len(invitations) : invitations'[j] = invitations[j]
        /\ invitations'[Len(invitations) + 1] = n
    BY <1>6, <1>9, <1>10, AppendProperties, LenProperties
  <2>2. CASE i \in DOMAIN invitations
    <3>1. invitations'[i] = invitations[i] BY <2>1, <2>2
    <3>2. /\ invitations[i].revision <= roles[invitations[i].role].revision
          /\ invitations[i].revision = roles[invitations[i].role].revision
               => invitations[i].perms = roles[invitations[i].role].perms
      BY <2>2 DEF AccessIInv, TermsKept
    <3> QED BY <3>1, <3>2
  <2>3. CASE i \notin DOMAIN invitations
    <3>1. invitations'[i] = n BY <2>1, <2>3
    <3>2. roles[role].revision <= roles[role].revision BY <1>8, AccessAssumption
    <3> QED BY <1>9, <3>1, <3>2
  <2> QED BY <2>2, <2>3
<1> QED BY <1>11, <1>12, <1>13, <1>14, <1>15 DEF AccessIInv

LEMMA CommitSettledKeeps ==
  ASSUME AccessIInv, NEW u \in Users, CommitSettled(u)
  PROVE  AccessIInv'
<1>1. PICK t : t = tx[u] OBVIOUS
<1>2. PICK i : i = t.asks.invitation OBVIOUS
<1>3. /\ Pending(u) /\ tx[u].asks.op = "settle" /\ Ends(u)
      /\ roles' = roles /\ team' = team /\ policy' = policy
  BY DEF CommitSettled, Prepared
<1>4. t.asks \in SettleRequest /\ SettleSound(u, t) BY <1>1, <1>3, Asking
<1>5. /\ i \in DOMAIN invitations /\ t.asks.status \in {"accepted", "revoked"}
      /\ t.asks.status = "accepted" => members[u] = NoMember
  BY <1>2, <1>4 DEF SettleRequest, SettleSound
<1>6. /\ invitations \in Seq(Invitation) /\ invitations[i] \in Invitation
      /\ users \in [Users -> UserRow] /\ members \in [Users -> Membership \cup {NoMember}]
  BY <1>5, LenProperties DEF AccessIInv, Tables
<1>7. PICK n : n = [invitations[i] EXCEPT !.status = t.asks.status] OBVIOUS
<1>8. invitations' = [invitations EXCEPT ![i] = n] BY <1>1, <1>2, <1>7 DEF CommitSettled
<1>9. /\ n \in Invitation /\ n.role = invitations[i].role /\ n.perms = invitations[i].perms
      /\ n.revision = invitations[i].revision
  BY <1>5, <1>6, <1>7 DEF Invitation
<1>10. /\ invitations' \in Seq(Invitation) /\ DOMAIN invitations' = DOMAIN invitations
       /\ invitations'[i] = n
       /\ \A j \in DOMAIN invitations \ {i} : invitations'[j] = invitations[j]
  BY <1>5, <1>6, <1>8, <1>9, ExceptSeq
<1>11. /\ members' \in [Users -> Membership \cup {NoMember}]
       /\ \A w \in Users \ {u} : members'[w] = members[w]
       /\ t.asks.status # "accepted" => members'[u] = members[u]
       /\ t.asks.status = "accepted" => members'[u] # NoMember
  <2>1. PICK m : m = [role |-> invitations[i].role, active |-> TRUE] OBVIOUS
  <2>2. m \in Membership
    <3>1. invitations[i].role \in Roles BY <1>6 DEF Invitation
    <3> QED BY <2>1, <3>1 DEF Membership
  <2>3. members' = IF t.asks.status = "accepted" THEN [members EXCEPT ![u] = m] ELSE members
    BY <1>1, <1>2, <2>1 DEF CommitSettled, WithMember
  <2> QED BY <1>6, <2>2, <2>3, NoMemberAssumption
<1>12. /\ users' \in [Users -> UserRow]
       /\ \A w \in Users \ {u} : users'[w] = users[w]
       /\ users'[u] = users[u] \/ (users'[u].known /\ users'[u].active
                                     /\ users'[u].global = users[u].global)
       /\ t.asks.status = "accepted" => users'[u].known
  <2>1. PICK r : r = [[users[u] EXCEPT !.known = TRUE] EXCEPT !.active = TRUE] OBVIOUS
  <2>2. r \in UserRow /\ r.known /\ r.active /\ r.global = users[u].global
    BY <1>6, <2>1 DEF UserRow
  <2>3. users' = IF t.asks.status = "accepted" /\ ~users[u].known
                   THEN [users EXCEPT ![u] = r] ELSE users
    <3>1. PICK known : known = [users EXCEPT ![u] = [users[u] EXCEPT !.known = TRUE]] OBVIOUS
    <3>2. known[u] = [users[u] EXCEPT !.known = TRUE] BY <1>6, <3>1
    <3>3. [known EXCEPT ![u].active = TRUE] = [users EXCEPT ![u] = r]
      BY <1>6, <2>1, <3>1, <3>2
    <3>4. [users EXCEPT ![u].known = TRUE, ![u].active = TRUE]
            = [known EXCEPT ![u].active = TRUE]
      BY <3>1
    <3> QED BY <1>1, <3>3, <3>4 DEF CommitSettled
  <2> QED BY <1>6, <2>2, <2>3
<1>13. /\ tx' \in [Users -> Transaction \cup {NoTx}] /\ edits' \in Nat
       /\ InstallationAdministered' /\ LocksHold' /\ AllSound'
  <2>1. \A v \in Users : /\ users[v].known => users'[v].known
                         /\ users[v].active => users'[v].active
                         /\ users[v].global => users'[v].global
    BY <1>12
  <2> QED BY <1>3, <2>1, LockedEnds
<1>14. Tables' BY <1>3, <1>10, <1>11, <1>12, <1>13 DEF AccessIInv, Tables
<1>15. Known'
  <2>1. ASSUME NEW w \in Users, users'[w].active \/ users'[w].global \/ members'[w] # NoMember
        PROVE  users'[w].known
    <3>1. users[w].active \/ users[w].global \/ members[w] # NoMember => users[w].known
      BY DEF AccessIInv, Known
    <3> QED BY <1>11, <1>12, <2>1, <3>1
  <2>2. ASSUME team' # NoTeam, NEW w \in team'.members PROVE members'[w] # NoMember
    <3>1. w \in Users BY <1>14, <2>2 DEF Tables, TeamRow
    <3>2. members[w] # NoMember BY <1>3, <2>2 DEF AccessIInv, Known
    <3> QED BY <1>11, <3>1, <3>2
  <2> QED BY <2>1, <2>2 DEF Known
<1>16. Administered(members, policy)'
  <2>1. ASSUME NEW w \in Users, AdministratorIn(members, w) PROVE AdministratorIn(members', w)
    <3>1. members'[w] = members[w] BY <1>5, <1>11, <2>1 DEF AdministratorIn
    <3> QED BY <2>1, <3>1 DEF AdministratorIn
  <2>2. policy.recovery \subseteq Users BY DEF AccessIInv, Tables, PolicyRow
  <2>3. Administered(members, policy) BY DEF AccessIInv
  <2>4. Administered(members', policy) BY <2>1, <2>2, <2>3 DEF Administered
  <2> QED BY <1>3, <2>4 DEF Administered, AdministratorIn
<1>17. TermsKept'
  <2>1. \A j \in DOMAIN invitations :
          /\ invitations'[j].role = invitations[j].role
          /\ invitations'[j].perms = invitations[j].perms
          /\ invitations'[j].revision = invitations[j].revision
    BY <1>9, <1>10
  <2> QED BY <1>3, <1>10, <2>1 DEF AccessIInv, TermsKept
<1> QED BY <1>13, <1>14, <1>15, <1>16, <1>17 DEF AccessIInv

\* The caller of another such transaction is not the target: its row was locked.
LEMMA CommitUserKeeps ==
  ASSUME AccessIInv, NEW u \in Users, CommitUser(u)
  PROVE  AccessIInv'
<1>1. PICK t : t = tx[u] OBVIOUS
<1>2. PICK v : v = t.asks.target OBVIOUS
<1>3. /\ Pending(u) /\ tx[u].asks.op = "user" /\ tx[u].asks.updated
      /\ tx' = [tx EXCEPT ![u] = NoTx] /\ edits' = edits + 1
      /\ UNCHANGED organization
  BY DEF CommitUser, Prepared, Ends
<1>4. t.asks \in UserRequest /\ UserSound(u, t) BY <1>1, <1>3, Asking
<1>5. v \in Users /\ v # u /\ users[u].active /\ users[u].global /\ users[v].known
  BY <1>2, <1>4 DEF UserRequest, UserSound
<1>6. users \in [Users -> UserRow] BY DEF AccessIInv, Tables
<1>7. PICK r : r = [[users[v] EXCEPT !.active = t.asks.active] EXCEPT !.global = t.asks.global]
  OBVIOUS
<1>8. r \in UserRow /\ r.known
  <2>1. t.asks.active \in BOOLEAN /\ t.asks.global \in BOOLEAN BY <1>4 DEF UserRequest
  <2> QED BY <1>5, <1>6, <1>7, <2>1 DEF UserRow
<1>9. users' = [users EXCEPT ![v] = r]
  <2>1. PICK some : some = [users EXCEPT ![v] = [users[v] EXCEPT !.active = t.asks.active]]
    OBVIOUS
  <2>2. some[v] = [users[v] EXCEPT !.active = t.asks.active] BY <1>5, <1>6, <2>1
  <2>3. [some EXCEPT ![v].global = t.asks.global] = [users EXCEPT ![v] = r]
    BY <1>5, <1>6, <1>7, <2>1, <2>2
  <2>4. [users EXCEPT ![v].active = t.asks.active, ![v].global = t.asks.global]
          = [some EXCEPT ![v].global = t.asks.global]
    BY <2>1
  <2> QED BY <1>1, <1>2, <2>3, <2>4 DEF CommitUser
<1>10. /\ users' \in [Users -> UserRow] /\ users'[v] = r
       /\ \A w \in Users \ {v} : users'[w] = users[w]
  BY <1>5, <1>6, <1>8, <1>9
<1>11. /\ tx' \in [Users -> Transaction \cup {NoTx}] /\ LocksHold'
       /\ \A w \in Users : Pending(w)' => Pending(w) /\ w # u /\ tx'[w] = tx[w]
  BY <1>3, EndKeepsLocks
<1>12. Tables' BY <1>3, <1>10, <1>11 DEF AccessIInv, Tables, organization
<1>13. Known'
  <2>1. ASSUME NEW w \in Users, users'[w].active \/ users'[w].global \/ members'[w] # NoMember
        PROVE  users'[w].known
    BY <1>3, <1>8, <1>10, <2>1 DEF AccessIInv, Known, organization
  <2> QED BY <1>3, <2>1 DEF AccessIInv, Known, organization
<1>14. InstallationAdministered' BY <1>5, <1>10 DEF InstallationAdministered
<1>15. Administered(members, policy)' /\ TermsKept'
  BY <1>3 DEF AccessIInv, Administered, AdministratorIn, TermsKept, organization
<1>16. AllSound'
  <2> SUFFICES ASSUME NEW w \in Users, NEW s, Pending(w)', tx'[w] = s
               PROVE  Sound(w, s)'
    BY DEF AllSound
  <2>1. Pending(w) /\ w # u /\ tx[w] = s BY <1>11
  <2>2. Sound(w, s) BY <2>1 DEF AccessIInv, AllSound
  <2>3. s.asks.op = "user" => UserSound(w, s)'
    <3> SUFFICES ASSUME s.asks.op = "user" PROVE UserSound(w, s)'
      OBVIOUS
    <3>1. s.asks \in UserRequest /\ UserSound(w, s) BY <2>1, Asking
    <3>2. s.asks.target \in Users BY <3>1 DEF UserRequest
    <3>3. w # v
      <4>1. Prepared(w, "user") BY <2>1 DEF Prepared
      <4>2. RowFree(w, w) BY <4>1 DEF AccessIInv, LocksHold
      <4>3. ~Holds(u, w) BY <2>1, <4>2 DEF RowFree
      <4> QED BY <1>1, <1>2, <1>3, <4>3 DEF Holds
    <3> QED BY <1>8, <1>10, <3>1, <3>2, <3>3 DEF UserSound
  <2> QED BY <1>3, <2>2, <2>3, SoundStays
<1> QED BY <1>11, <1>12, <1>13, <1>14, <1>15, <1>16 DEF AccessIInv

LEMMA StutterKeeps ==
  ASSUME AccessIInv, UNCHANGED accessVars
  PROVE  AccessIInv'
<1>1. /\ UNCHANGED <<users, organization>> /\ tx' = tx /\ edits' = edits
  BY DEF accessVars, organization
<1>2. Tables' BY <1>1 DEF AccessIInv, Tables, organization
<1>3. LocksHold' BY <1>1 DEF AccessIInv, LocksHold, Pending, Prepared, RowFree, Holds
<1>4. AllSound'
  <2> SUFFICES ASSUME NEW w \in Users, NEW t, Pending(w)', tx'[w] = t
               PROVE  Sound(w, t)'
    BY DEF AllSound
  <2>1. Sound(w, t) BY <1>1 DEF AccessIInv, AllSound, Pending
  <2>2. t.asks.op = "user" => UserSound(w, t)' BY <1>1, <2>1 DEF Sound, UserSound
  <2> QED BY <1>1, <2>1, <2>2, SoundStays
<1> QED BY <1>1, <1>2, <1>3, <1>4, TablesStay DEF AccessIInv

LEMMA AccessIInvStep ==
  ASSUME AccessIInv, [AccessNext]_accessVars
  PROVE  AccessIInv'
<1>1. ASSUME NEW u \in Users, Request(u) PROVE AccessIInv'
  BY <1>1, RequestKeeps, UpdateTargetKeeps
<1>2. ASSUME NEW u \in Users, CommitAny(u) PROVE AccessIInv'
  BY <1>2, CommitRoleKeeps, CommitMemberKeeps, CommitTeamKeeps, CommitInvitationKeeps,
     CommitSettledKeeps, CommitPolicyKeeps, CommitUserKeeps DEF CommitAny
<1>3. ASSUME NEW u \in Users, Rollback(u) PROVE AccessIInv' BY <1>3, RollbackKeeps
<1>4. ASSUME NEW i \in DOMAIN invitations, InvitationExpires(i) PROVE AccessIInv'
  BY <1>4, ExpiryKeeps
<1>5. CASE UNCHANGED accessVars BY <1>5, StutterKeeps
<1> QED BY <1>1, <1>2, <1>3, <1>4, <1>5 DEF AccessNext

\* However the transactions of several people overlap, somebody active administers the
\* installation, somebody the organization, and somebody named for local recovery too while
\* the identity policy is enforced: changes are checked by access.go, identity_policy.go and
\* SetInstallationUser against what their row locks keep others from changing.
THEOREM AccessHolds == AccessSpec => []AccessInv
<1>1. AccessInit => AccessIInv BY InitAccess
<1>2. AccessIInv /\ [AccessNext]_accessVars => AccessIInv' BY AccessIInvStep
<1>3. AccessIInv => AccessInv BY AccessIInvSuffices
<1> QED BY <1>1, <1>2, <1>3, PTL DEF AccessSpec

-----------------------------------------------------------------------------
(* Invitations.                                                            *)

\* What accepting or revoking one does.
LEMMA SettlesOnce ==
  ASSUME AccessIInv, NEW u \in Users, CommitSettled(u), NEW i \in DOMAIN invitations,
         invitations'[i].status # invitations[i].status
  PROVE  /\ invitations[i].status \in {"open", "expired"}
         /\ invitations'[i].status = "accepted" =>
              /\ invitations[i].status = "open" /\ invitations[i].user = u
              /\ members[u] = NoMember /\ members'[u] # NoMember
              /\ members'[u].role = invitations[i].role /\ RoleUnchanged(i)
<1>1. PICK t : t = tx[u] OBVIOUS
<1>2. /\ Pending(u) /\ tx[u].asks.op = "settle"
      /\ invitations' = [invitations EXCEPT ![t.asks.invitation].status = t.asks.status]
  BY <1>1 DEF CommitSettled, Prepared
<1>3. SettleSound(u, t) /\ t.asks \in SettleRequest BY <1>1, <1>2, Asking
<1>4. \A j \in DOMAIN invitations : invitations[j] \in Invitation
  BY LenProperties DEF AccessIInv, Tables
<1>5. i = t.asks.invitation /\ invitations'[i].status = t.asks.status
  <2>1. i = t.asks.invitation BY <1>2
  <2>2. PICK n : n = [invitations[i] EXCEPT !.status = t.asks.status] OBVIOUS
  <2>3. invitations' = [invitations EXCEPT ![i] = n] BY <1>2, <2>1, <2>2
  <2>4. invitations'[i] = n BY <2>3
  <2>5. n.status = t.asks.status BY <1>4, <2>2 DEF Invitation
  <2> QED BY <2>1, <2>4, <2>5
<1>6. /\ invitations[i].status \in {"open", "expired"}
      /\ t.asks.status = "accepted" =>
           /\ invitations[i].status = "open" /\ invitations[i].user = u
           /\ members[u] = NoMember /\ RoleUnchanged(i)
  BY <1>3, <1>5 DEF SettleSound
<1>7. ASSUME t.asks.status = "accepted"
      PROVE  members'[u] # NoMember /\ members'[u].role = invitations[i].role
  <2>1. PICK m : m = [role |-> invitations[i].role, active |-> TRUE] OBVIOUS
  <2>2. m \in Membership
    <3>1. invitations[i].role \in Roles BY <1>4 DEF Invitation
    <3> QED BY <2>1, <3>1 DEF Membership
  <2>3. members' = [members EXCEPT ![u] = m]
    BY <1>1, <1>5, <1>7, <2>1 DEF CommitSettled, WithMember
  <2>4. members \in [Users -> Membership \cup {NoMember}] BY DEF AccessIInv, Tables
  <2>5. members'[u] = m /\ m.role = invitations[i].role BY <2>1, <2>3, <2>4
  <2> QED BY <2>2, <2>5, NoMemberAssumption
<1> QED BY <1>5, <1>6, <1>7

\* An invitation of AcceptInvitation and RevokeInvitation is settled once, and accepting it
\* gives what its role granted when it was made, however the role has been edited meanwhile.
THEOREM InvitationTerms == AccessSpec => InvitationsKeepTheirTerms
<1> DEFINE Terms ==
      \A i \in DOMAIN invitations :
        invitations'[i].status # invitations[i].status =>
          /\ invitations[i].status \in {"open", "expired"}
          /\ invitations'[i].status = "accepted" =>
               LET v == invitations[i].user IN
               /\ invitations[i].status = "open"
               /\ members[v] = NoMember /\ members'[v] # NoMember
               /\ roles[members'[v].role].perms = invitations[i].perms
<1>1. AccessInit => AccessIInv BY InitAccess
<1>2. AccessIInv /\ [AccessNext]_accessVars => AccessIInv' BY AccessIInvStep
<1>3. AccessIInv /\ [AccessNext]_accessVars => [Terms]_accessVars
  <2> SUFFICES ASSUME AccessIInv, AccessNext, NEW i \in DOMAIN invitations,
                      invitations'[i].status # invitations[i].status
               PROVE  /\ invitations[i].status \in {"open", "expired"}
                      /\ invitations'[i].status = "accepted" =>
                           LET v == invitations[i].user IN
                           /\ invitations[i].status = "open"
                           /\ members[v] = NoMember /\ members'[v] # NoMember
                           /\ roles[members'[v].role].perms = invitations[i].perms
    OBVIOUS
  <2>1. ASSUME NEW u \in Users, Request(u) \/ Rollback(u) PROVE FALSE
    <3>1. invitations' = invitations
      BY <2>1 DEF Request, SaveRole, UpdateMember, SaveTeam, DeleteTeam, CreateInvitation,
           RevokeInvitation, AcceptInvitation, SaveIdentityPolicy, LockCaller, UpdateTarget,
           Prepare, Rollback, organization
    <3> QED BY <3>1
  <2>2. ASSUME NEW u \in Users, CommitAny(u), ~CommitSettled(u) PROVE FALSE
    <3>1. CASE invitations' = invitations BY <3>1
    <3>2. CASE CommitInvitation(u)
      <4>1. PICK n : invitations' = Append(invitations, n) BY <3>2 DEF CommitInvitation
      <4>2. invitations \in Seq(Invitation) BY DEF AccessIInv, Tables
      <4>3. invitations'[i] = invitations[i] BY <4>1, <4>2, LenProperties
      <4> QED BY <4>3
    <3> QED BY <2>2, <3>1, <3>2 DEF CommitAny, CommitRole, CommitMember, CommitTeam,
                                   CommitPolicy, CommitUser, organization
  <2>3. ASSUME NEW u \in Users, CommitSettled(u)
        PROVE  /\ invitations[i].status \in {"open", "expired"}
               /\ invitations'[i].status = "accepted" =>
                    LET v == invitations[i].user IN
                    /\ invitations[i].status = "open"
                    /\ members[v] = NoMember /\ members'[v] # NoMember
                    /\ roles[members'[v].role].perms = invitations[i].perms
    <3>1. RoleUnchanged(i) => roles[invitations[i].role].perms = invitations[i].perms
      BY DEF AccessIInv, TermsKept, RoleUnchanged
    <3> QED BY <2>3, <3>1, SettlesOnce
  <2>4. ASSUME NEW j \in DOMAIN invitations, InvitationExpires(j)
        PROVE  invitations[i].status = "open" /\ invitations'[i].status = "expired"
    <3>1. /\ invitations[j].status = "open"
          /\ invitations' = [invitations EXCEPT ![j].status = "expired"]
      BY <2>4 DEF InvitationExpires
    <3>2. i = j BY <3>1
    <3>3. invitations[i] \in Invitation BY LenProperties DEF AccessIInv, Tables
    <3>4. PICK n : n = [invitations[i] EXCEPT !.status = "expired"] OBVIOUS
    <3>5. invitations'[i] = n BY <3>1, <3>2, <3>4
    <3>6. n.status = "expired" BY <3>3, <3>4 DEF Invitation
    <3> QED BY <3>1, <3>2, <3>5, <3>6
  <2> QED BY <2>1, <2>2, <2>3, <2>4 DEF AccessNext
<1> QED BY <1>1, <1>2, <1>3, PTL DEF AccessSpec, InvitationsKeepTheirTerms

-----------------------------------------------------------------------------
(* Grants.                                                                 *)

\* By whom a transaction of the organization is committed.
LEMMA CommitsItsOwn ==
  ASSUME AccessIInv, AccessNext, NEW u \in Users, Pending(u), tx[u].asks.op # "user",
         edits' > edits, tx'[u] = NoTx
  PROVE  CommitAny(u) /\ ~CommitUser(u)
<1>1. edits \in Nat /\ tx \in [Users -> Transaction \cup {NoTx}] BY DEF AccessIInv, Tables
<1>2. edits' # edits BY <1>1
<1>3. PICK w \in Users : CommitAny(w)
  BY <1>2 DEF AccessNext, Request, SaveRole, UpdateMember, SaveTeam, DeleteTeam,
       CreateInvitation, RevokeInvitation, AcceptInvitation, SaveIdentityPolicy, LockCaller,
       UpdateTarget, Prepare, Rollback, InvitationExpires
<1>4. tx' = [tx EXCEPT ![w] = NoTx]
  BY <1>3 DEF CommitAny, CommitRole, CommitMember, CommitTeam, CommitInvitation, CommitSettled,
              CommitPolicy, CommitUser, Ends
<1>5. u = w BY <1>1, <1>4 DEF Pending
<1>6. ~CommitUser(u) BY DEF CommitUser, Prepared
<1> QED BY <1>3, <1>5, <1>6

\* What nobody may do who has no account or is not a member.
LEMMA GrantsOfMembers ==
  ASSUME AccessIInv, NEW v \in Users
  PROVE  /\ ~users[v].known => ~users[v].active /\ ~users[v].global /\ members[v] = NoMember
         /\ members[v] = NoMember => TeamGrants(v) = {}
BY DEF AccessIInv, Known, TeamGrants

LEMMA RoleGrants ==
  ASSUME AccessIInv, NEW u \in Users, CommitRole(u), NEW v \in Users,
         NEW x, x \notin tx[u].held
  PROVE  x \in Permissions(v)' <=> x \in Permissions(v)
<1>1. PICK t : t = tx[u] OBVIOUS
<1>2. PICK role : role = t.asks.role OBVIOUS
<1>3. /\ Pending(u) /\ tx[u].asks.op = "role"
      /\ users' = users /\ members' = members /\ team' = team
  BY DEF CommitRole, Prepared
<1>4. RoleSound(t) BY <1>1, <1>3, Asking
<1>5. PICK row : row = [perms |-> t.asks.perms, revision |-> roles[role].revision + 1] OBVIOUS
<1>6. roles' = [roles EXCEPT ![role] = row] BY <1>1, <1>2, <1>5 DEF CommitRole
<1>7. roles \in [Roles -> RoleRow] BY DEF AccessIInv, Tables
<1>8. x \notin row.perms /\ x \notin roles[role].perms
  BY <1>1, <1>2, <1>4, <1>5 DEF RoleSound
<1>9. \A r \in Roles : x \in roles'[r].perms <=> x \in roles[r].perms BY <1>6, <1>7, <1>8
<1>10. /\ team # NoTeam => team.role \in Roles
       /\ members[v] # NoMember => members[v].role \in Roles
  BY DEF AccessIInv, Tables, TeamRow, Membership
<1>11. x \in TeamGrants(v)' <=> x \in TeamGrants(v) BY <1>3, <1>9, <1>10 DEF TeamGrants
<1> QED BY <1>3, <1>9, <1>10, <1>11 DEF Permissions, Roles

LEMMA TeamGrantsSame ==
  ASSUME AccessIInv, NEW u \in Users, CommitTeam(u), NEW v \in Users,
         NEW x, x \notin tx[u].held
  PROVE  x \in Permissions(v)' <=> x \in Permissions(v)
<1>1. PICK t : t = tx[u] OBVIOUS
<1>2. /\ Pending(u) /\ tx[u].asks.op = "team" /\ team' = t.asks.team
      /\ users' = users /\ members' = members /\ roles' = roles
  BY <1>1 DEF CommitTeam, Prepared
<1>3. TeamSound(t) BY <1>1, <1>2, Asking
<1>4. x \notin TeamGrants(v) /\ x \notin TeamGrants(v)'
  BY <1>1, <1>2, <1>3 DEF TeamGrants, TeamSound
<1> QED BY <1>2, <1>4 DEF Permissions

LEMMA SettledGrants ==
  ASSUME AccessIInv, NEW u \in Users, CommitSettled(u), NEW v \in Users,
         NEW x, x \notin tx[u].held
  PROVE  x \in Permissions(v)' <=> x \in Permissions(v)
<1>1. PICK t : t = tx[u] OBVIOUS
<1>2. PICK i : i = t.asks.invitation OBVIOUS
<1>3. /\ Pending(u) /\ tx[u].asks.op = "settle" /\ roles' = roles /\ team' = team
  BY DEF CommitSettled, Prepared
<1>4. SettleSound(u, t) BY <1>1, <1>3, Asking
<1>5. users \in [Users -> UserRow] /\ members \in [Users -> Membership \cup {NoMember}]
  BY DEF AccessIInv, Tables
<1>6. PICK m : m = [role |-> invitations[i].role, active |-> TRUE] OBVIOUS
<1>7. members' = IF t.asks.status = "accepted" THEN [members EXCEPT ![u] = m] ELSE members
  BY <1>1, <1>2, <1>6 DEF CommitSettled, WithMember
<1>8. users' = IF t.asks.status = "accepted" /\ ~users[u].known
                 THEN [users EXCEPT ![u].known = TRUE, ![u].active = TRUE] ELSE users
  BY <1>1 DEF CommitSettled
<1>9. CASE v # u \/ t.asks.status # "accepted"
  <2>1. users'[v] = users[v] /\ members'[v] = members[v] BY <1>5, <1>7, <1>8, <1>9
  <2> QED BY <1>3, <2>1 DEF Permissions, TeamGrants
<1>10. CASE v = u /\ t.asks.status = "accepted"
  <2>1. members[u] = NoMember /\ x \notin roles[invitations[i].role].perms
    BY <1>1, <1>2, <1>4, <1>10 DEF SettleSound
  <2>2. members'[u] = m BY <1>5, <1>7, <1>10
  <2>3. TeamGrants(u)' = {} BY <1>3, <2>1, GrantsOfMembers DEF TeamGrants, AccessIInv, Known
  <2>4. m.role = invitations[i].role BY <1>6
  <2>5. CASE users[u].known
    <3>1. users' = users BY <1>8, <2>5
    <3> QED BY <1>3, <1>10, <2>1, <2>2, <2>3, <2>4, <3>1 DEF Permissions
  <2>6. CASE ~users[u].known
    <3>1. ~users[u].active /\ ~users[u].global BY <2>6, GrantsOfMembers
    <3>2. ~users'[u].global
      <4>1. PICK r : r = [[users[u] EXCEPT !.known = TRUE] EXCEPT !.active = TRUE] OBVIOUS
      <4>2. r.global = users[u].global BY <1>5, <4>1 DEF UserRow
      <4>3. PICK known : known = [users EXCEPT ![u] = [users[u] EXCEPT !.known = TRUE]]
        OBVIOUS
      <4>4. known[u] = [users[u] EXCEPT !.known = TRUE] BY <1>5, <4>3
      <4>5. users' = [known EXCEPT ![u].active = TRUE] BY <1>8, <1>10, <2>6, <4>3
      <4>6. users'[u] = r BY <1>5, <4>1, <4>3, <4>4, <4>5
      <4> QED BY <3>1, <4>2, <4>6
    <3> QED BY <1>3, <1>10, <2>1, <2>2, <2>3, <2>4, <3>1, <3>2 DEF Permissions
  <2> QED BY <2>5, <2>6
<1> QED BY <1>9, <1>10

LEMMA MemberGrants ==
  ASSUME AccessIInv, NEW u \in Users, CommitMember(u), NEW v \in Users,
         tx[u].seen[v] = users[v] \/ ~users[v].known, NEW x, x \notin tx[u].held
  PROVE  /\ x \in Permissions(v)' => x \in Permissions(v) \cup TeamGrants(v)
         /\ x \in Permissions(v) => x \in Permissions(v)'
<1>1. PICK t : t = tx[u] OBVIOUS
<1>2. /\ Pending(u) /\ tx[u].asks.op = "member"
      /\ users' = users /\ roles' = roles /\ team' = team
  BY DEF CommitMember, Prepared
<1>3. MemberSound(t) BY <1>1, <1>2, Asking
<1>4. PICK m : m = [role |-> t.asks.role, active |-> t.asks.active] OBVIOUS
<1>5. members' = [members EXCEPT ![t.asks.target] = m]
  BY <1>1, <1>4 DEF CommitMember, WithMember
<1>6. members \in [Users -> Membership \cup {NoMember}] BY DEF AccessIInv, Tables
<1>7. TeamGrants(v)' = TeamGrants(v) BY <1>2 DEF TeamGrants
<1>8. CASE v # t.asks.target
  <2>1. members'[v] = members[v] BY <1>5, <1>6, <1>8
  <2> QED BY <1>2, <1>7, <2>1 DEF Permissions
<1>9. CASE v = t.asks.target
  <2>1. /\ members[v] # NoMember /\ x \notin roles[t.asks.role].perms
        /\ x \notin SeenPermissions(t.seen, v)
    BY <1>1, <1>3, <1>9 DEF MemberSound
  <2>2. t.seen[v] = users[v] BY <1>1, <2>1, GrantsOfMembers
  <2>3. SeenPermissions(t.seen, v) = Permissions(v) BY <2>2 DEF SeenPermissions, Permissions
  <2>4. members'[v] = m /\ m.role = t.asks.role BY <1>4, <1>5, <1>6, <1>9
  <2> QED BY <1>2, <1>7, <2>1, <2>3, <2>4 DEF Permissions
<1> QED BY <1>8, <1>9

\* Nobody gives or takes a permission they did not hold when the handlers of access.go and
\* teams.go checked, whatever others commit before they do: to nobody and through no role,
\* membership, team or invitation.
THEOREM GrantsAreOwn == AccessSpec => NoGrantBeyondOwn
<1> DEFINE Own ==
      \A u, v \in Users :
        (Pending(u) /\ tx[u].asks.op # "user" /\ edits' > edits /\ tx'[u] = NoTx
           /\ (tx[u].seen[v] = users[v] \/ ~users[v].known))
        => LET gained == Permissions(v)' \ Permissions(v)
               taken == Permissions(v) \ Permissions(v)'
               kept == IF tx[u].asks.op = "member" THEN TeamGrants(v) ELSE {}
           IN (gained \ kept) \cup taken \subseteq tx[u].held
<1>1. AccessInit => AccessIInv BY InitAccess
<1>2. AccessIInv /\ [AccessNext]_accessVars => AccessIInv' BY AccessIInvStep
<1>3. AccessIInv /\ [AccessNext]_accessVars => [Own]_accessVars
  <2> SUFFICES ASSUME AccessIInv, AccessNext, NEW u \in Users, NEW v \in Users,
                      Pending(u), tx[u].asks.op # "user", edits' > edits, tx'[u] = NoTx,
                      tx[u].seen[v] = users[v] \/ ~users[v].known,
                      NEW x, x \notin tx[u].held
               PROVE  /\ x \in Permissions(v)' =>
                           x \in Permissions(v)
                             \/ (tx[u].asks.op = "member" /\ x \in TeamGrants(v))
                      /\ x \in Permissions(v) => x \in Permissions(v)'
    OBVIOUS
  <2>1. CommitAny(u) /\ ~CommitUser(u) BY CommitsItsOwn
  <2>2. CASE CommitRole(u) BY <2>2, RoleGrants
  <2>3. CASE CommitTeam(u) BY <2>3, TeamGrantsSame
  <2>4. CASE CommitSettled(u) BY <2>4, SettledGrants
  <2>5. CASE CommitMember(u)
    <3>1. tx[u].asks.op = "member" BY <2>5 DEF CommitMember, Prepared
    <3> QED BY <2>5, <3>1, MemberGrants
  <2>6. CASE CommitInvitation(u) \/ CommitPolicy(u)
    <3>1. users' = users /\ members' = members /\ roles' = roles /\ team' = team
      BY <2>6 DEF CommitInvitation, CommitPolicy
    <3> QED BY <3>1 DEF Permissions, TeamGrants
  <2> QED BY <2>1, <2>2, <2>3, <2>4, <2>5, <2>6 DEF CommitAny
<1> QED BY <1>1, <1>2, <1>3, PTL DEF AccessSpec, NoGrantBeyondOwn
=============================================================================
