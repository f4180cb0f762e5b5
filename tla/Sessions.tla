------------------------------ MODULE Sessions ------------------------------
(***************************************************************************)
(* Sign-in, sessions and account changes of one person: service.go,        *)
(* recovery.go, administrator.go, account_sessions.go, access.go (VerifyMfa) *)
(* and oidc.go.                                                            *)
(*                                                                         *)
(* A call reads and compares what is slow (the password hash, the identity *)
(* provider's answer) before its transaction.  The transaction locks the   *)
(* account's row and compares again, the authenticator code at that time;  *)
(* it then reads the clock once more, to consume the code, and commits.    *)
(* Between any two of these steps other calls of the same person, an       *)
(* administrator and the clock go on, short of the row while it is locked. *)
(* Password, authenticator seed and recovery codes are numbered as they    *)
(* are replaced; the clock counts steps of the authenticator.              *)
(***************************************************************************)
EXTENDS Integers, Sequences, FiniteSets

CONSTANTS
  Tabs,         \* callers; they share the cookies of one browser
  MaxClock,     \* bound on authenticator steps
  MaxSessions,  \* bound on sessions ever opened
  MaxToken,     \* bound on the refresh tokens of a session
  MaxPassword, MaxSeed, MaxCode, MaxFlow,  \* bounds on replacements
  NoCall, NoFlow

ASSUME SessionsAssumption ==
  /\ {MaxClock, MaxSessions, MaxSeed} \subseteq Nat \ {0}
  /\ {MaxToken, MaxPassword, MaxCode, MaxFlow} \subseteq Nat

VARIABLES
  account,   \* row of users, with its recovery codes and its identity link
  sessions,  \* every session ever opened; a deleted one is not live
  flow,      \* row of oidc_flows
  calls,     \* what each tab is waiting for
  jar,       \* session and refresh token in the browser's cookies, or none
  astray,    \* sessions the browser was not told of, or told of another since
  clock

vars == <<account, sessions, flow, calls, jar, astray, clock>>

AccountChanges ==
  {"password", "codes", "enable", "disable", "enroll", "revoke", "link", "unlink"}

Ids == 1..Len(sessions)
Live(i) == i \in Ids /\ sessions[i].live

Code(seed, step) == [kind |-> "code", seed |-> seed, step |-> step]
Recovery(n) == [kind |-> "recovery", number |-> n]
Flow(id) == [kind |-> "flow", id |-> id]
NoProof == [kind |-> "none"]

\* What a session was opened with, and what a call is offered.
Proofs ==
  {NoProof} \cup [kind : {"code"}, seed : 1..MaxSeed, step : 1..MaxClock]
            \cup [kind : {"recovery"}, number : 1..MaxCode]
            \cup [kind : {"flow"}, id : 1..MaxFlow]

\* What a person can usefully enter: the code shown by the authenticator, a
\* recovery code from the list, or nothing if nothing is asked for.
Codes == IF account.mfa THEN {Code(account.seed, clock)} ELSE {NoProof}
Recoveries == {Recovery(n) : n \in account.codes}

\* The session a browser's cookies name.
Names(cookie) == IF cookie = <<>> THEN {} ELSE {cookie[1]}

\* A call remembers what it read before its transaction, and the cookies it came
\* with; a session that is not in them is used from another browser.
Call(op, i, offer) ==
  [op |-> op, session |-> i, offer |-> offer, locked |-> FALSE,
   password |-> IF op \in {"login"} \cup AccountChanges THEN account.password ELSE 0,
   mfa |-> op = "codes" /\ account.mfa,
   flow |-> IF op \in {"callback", "complete"} THEN flow.id ELSE 0,
   target |-> 0, cookie |-> IF i \in Names(jar) THEN jar ELSE <<>>]

Cookies == {<<>>} \cup ((1..MaxSessions) \X (0..MaxToken))

CallRecord ==
  [op : {"login", "verify", "refresh", "logout", "callback", "complete", "answer"}
          \cup AccountChanges,
   session : 0..MaxSessions, offer : Proofs, locked : BOOLEAN,
   password : 0..MaxPassword, mfa : BOOLEAN, flow : 0..MaxFlow,
   target : 0..MaxSessions, cookie : Cookies]

ASSUME NoCallAssumption == NoCall \notin CallRecord

\* A session keeps, as history, its proofs and the step consumed to open it.
Opened(password, confirmed, proof, spent) ==
  [live |-> TRUE, token |-> 0, password |-> password, confirmed |-> confirmed,
   proof |-> proof, spent |-> spent]

\* An account as FinishSetup leaves it, signed in with the code just confirmed,
\* or one that has linked an identity since.  History: the seed last proved by a
\* code when MFA was enabled.
Init ==
  /\ account \in [active : {TRUE}, password : {0}, mfa : {TRUE}, seed : {1},
                  seeds : {1}, step : {1}, proved : {1}, codes : {{}}, issued : {0},
                  linked : BOOLEAN, flows : {0}, seeded : {FALSE}]
  /\ sessions = <<Opened(0, 1, {Code(1, 1)}, 1)>>
  /\ flow = NoFlow
  /\ calls = [t \in Tabs |-> NoCall]
  /\ jar = <<1, 0>>
  /\ astray = {}
  /\ clock = 1

-----------------------------------------------------------------------------
(* Parts of the transactions.                                              *)

\* Sessions are deleted; what they were is kept without what can change.
Delete(ids) ==
  [i \in Ids |-> IF i \in ids
     THEN [sessions[i] EXCEPT !.live = FALSE, !.token = 0, !.password = 0,
                              !.confirmed = 0]
     ELSE sessions[i]]

\* A flow that links an identity belongs to the session that began it.
Cascade(ids) ==
  IF flow # NoFlow /\ flow.session \in ids THEN NoFlow ELSE flow

DeleteUserSessions == sessions' = Delete(Ids) /\ flow' = Cascade(Ids)

Asked(t, op) == calls[t] # NoCall /\ calls[t].op = op
UnderLock(t, op) == Asked(t, op) /\ calls[t].locked
AccountFree == \A t \in Tabs : calls[t] # NoCall => ~calls[t].locked

\* ConsumeTOTP, with the clock as it is then.
Unspent == account.step < clock

Room == Len(sessions) < MaxSessions
Answer(t, cookie) ==
  calls' = [calls EXCEPT ![t] =
    [op |-> "answer", session |-> 0, offer |-> NoProof, locked |-> FALSE,
     password |-> 0, mfa |-> FALSE, flow |-> 0, target |-> 0, cookie |-> cookie]]
Done(t) == calls' = [calls EXCEPT ![t] = NoCall]

\* The answer makes the browser it goes to forget its cookies.
SignedOut(t) == IF calls[t].cookie = <<>> THEN Done(t) ELSE Answer(t, <<>>)

-----------------------------------------------------------------------------
(* Calls begin: the session cookie is looked up, the password compared.    *)

Idle(t) == calls[t] = NoCall

BeginLogin(t, offer) ==
  /\ Idle(t) /\ account.active /\ offer \in Codes \cup Recoveries
  /\ calls' = [calls EXCEPT ![t] = Call("login", 0, offer)]
  /\ UNCHANGED <<account, sessions, flow, jar, astray, clock>>

BeginAccountChange(t, op, i, j, offer) ==
  /\ Idle(t) /\ account.active /\ Live(i)
  /\ IF op = "revoke" THEN Live(j) ELSE j = 0
  /\ offer \in (CASE op = "enable" -> {Code(account.seed, clock)}
                  [] op = "enroll" -> {NoProof}
                  [] OTHER -> Codes)
  /\ calls' = [calls EXCEPT ![t] = [Call(op, i, offer) EXCEPT !.target = j]]
  /\ UNCHANGED <<account, sessions, flow, jar, astray, clock>>

\* DeleteSession, asked for the session of the cookies.
BeginLogout(t, i) ==
  /\ Idle(t) /\ account.active /\ Live(i)
  /\ calls' = [calls EXCEPT ![t] = Call("logout", i, NoProof)]
  /\ UNCHANGED <<account, sessions, flow, jar, astray, clock>>

\* VerifyMfa compares the code with the seed before its transaction.
BeginVerifyMfa(t, i) ==
  /\ Idle(t) /\ account.active /\ Live(i)
  /\ calls' = [calls EXCEPT ![t] = Call("verify", i, Code(account.seed, clock))]
  /\ UNCHANGED <<account, sessions, flow, jar, astray, clock>>

\* A tab sends the refresh token it finds among the cookies.
BeginRefresh(t) ==
  /\ Idle(t) /\ jar # <<>>
  /\ calls' = [calls EXCEPT ![t] = Call("refresh", jar[1], NoProof)]
  /\ UNCHANGED <<account, sessions, flow, jar, astray, clock>>

-----------------------------------------------------------------------------
(* The account's row is locked, and what was read before is compared again. *)

\* Fault: the row is locked, and taken to be the one that was read.
LockedOnly(t) == account.active

\* LockRecoveryUser, and the hash it finds is still the one compared.
Locked(t) ==
  account.active /\ (calls[t].op = "complete" \/ account.password = calls[t].password)

Verified(id) == flow # NoFlow /\ flow.id = id /\ flow.mode = "verified"

\* Fault: the flow read before the transaction is good enough.
Remembered(t) == account.linked
StillVerified(t) == Verified(calls[t].flow) /\ account.linked

\* A code is asked for; an answer to that without one is refused.
CodeAsked(t) ==
  calls[t].op = "enable" \/ (account.mfa /\ calls[t].offer.kind # "recovery")

\* Fault: the code that turns MFA on was compared when the call began.
CheckedBefore(t) ==
  CodeAsked(t) => calls[t].op = "enable" \/ calls[t].offer = Code(account.seed, clock)

\* checkTOTP, with the seed and the clock as they are under the lock.
CodeChecked(t) == CodeAsked(t) => calls[t].offer = Code(account.seed, clock)

LockRecoveryUser(t) ==
  /\ calls[t] # NoCall /\ calls[t].op \in {"login", "complete"} \cup AccountChanges
  /\ AccountFree /\ Locked(t)
  /\ calls[t].op \in AccountChanges => Live(calls[t].session)
  /\ calls[t].op = "complete" => StillVerified(t)
  /\ CodeChecked(t)
  /\ calls' = [calls EXCEPT ![t].locked = TRUE]
  /\ UNCHANGED <<account, sessions, flow, jar, astray, clock>>

-----------------------------------------------------------------------------
(* Calls commit.                                                           *)

Login(t) ==
  LET offer == calls[t].offer
      recovered == offer.kind = "recovery"
      coded == account.mfa /\ ~recovered
      opened == Opened(calls[t].password, IF coded THEN account.seed ELSE 0,
                       IF coded \/ recovered THEN {offer} ELSE {},
                       IF coded THEN clock ELSE 0)
  IN
  /\ UnderLock(t, "login") /\ Room
  /\ recovered => offer.number \in account.codes
  /\ coded => Unspent
  /\ account' = [account EXCEPT
       !.codes = IF recovered THEN @ \ {offer.number} ELSE @,
       !.step = IF coded THEN clock ELSE @]
  /\ sessions' = Append(IF recovered THEN Delete(Ids) ELSE sessions, opened)
  /\ flow' = IF recovered THEN Cascade(Ids) ELSE flow
  /\ Answer(t, <<Len(sessions) + 1, 0>>)
  /\ UNCHANGED <<jar, astray, clock>>

\* accountChange, up to what is to be applied; Used is the row then.
Passes == account.mfa => Unspent
Used == [account EXCEPT !.step = IF account.mfa THEN clock ELSE @]

ChangePassword(t) ==
  /\ UnderLock(t, "password") /\ Passes /\ account.password < MaxPassword
  /\ account' = [Used EXCEPT !.password = @ + 1]
  /\ DeleteUserSessions /\ SignedOut(t)
  /\ UNCHANGED <<jar, astray, clock>>

\* The session counts as confirmed if MFA was enabled when the call began.
GenerateRecoveryCodes(t) ==
  LET i == calls[t].session IN
  /\ UnderLock(t, "codes") /\ Passes /\ account.issued < MaxCode
  /\ account' = [Used EXCEPT !.codes = {account.issued + 1}, !.issued = @ + 1]
  /\ sessions' = IF calls[t].mfa /\ Live(i)
       THEN [sessions EXCEPT ![i].confirmed = account.seed] ELSE sessions
  /\ Done(t)
  /\ UNCHANGED <<flow, jar, astray, clock>>

\* Fault: only the session that turned MFA on has to sign in again.
EnableMFAHere(t) ==
  /\ UnderLock(t, "enable") /\ ~account.mfa /\ Unspent
  /\ account' = [account EXCEPT !.mfa = TRUE, !.step = clock,
                                !.proved = calls[t].offer.seed]
  /\ sessions' = Delete({calls[t].session}) /\ flow' = Cascade({calls[t].session})
  /\ SignedOut(t)
  /\ UNCHANGED <<jar, astray, clock>>

EnableMFA(t) ==
  /\ UnderLock(t, "enable") /\ ~account.mfa /\ Unspent
  /\ account' = [account EXCEPT !.mfa = TRUE, !.step = clock,
                                !.proved = calls[t].offer.seed]
  /\ DeleteUserSessions /\ SignedOut(t)
  /\ UNCHANGED <<jar, astray, clock>>

DisableMFA(t) ==
  /\ UnderLock(t, "disable") /\ account.mfa /\ Unspent
  /\ account' = [Used EXCEPT !.mfa = FALSE]
  /\ DeleteUserSessions /\ SignedOut(t)
  /\ UNCHANGED <<jar, astray, clock>>

\* MFA is already as it is asked for: a code is spent, the sessions stay, and the
\* browser is told to forget its own all the same.
KeepMFA(t) ==
  /\ IF account.mfa THEN UnderLock(t, "enable") ELSE UnderLock(t, "disable")
  /\ Passes
  /\ account' = Used /\ SignedOut(t)
  /\ UNCHANGED <<sessions, flow, jar, astray, clock>>

BeginMFAEnrollment(t) ==
  /\ UnderLock(t, "enroll") /\ ~account.mfa /\ account.seeds < MaxSeed
  /\ account' = [account EXCEPT !.seed = account.seeds + 1, !.seeds = @ + 1, !.step = 0]
  /\ Done(t)
  /\ UNCHANGED <<sessions, flow, jar, astray, clock>>

RevokeAccountSession(t) ==
  LET j == calls[t].target IN
  /\ UnderLock(t, "revoke") /\ Passes /\ Live(j)
  /\ account' = Used
  /\ sessions' = Delete({j}) /\ flow' = Cascade({j})
  /\ IF j = calls[t].session THEN SignedOut(t) ELSE Done(t)
  /\ UNCHANGED <<jar, astray, clock>>

UnlinkOIDC(t) ==
  /\ UnderLock(t, "unlink") /\ Passes
  /\ account' = [Used EXCEPT !.linked = FALSE]
  /\ DeleteUserSessions /\ SignedOut(t)
  /\ UNCHANGED <<jar, astray, clock>>

VerifyMfa(t) ==
  LET i == calls[t].session IN
  /\ Asked(t, "verify") /\ AccountFree /\ account.active /\ Unspent
  /\ account' = [account EXCEPT !.step = clock]
  /\ sessions' = IF Live(i)
       THEN [sessions EXCEPT ![i].confirmed = calls[t].offer.seed] ELSE sessions
  /\ Done(t)
  /\ UNCHANGED <<flow, jar, astray, clock>>

\* No lock is taken for this, and the answer is the same if the session is gone.
Logout(t) ==
  LET i == calls[t].session IN
  /\ Asked(t, "logout")
  /\ sessions' = Delete({i}) /\ flow' = Cascade({i})
  /\ SignedOut(t)
  /\ UNCHANGED <<account, jar, astray, clock>>

\* Fault: the session is looked up by its id, whatever token comes with it.
RefreshAnyToken(t) ==
  LET i == calls[t].session IN
  /\ Asked(t, "refresh") /\ account.active /\ Live(i)
  /\ sessions[i].token < MaxToken
  /\ sessions' = [sessions EXCEPT ![i].token = @ + 1]
  /\ Answer(t, <<i, sessions[i].token + 1>>)
  /\ UNCHANGED <<account, flow, jar, astray, clock>>

Refresh(t) ==
  LET i == calls[t].session IN
  /\ Asked(t, "refresh") /\ account.active /\ Live(i)
  /\ sessions[i].token = calls[t].cookie[2] /\ sessions[i].token < MaxToken
  /\ sessions' = [sessions EXCEPT ![i].token = @ + 1]
  /\ Answer(t, <<i, sessions[i].token + 1>>)
  /\ UNCHANGED <<account, flow, jar, astray, clock>>

\* Refused, failed, or given up: nothing is stored.
Refused(t) ==
  /\ ~Idle(t) /\ calls[t].op # "answer"
  /\ Done(t)
  /\ UNCHANGED <<account, sessions, flow, jar, astray, clock>>

\* The browser keeps what it was told last.
Arrives(t) ==
  /\ Asked(t, "answer")
  /\ jar' = calls[t].cookie
  /\ astray' = (astray \cup Names(jar)) \ Names(calls[t].cookie)
  /\ Done(t)
  /\ UNCHANGED <<account, sessions, flow, clock>>

AnswerLost(t) ==
  /\ Asked(t, "answer")
  /\ astray' = astray \cup Names(calls[t].cookie)
  /\ Done(t)
  /\ UNCHANGED <<account, sessions, flow, jar, clock>>

-----------------------------------------------------------------------------
(* Sign-in through an identity provider, which is external: a flow is begun,*)
(* claimed by the callback, verified by the provider, and completed.        *)

NewFlow(mode, i) ==
  flow' = [id |-> account.flows + 1, mode |-> mode, claimed |-> FALSE, session |-> i]

BeginOIDCLogin ==
  /\ flow = NoFlow /\ account.flows < MaxFlow
  /\ NewFlow("login", 0)
  /\ account' = [account EXCEPT !.flows = @ + 1]
  /\ UNCHANGED <<sessions, calls, jar, astray, clock>>

BeginOIDCLink(t) ==
  /\ UnderLock(t, "link") /\ Passes /\ Live(calls[t].session)
  /\ flow = NoFlow /\ account.flows < MaxFlow
  /\ NewFlow("link", calls[t].session)
  /\ account' = [Used EXCEPT !.flows = @ + 1]
  /\ Done(t)
  /\ UNCHANGED <<sessions, jar, astray, clock>>

ClaimOIDCFlow(t) ==
  /\ Idle(t) /\ flow # NoFlow
  /\ flow.mode \in {"login", "link"} /\ ~flow.claimed
  /\ flow' = [flow EXCEPT !.claimed = TRUE]
  /\ calls' = [calls EXCEPT ![t] = Call("callback", flow.session, NoProof)]
  /\ UNCHANGED <<account, sessions, jar, astray, clock>>

\* The callback knows the mode from the row it claimed.
Callback(t) == Asked(t, "callback") /\ account.active

VerifyOIDCFlow(t) ==
  /\ Callback(t) /\ calls[t].session = 0 /\ account.linked
  /\ flow' = IF flow # NoFlow /\ flow.id = calls[t].flow /\ flow.mode = "login"
               THEN [flow EXCEPT !.mode = "verified"] ELSE flow
  /\ Done(t)
  /\ UNCHANGED <<account, sessions, jar, astray, clock>>

LinkOIDC(t) ==
  /\ Callback(t) /\ AccountFree /\ Live(calls[t].session) /\ ~account.linked
  /\ account' = [account EXCEPT !.linked = TRUE]
  /\ flow' = IF flow # NoFlow /\ flow.id = calls[t].flow THEN NoFlow ELSE flow
  /\ Done(t)
  /\ UNCHANGED <<sessions, jar, astray, clock>>

BeginCompletion(t, offer) ==
  /\ Idle(t) /\ flow # NoFlow /\ Verified(flow.id) /\ offer \in Codes
  /\ calls' = [calls EXCEPT ![t] = Call("complete", 0, offer)]
  /\ UNCHANGED <<account, sessions, flow, jar, astray, clock>>

CompleteOIDCLogin(t) ==
  LET offer == calls[t].offer
      opened == Opened(account.password, IF account.mfa THEN account.seed ELSE 0,
                       {Flow(calls[t].flow)} \cup (IF account.mfa THEN {offer} ELSE {}),
                       IF account.mfa THEN clock ELSE 0)
  IN
  /\ UnderLock(t, "complete") /\ Passes /\ Room
  /\ account' = Used
  /\ sessions' = Append(sessions, opened)
  /\ flow' = NoFlow
  /\ Answer(t, <<Len(sessions) + 1, 0>>)
  /\ UNCHANGED <<jar, astray, clock>>

\* The row stays while a completion holds it.
FlowExpires ==
  /\ flow # NoFlow /\ \A t \in Tabs : ~UnderLock(t, "complete")
  /\ flow' = NoFlow
  /\ UNCHANGED <<account, sessions, calls, jar, astray, clock>>

-----------------------------------------------------------------------------
(* Others, and time.                                                       *)

\* Its thirty days are over; the row stays, and nobody finds it.
SessionExpires(i) ==
  /\ Live(i)
  /\ sessions' = Delete({i})
  /\ UNCHANGED <<account, flow, calls, jar, astray, clock>>

\* An installation administrator disables or enables the account.
SetInstallationUser(active) ==
  /\ AccountFree /\ active # account.active
  /\ account' = [account EXCEPT !.active = active]
  /\ DeleteUserSessions
  /\ UNCHANGED <<calls, jar, astray, clock>>

\* The local command, once per account: it also turns MFA off.
SeedAdministrator ==
  /\ AccountFree /\ account.active /\ ~account.seeded
  /\ account' = [account EXCEPT !.seeded = TRUE, !.mfa = FALSE]
  /\ DeleteUserSessions
  /\ UNCHANGED <<calls, jar, astray, clock>>

Tick ==
  /\ clock < MaxClock
  /\ clock' = clock + 1
  /\ UNCHANGED <<account, sessions, flow, calls, jar, astray>>

Offers == {NoProof, Code(account.seed, clock)} \cup Recoveries

Begin(t) ==
  \/ \E offer \in Offers : BeginLogin(t, offer) \/ BeginCompletion(t, offer)
  \/ \E op \in AccountChanges, i \in Ids, j \in {0} \cup Ids, offer \in Offers :
       BeginAccountChange(t, op, i, j, offer)
  \/ \E i \in Ids : BeginVerifyMfa(t, i) \/ BeginLogout(t, i)
  \/ BeginRefresh(t)
  \/ ClaimOIDCFlow(t)

Commit(t) ==
  \/ Login(t) \/ Refresh(t) \/ VerifyMfa(t) \/ Logout(t)
  \/ ChangePassword(t) \/ GenerateRecoveryCodes(t) \/ RevokeAccountSession(t)
  \/ EnableMFA(t) \/ DisableMFA(t) \/ KeepMFA(t) \/ BeginMFAEnrollment(t)
  \/ BeginOIDCLink(t) \/ UnlinkOIDC(t)
  \/ VerifyOIDCFlow(t) \/ LinkOIDC(t) \/ CompleteOIDCLogin(t)

Next ==
  \/ \E t \in Tabs : \/ Begin(t) \/ LockRecoveryUser(t) \/ Commit(t) \/ Refused(t)
                    \/ Arrives(t) \/ AnswerLost(t)
  \/ \E i \in Ids : SessionExpires(i)
  \/ BeginOIDCLogin \/ FlowExpires
  \/ \E active \in BOOLEAN : SetInstallationUser(active)
  \/ SeedAdministrator
  \/ Tick

Spec == Init /\ [][Next]_vars

-----------------------------------------------------------------------------
(***************************************************************************)
(* Properties.                                                             *)
(***************************************************************************)

\* Type invariant of the rows, the cookies and the calls.
TypeOK ==
  /\ account \in [active : BOOLEAN, password : 0..MaxPassword, mfa : BOOLEAN,
                  seed : 1..MaxSeed, seeds : 1..MaxSeed, step : 0..MaxClock,
                  proved : 1..MaxSeed, codes : SUBSET (1..MaxCode), issued : 0..MaxCode,
                  linked : BOOLEAN, flows : 0..MaxFlow, seeded : BOOLEAN]
  /\ calls \in [Tabs -> CallRecord \cup {NoCall}]
  /\ Len(sessions) <= MaxSessions
  /\ \A i \in Ids :
       /\ sessions[i].live \in BOOLEAN
       /\ sessions[i].token \in 0..MaxToken
       /\ sessions[i].password \in 0..MaxPassword
       /\ sessions[i].confirmed \in 0..MaxSeed
       /\ sessions[i].proof \subseteq Proofs
       /\ sessions[i].spent \in 0..MaxClock
  /\ flow # NoFlow =>
       flow \in [id : 1..MaxFlow, mode : {"login", "link", "verified"},
                claimed : BOOLEAN, session : 0..MaxSessions]
  /\ jar \in Cookies /\ Names(jar) \subseteq Ids
  /\ astray \subseteq Ids /\ clock \in 1..MaxClock

Kinds(i) == {proof.kind : proof \in sessions[i].proof}

\* A session that is open was opened under the present password of an account
\* that is active, and through the identity link the account still has: whatever
\* a sign-in compared before its transaction has been replaced by nobody since.
OpenedUnderPresentCredentials ==
  \A i \in Ids : Live(i) =>
    /\ account.active
    /\ sessions[i].password = account.password
    /\ "flow" \in Kinds(i) => account.linked

\* While the account asks for codes, every open session gave one, or a recovery
\* code; and what counts as confirmed was confirmed with the present seed.
SecondFactorStands ==
  account.mfa =>
    \A i \in Ids : Live(i) =>
      /\ Kinds(i) \cap {"code", "recovery"} # {}
      /\ sessions[i].confirmed \in {0, account.seed}

\* A recovery code and an identity flow open one session at most, of all that were
\* ever opened.  A code may open two: it is checked and consumed by two readings of
\* the clock (service.go:186 and 319), so that one consumed in its own step passes
\* once more if it was checked at the end of that step and consumed in a later one.
\* It opens no third.  (README.md:24 promises that a used code cannot be reused.)
ProofsAreSpent ==
  \A i, j \in Ids : i < j =>
    \A p \in sessions[i].proof \cap sessions[j].proof :
      p.kind = "code" /\ sessions[i].spent = p.step /\ p.step < sessions[j].spent

\* Signing in with a recovery code leaves no earlier session behind, and none of
\* them comes back.
RecoveryStandsAlone ==
  \A i, j \in Ids : i < j /\ "recovery" \in Kinds(j) => ~Live(i)

\* Types, and what Login and CompleteOIDCLogin owe to the proofs they accept.
SessionsInv == TypeOK /\ ProofsAreSpent /\ RecoveryStandsAlone

UnderWay == UNION {Names(calls[t].cookie) : t \in {u \in Tabs : Asked(u, "answer")}}

\* Two tabs refresh with one token: one of them is served, and when its answer
\* has arrived the browser holds the token that is good.  The browser can lose a
\* session that is open in three ways only: an answer about it is still under way,
\* was lost, or another answer arrived after it that told the browser of another
\* session or to forget its own, be it a late one.
BrowserKeepsUp ==
  \A i \in Ids : Live(i) /\ i \notin UnderWay \cup astray => jar = <<i, sessions[i].token>>

\* MFA is never on for an authenticator that has not given a code, though another
\* tab enrols a new one while the code of the last is being entered: nobody is asked
\* for the codes of a seed that was perhaps never stored by an authenticator.
EnabledSeedIsHeld == account.mfa => account.proved = account.seed
=============================================================================
