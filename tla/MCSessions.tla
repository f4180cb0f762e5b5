----------------------------- MODULE MCSessions -----------------------------
(* One account, two tabs.  The bounds are generous in one direction at a time: *)
(* what is gone through is the union of four families of behaviours.           *)
EXTENDS Sessions, TLC

Symmetry == Permutations(Tabs)

\* No token is replaced, and answers arrive in the order of the sign-ins.
NothingRotated ==
  /\ \A i \in Ids : sessions[i].token = 0
  /\ astray = 1..Cardinality(astray)
  /\ jar # <<>> => jar[1] = Cardinality(astray) + 1

\* The calls under way are of these kinds.
Only(ops) == \A t \in Tabs : calls[t] # NoCall => calls[t].op \in {"answer"} \cup ops

WithoutProvider == account.flows = 0 /\ ~account.linked

\* Refresh tokens and lost answers, with two sessions.
Rotating ==
  /\ WithoutProvider /\ account.mfa /\ account.active /\ account.password = 0
  /\ account.issued = 0 /\ ~account.seeded
  /\ Len(sessions) <= 2 /\ clock <= 2
  /\ Only({"login", "refresh", "logout", "revoke", "verify"})

\* Passwords and recovery codes, with three sessions.
Recovering ==
  /\ WithoutProvider /\ NothingRotated /\ account.mfa /\ account.seeds = 1
  /\ Only({"login", "password", "codes", "revoke", "verify"})

\* MFA turned off and on, another seed.
Enrolling ==
  /\ WithoutProvider /\ NothingRotated /\ account.active
  /\ account.issued = 0 /\ account.password = 0
  /\ Len(sessions) <= 2 \/ (clock <= 2 /\ ~account.seeded)
  /\ Only({"login", "enable", "disable", "enroll", "codes", "verify"})

\* Identity links and flows: two sessions, or three where no code is asked for.
Federated ==
  /\ NothingRotated /\ account.issued = 0 /\ account.seeds = 1
  /\ account.password = 0
  /\ Only({"login", "callback", "complete", "link", "unlink", "logout"})
  /\ IF account.mfa THEN Len(sessions) <= 2 /\ clock <= 2 ELSE clock = 1

Within == Rotating \/ Recovering \/ Enrolling \/ Federated
=============================================================================
