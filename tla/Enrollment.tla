----------------------------- MODULE Enrollment -----------------------------
(* Redeeming enrollment codes (api/src/agent-enrollment, and the codes'     *)
(* creation and revocation in customers.service.ts).  exchange reads the    *)
(* code, then creates the token and claims the code in one transaction; the *)
(* claim holds the row's lock until it commits.  Revoking reads and later   *)
(* writes the row, and waits for that lock.                                 *)
EXTENDS Integers, FiniteSets

CONSTANTS
  Codes, Attempts,  \* the codes, and the exchange requests (a retry is another)
  Admins,           \* revocations in flight at once
  NoAttempt,
  TTL, MaxTime      \* ENROLLMENT_CODE_TTL_MS in ticks, and a bound on the clock

VARIABLES
  code,     \* code[c]: created, expiresAt, used, revoked, token
  tokens,   \* committed AgentTokens, each named by the request that minted it
  attempt,  \* attempt[a]: where the request stands, and its code
  admin,    \* admin[s]: the code about to be revoked, or none
  now

vars == <<code, tokens, attempt, admin, now>>

ASSUME EnrollmentAssumption == NoAttempt \notin Attempts /\ TTL \in Nat /\ MaxTime \in Nat

Row(created, expiresAt) ==
  [created |-> created, expiresAt |-> expiresAt, used |-> FALSE, revoked |-> FALSE,
   token |-> NoAttempt]
NoCode == Row(FALSE, 0)
Waiting == {"idle", "denied", "granted"}   \* outside a request, or after it

Init ==
  /\ code = [c \in Codes |-> NoCode]
  /\ tokens = {}
  /\ attempt = [a \in Attempts |-> [pc |-> "idle", for |-> {}]]
  /\ admin = [s \in Admins |-> {}]
  /\ now = 0

\* A transaction that claimed a code holds its row until it ends.
Locked(c) == \E a \in Attempts : attempt[a] = [pc |-> "claimed", for |-> {c}]
To(a, pc, c) == attempt' = [attempt EXCEPT ![a] = [pc |-> pc, for |-> {c}]]

\* createEnrollmentCode.
CreateCode(c) ==
  /\ ~code[c].created
  /\ code' = [code EXCEPT ![c] = Row(TRUE, now + TTL)]
  /\ UNCHANGED <<tokens, attempt, admin, now>>

\* exchange: findUnique and the three refusals.
ReadCode(a, c) ==
  /\ attempt[a].pc = "idle" /\ code[c].created
  /\ IF code[c].revoked \/ code[c].used \/ code[c].expiresAt < now
     THEN To(a, "denied", c) ELSE To(a, "checked", c)
  /\ UNCHANGED <<code, tokens, admin, now>>

\* Mutant: the claim forgets revokedAt.
Claimable_Revoked(c) == ~code[c].used

\* exchange: create the token, uncommitted, then updateMany where usedAt and
\* revokedAt are null; count 0 rolls the transaction back.
Claimable(c) == ~code[c].used /\ ~code[c].revoked
Claim(a, c) ==
  /\ attempt[a] = [pc |-> "checked", for |-> {c}]
  /\ ~Locked(c)
  /\ IF Claimable(c) THEN To(a, "claimed", c) ELSE To(a, "denied", c)
  /\ UNCHANGED <<code, tokens, admin, now>>
Commit(a, c) ==
  /\ attempt[a] = [pc |-> "claimed", for |-> {c}]
  /\ code' = [code EXCEPT ![c].used = TRUE, ![c].token = a]
  /\ tokens' = tokens \cup {a}
  /\ To(a, "granted", c)
  /\ UNCHANGED <<admin, now>>

\* Mutant: without a transaction the token outlives a failed claim.
Rollback_KeepsToken(a) ==
  /\ attempt[a].pc \notin Waiting
  /\ attempt' = [attempt EXCEPT ![a].pc = "denied"]
  /\ tokens' = IF attempt[a].pc = "claimed" THEN tokens \cup {a} ELSE tokens
  /\ UNCHANGED <<code, admin, now>>

\* The API stops or the transaction times out: nothing of it stays.
Rollback(a) ==
  /\ attempt[a].pc \notin Waiting
  /\ attempt' = [attempt EXCEPT ![a].pc = "denied"]
  /\ UNCHANGED <<code, tokens, admin, now>>

\* revokeEnrollmentCode: refused for a used code, then an update by id.
RevokeCode(s, c) ==
  /\ admin[s] = {} /\ code[c].created /\ ~code[c].used
  /\ admin' = [admin EXCEPT ![s] = {c}]
  /\ UNCHANGED <<code, tokens, attempt, now>>
WriteRevoked(s, c) ==
  /\ admin[s] = {c} /\ ~Locked(c)
  /\ code' = [code EXCEPT ![c].revoked = TRUE]
  /\ admin' = [admin EXCEPT ![s] = {}]
  /\ UNCHANGED <<tokens, attempt, now>>

Tick ==
  /\ now < MaxTime
  /\ now' = now + 1
  /\ UNCHANGED <<code, tokens, attempt, admin>>

CodeStep(c) ==
  \/ CreateCode(c)
  \/ \E a \in Attempts : ReadCode(a, c) \/ Claim(a, c) \/ Commit(a, c)
  \/ \E s \in Admins : RevokeCode(s, c) \/ WriteRevoked(s, c)
Next == (\E c \in Codes : CodeStep(c)) \/ (\E a \in Attempts : Rollback(a)) \/ Tick
Spec == Init /\ [][Next]_vars

RedeemedBy == [c \in Codes |-> code[c].token]
RevokedCodes == {c \in Codes : code[c].revoked}
Promise == INSTANCE OneTimeCode WITH redeemedBy <- RedeemedBy, revoked <- RevokedCodes
-----------------------------------------------------------------------------
(* Type correctness.                                                        *)
EnrollmentTypeOK ==
  /\ code \in [Codes -> [created : BOOLEAN, expiresAt : Nat, used : BOOLEAN,
                         revoked : BOOLEAN, token : Attempts \cup {NoAttempt}]]
  /\ tokens \subseteq Attempts
  /\ attempt \in [Attempts -> [pc : {"idle", "checked", "claimed", "granted", "denied"},
                               for : SUBSET Codes]]
  /\ admin \in [Admins -> SUBSET Codes]
  /\ now \in Nat

(* "two racing redemptions of the same code" mint one token (exchange), and *)
(* a claim that fails leaves none behind: every token is the one its code   *)
(* names, so no code has two and no token is left without a code.           *)
TokensMatchCodes ==
  /\ \A a \in tokens : \E c \in Codes : code[c].used /\ code[c].token = a
  /\ \A c \in Codes : code[c].used => code[c].token \in tokens

(* A code is a one-time grant, whatever requests and revocations overlap:   *)
(* the transaction and the row lock implement OneTimeCode.                  *)
ImplementsOneTimeCode == Promise!Spec

=============================================================================
