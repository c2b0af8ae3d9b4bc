--------------------------- MODULE LifecycleProofs ---------------------------
(* What a tenant and its agents go through: the agents' codes, the tenant's *)
(* subscription and an agent's own updates.                                 *)
(*                                                                          *)
(* For any number of codes, requests and revocations: the tables' types,    *)
(* tokens and codes match, and Enrollment implements OneTimeCode.  For any  *)
(* number of checkouts, devices and faults: the types of a subscription, and, *)
(* of events handled one at a time in their order, that the status written  *)
(* is the one Stripe reported.  For any set of builds and any number of     *)
(* faults, power cuts, RESTARTs and releases taken back: the types of an    *)
(* installation, that a whole build stays on its disk and, while no release *)
(* is taken back, no older one.                                             *)
EXTENDS MCLifecycle, TLAPS

CodeRow ==
  [created : BOOLEAN, expiresAt : Nat, used : BOOLEAN, revoked : BOOLEAN,
   token : Attempts \cup {NoAttempt}]
AttemptRow ==
  [pc : {"idle", "checked", "claimed", "granted", "denied"}, for : SUBSET Codes]

(* Each step keeps the types.                                               *)
LEMMA TypeStep ==
  ASSUME EnrollmentTypeOK, [Next]_vars
  PROVE  EnrollmentTypeOK'
<1> USE DEF EnrollmentTypeOK
<1>1. ASSUME NEW c \in Codes, CreateCode(c) PROVE EnrollmentTypeOK'
  <2>1. now + TTL \in Nat
    BY EnrollmentAssumption
  <2>2. Row(TRUE, now + TTL) \in CodeRow
    BY <2>1 DEF Row, CodeRow
  <2>3. code' = [code EXCEPT ![c] = Row(TRUE, now + TTL)]
    BY <1>1 DEF CreateCode
  <2>4. code' \in [Codes -> CodeRow]
    BY <2>2, <2>3 DEF CodeRow
  <2> QED BY <1>1, <2>4 DEF CreateCode, CodeRow
<1>2. ASSUME NEW a \in Attempts, NEW c \in Codes, NEW pc \in {"checked", "claimed", "granted", "denied"},
             To(a, pc, c)
      PROVE  attempt' \in [Attempts -> AttemptRow]
  BY <1>2 DEF To, AttemptRow
<1>3. ASSUME NEW c \in Codes, NEW a \in Attempts, ReadCode(a, c) \/ Claim(a, c)
      PROVE  EnrollmentTypeOK'
  BY <1>2, <1>3 DEF ReadCode, Claim, AttemptRow
<1>4. ASSUME NEW c \in Codes, NEW a \in Attempts, Commit(a, c) PROVE EnrollmentTypeOK'
  <2> DEFINE entry == [code[c] EXCEPT !.used = TRUE, !.token = a]
  <2>1. entry \in CodeRow
    BY DEF CodeRow
  <2>2. code' = [code EXCEPT ![c] = entry]
    BY <1>4 DEF Commit
  <2> HIDE DEF entry
  <2> QED BY <1>2, <1>4, <2>1, <2>2 DEF Commit, CodeRow, AttemptRow
<1>5. ASSUME NEW a \in Attempts, Rollback(a) PROVE EnrollmentTypeOK'
  BY <1>5 DEF Rollback
<1>6. ASSUME NEW c \in Codes, NEW s \in Admins, RevokeCode(s, c) PROVE EnrollmentTypeOK'
  BY <1>6 DEF RevokeCode
<1>7. ASSUME NEW c \in Codes, NEW s \in Admins, WriteRevoked(s, c) PROVE EnrollmentTypeOK'
  BY <1>7 DEF WriteRevoked
<1>8. CASE Tick
  BY <1>8 DEF Tick
<1>9. CASE UNCHANGED vars
  BY <1>9 DEF vars
<1> QED BY <1>1, <1>3, <1>4, <1>5, <1>6, <1>7, <1>8, <1>9 DEF Next, CodeStep

(* Type correctness.                                                        *)
THEOREM EnrollmentTyped == Spec => []EnrollmentTypeOK
<1>1. Init => EnrollmentTypeOK
  BY EnrollmentAssumption DEF Init, EnrollmentTypeOK, NoCode, Row
<1> QED BY <1>1, TypeStep, PTL DEF Spec
-----------------------------------------------------------------------------
(* The inductive invariant.  ClaimExclusive is what the row's lock gives:   *)
(* while a transaction has claimed a code the code stays unused and         *)
(* unrevoked, and no other transaction has claimed it.                      *)
Claimed(a, c) == attempt[a] = [pc |-> "claimed", for |-> {c}]
ClaimExclusive ==
  \A a \in Attempts, c \in Codes : Claimed(a, c) =>
    /\ code[c].created /\ ~code[c].used /\ ~code[c].revoked
    /\ \A b \in Attempts : Claimed(b, c) => b = a
OnlyCreated ==
  /\ \A c \in Codes : ~code[c].created => code[c] = NoCode
  /\ \A a \in Attempts : attempt[a].pc # "idle" =>
       \E c \in Codes : attempt[a].for = {c} /\ code[c].created
  /\ \A s \in Admins, c \in Codes : admin[s] = {c} => code[c].created
UsedNamesToken == \A c \in Codes : code[c].used <=> code[c].token # NoAttempt
TokenGranted == \A a \in tokens : attempt[a].pc = "granted"
OneTimeInv ==
  EnrollmentTypeOK /\ ClaimExclusive /\ OnlyCreated /\ UsedNamesToken /\ TokenGranted
    /\ TokensMatchCodes

(* A request moves and no row changes: nothing else is disturbed.           *)
LEMMA AttemptStep ==
  ASSUME OneTimeInv, NEW a \in Attempts, NEW c \in Codes, code[c].created,
         NEW pc \in {"checked", "claimed", "denied"}, To(a, pc, c),
         attempt[a].pc # "granted",
         pc = "claimed" => Claimable(c) /\ ~Locked(c),
         UNCHANGED <<code, tokens, admin, now>>
  PROVE  /\ ClaimExclusive' /\ OnlyCreated' /\ UsedNamesToken' /\ TokenGranted'
         /\ TokensMatchCodes'
<1> USE DEF OneTimeInv
<1>1. \A b \in Attempts : attempt'[b] = IF b = a THEN [pc |-> pc, for |-> {c}] ELSE attempt[b]
  BY DEF To, EnrollmentTypeOK
<1>2. ASSUME NEW b \in Attempts, NEW d \in Codes, attempt'[b] = [pc |-> "claimed", for |-> {d}]
      PROVE  /\ code[d].created /\ ~code[d].used /\ ~code[d].revoked
             /\ \A e \in Attempts : attempt'[e] = [pc |-> "claimed", for |-> {d}] => e = b
  <2>1. CASE b = a
    <3>1. pc = "claimed" /\ d = c
      BY <1>1, <1>2, <2>1
    <3> QED BY <1>1, <2>1, <3>1 DEF Claimable, Locked
  <2>2. CASE b # a
    <3>1. Claimed(b, d)
      BY <1>1, <1>2, <2>2 DEF Claimed
    <3>2. ~(pc = "claimed" /\ d = c)
      BY <3>1 DEF Claimed, Locked
    <3> QED BY <1>1, <3>1, <3>2 DEF ClaimExclusive, Claimed
  <2> QED BY <2>1, <2>2
<1>6. ClaimExclusive'
  BY <1>2 DEF ClaimExclusive, Claimed
<1>3. OnlyCreated'
  BY <1>1 DEF OnlyCreated
<1>4. UsedNamesToken' /\ TokensMatchCodes'
  BY DEF UsedNamesToken, TokensMatchCodes
<1>5. TokenGranted'
  BY <1>1 DEF TokenGranted, EnrollmentTypeOK
<1> QED BY <1>3, <1>4, <1>5, <1>6

(* A row is issued: nobody had claimed it, used it or asked to revoke it.   *)
LEMMA CreateStep ==
  ASSUME OneTimeInv, NEW c \in Codes, CreateCode(c)
  PROVE  /\ ClaimExclusive' /\ OnlyCreated' /\ UsedNamesToken' /\ TokenGranted'
         /\ TokensMatchCodes'
<1> USE DEF OneTimeInv
<1>1. \A d \in Codes : code'[d] = IF d = c THEN Row(TRUE, now + TTL) ELSE code[d]
  BY DEF CreateCode, EnrollmentTypeOK
<1>2. ~code[c].created /\ code[c] = NoCode /\ ~code[c].used
  <2>1. ~code[c].created
    BY DEF CreateCode
  <2>2. code[c] = NoCode
    BY <2>1 DEF OnlyCreated
  <2>3. NoCode.used = FALSE
    BY DEF NoCode, Row
  <2> QED BY <2>1, <2>2, <2>3
<1>3. /\ Row(TRUE, now + TTL).created /\ ~Row(TRUE, now + TTL).used
      /\ Row(TRUE, now + TTL).token = NoAttempt
  BY DEF Row
<1>4. ClaimExclusive'
  <2> SUFFICES ASSUME NEW a \in Attempts, NEW d \in Codes, Claimed(a, d)'
               PROVE  /\ code'[d].created /\ ~code'[d].used /\ ~code'[d].revoked
                      /\ \A b \in Attempts : Claimed(b, d)' => b = a
    BY DEF ClaimExclusive
  <2>1. Claimed(a, d) /\ \A b \in Attempts : Claimed(b, d)' <=> Claimed(b, d)
    BY DEF CreateCode, Claimed
  <2>2. d # c
    BY <1>2, <2>1 DEF ClaimExclusive
  <2> QED BY <1>1, <2>1, <2>2 DEF ClaimExclusive
<1>5. OnlyCreated'
  BY <1>1, <1>3 DEF CreateCode, OnlyCreated
<1>6. UsedNamesToken'
  BY <1>1, <1>3 DEF UsedNamesToken
<1>7. TokenGranted'
  BY DEF CreateCode, TokenGranted
<1>8. TokensMatchCodes'
  <2>1. tokens' = tokens
    BY DEF CreateCode
  <2>2. ASSUME NEW a \in tokens PROVE \E d \in Codes : code'[d].used /\ code'[d].token = a
    BY <1>1, <1>2, <2>2 DEF TokensMatchCodes
  <2>3. ASSUME NEW d \in Codes, code'[d].used PROVE code'[d].token \in tokens
    BY <1>1, <1>3, <2>3 DEF TokensMatchCodes
  <2> QED BY <2>1, <2>2, <2>3 DEF TokensMatchCodes
<1> QED BY <1>4, <1>5, <1>6, <1>7, <1>8

(* The transaction commits: the token and the claim appear together.        *)
LEMMA CommitStep ==
  ASSUME OneTimeInv, NEW c \in Codes, NEW a \in Attempts, Commit(a, c)
  PROVE  /\ ClaimExclusive' /\ OnlyCreated' /\ UsedNamesToken' /\ TokenGranted'
         /\ TokensMatchCodes'
<1> USE DEF OneTimeInv
<1>1. Claimed(a, c) /\ code[c].created /\ ~code[c].used
  BY DEF Commit, Claimed, ClaimExclusive
<1>2. PICK entry \in CodeRow : entry.created /\ entry.used /\ entry.token = a
                             /\ \A d \in Codes : code'[d] = IF d = c THEN entry ELSE code[d]
  <2> DEFINE entry == [code[c] EXCEPT !.used = TRUE, !.token = a]
  <2>1. entry \in CodeRow /\ entry.created /\ entry.used /\ entry.token = a
    BY <1>1 DEF CodeRow, EnrollmentTypeOK
  <2>2. code' = [code EXCEPT ![c] = entry]
    BY DEF Commit
  <2> HIDE DEF entry
  <2>3. \A d \in Codes : code'[d] = IF d = c THEN entry ELSE code[d]
    BY <2>2 DEF EnrollmentTypeOK
  <2> QED BY <2>1, <2>3
<1>3. \A b \in Attempts : attempt'[b] = IF b = a THEN [pc |-> "granted", for |-> {c}]
                                        ELSE attempt[b]
  BY DEF Commit, To, EnrollmentTypeOK
<1>4. ClaimExclusive'
  <2> SUFFICES ASSUME NEW b \in Attempts, NEW d \in Codes, Claimed(b, d)'
               PROVE  /\ code'[d].created /\ ~code'[d].used /\ ~code'[d].revoked
                      /\ \A e \in Attempts : Claimed(e, d)' => e = b
    BY DEF ClaimExclusive
  <2>1. b # a /\ Claimed(b, d)
    BY <1>3 DEF Claimed
  <2>2. d # c
    BY <1>1, <2>1 DEF ClaimExclusive
  <2>3. \A e \in Attempts : Claimed(e, d)' => Claimed(e, d)
    BY <1>3 DEF Claimed
  <2> QED BY <1>2, <2>1, <2>2, <2>3 DEF ClaimExclusive
<1>5. OnlyCreated'
  <2>1. \A d \in Codes : ~code'[d].created => code'[d] = NoCode
    BY <1>2 DEF OnlyCreated
  <2>2. ASSUME NEW b \in Attempts, attempt'[b].pc # "idle"
        PROVE  \E d \in Codes : attempt'[b].for = {d} /\ code'[d].created
    <3>1. CASE b = a
      BY <1>2, <1>3, <3>1
    <3>2. CASE b # a
      BY <1>2, <1>3, <2>2, <3>2 DEF OnlyCreated
    <3> QED BY <3>1, <3>2
  <2>3. \A s \in Admins, d \in Codes : admin'[s] = {d} => code'[d].created
    BY <1>2 DEF OnlyCreated, Commit
  <2> QED BY <2>1, <2>2, <2>3 DEF OnlyCreated
<1>6. UsedNamesToken'
  BY <1>2, EnrollmentAssumption DEF UsedNamesToken
<1>7. tokens' = tokens \cup {a}
  BY DEF Commit
<1>8. TokenGranted'
  BY <1>3, <1>7 DEF TokenGranted, EnrollmentTypeOK
<1>9. TokensMatchCodes'
  <2>1. ASSUME NEW b \in tokens' PROVE \E d \in Codes : code'[d].used /\ code'[d].token = b
    BY <1>1, <1>2, <1>7, <2>1 DEF TokensMatchCodes
  <2>2. ASSUME NEW d \in Codes, code'[d].used PROVE code'[d].token \in tokens'
    BY <1>2, <1>7, <2>2 DEF TokensMatchCodes
  <2> QED BY <2>1, <2>2 DEF TokensMatchCodes
<1> QED BY <1>4, <1>5, <1>6, <1>8, <1>9

(* A code is revoked only while no transaction has it claimed.              *)
LEMMA RevokeStep ==
  ASSUME OneTimeInv, NEW c \in Codes, NEW s \in Admins, WriteRevoked(s, c)
  PROVE  /\ ClaimExclusive' /\ OnlyCreated' /\ UsedNamesToken' /\ TokenGranted'
         /\ TokensMatchCodes'
<1> USE DEF OneTimeInv
<1>1. code[c].created /\ ~Locked(c)
  BY DEF WriteRevoked, OnlyCreated
<1>2. \A d \in Codes : /\ code'[d].created = code[d].created
                       /\ code'[d].used = code[d].used /\ code'[d].token = code[d].token
                       /\ d # c => code'[d] = code[d]
  BY DEF WriteRevoked, EnrollmentTypeOK
<1>3. ClaimExclusive'
  <2> SUFFICES ASSUME NEW a \in Attempts, NEW d \in Codes, Claimed(a, d)'
               PROVE  /\ code'[d].created /\ ~code'[d].used /\ ~code'[d].revoked
                      /\ \A b \in Attempts : Claimed(b, d)' => b = a
    BY DEF ClaimExclusive
  <2>1. \A b \in Attempts, e \in Codes : Claimed(b, e)' <=> Claimed(b, e)
    BY DEF WriteRevoked, Claimed
  <2>2. d # c
    BY <1>1, <2>1 DEF Claimed, Locked
  <2> QED BY <1>2, <2>1, <2>2 DEF ClaimExclusive
<1>4. OnlyCreated'
  <2>1. \A d \in Codes : ~code'[d].created => code'[d] = NoCode
    BY <1>1, <1>2 DEF OnlyCreated
  <2>2. \A t \in Admins, d \in Codes : admin'[t] = {d} => admin[t] = {d}
    BY DEF WriteRevoked, EnrollmentTypeOK
  <2> QED BY <1>2, <2>1, <2>2 DEF OnlyCreated, WriteRevoked
<1>5. UsedNamesToken' /\ TokensMatchCodes'
  BY <1>2 DEF UsedNamesToken, TokensMatchCodes, WriteRevoked
<1>6. TokenGranted'
  BY DEF TokenGranted, WriteRevoked
<1> QED BY <1>3, <1>4, <1>5, <1>6

(* Every step keeps the invariant.                                          *)
LEMMA InvStep ==
  ASSUME OneTimeInv, [Next]_vars
  PROVE  OneTimeInv'
<1> USE DEF OneTimeInv
<1> DEFINE Rest == /\ ClaimExclusive' /\ OnlyCreated' /\ UsedNamesToken' /\ TokenGranted'
                   /\ TokensMatchCodes'
<1>1. EnrollmentTypeOK'
  BY TypeStep
<1>2. ASSUME NEW c \in Codes, NEW a \in Attempts, ReadCode(a, c) PROVE Rest
  <2>1. PICK pc \in {"checked", "denied"} : To(a, pc, c)
    BY <1>2 DEF ReadCode
  <2>2. code[c].created /\ attempt[a].pc # "granted" /\ UNCHANGED <<code, tokens, admin, now>>
    BY <1>2 DEF ReadCode
  <2> QED BY <2>1, <2>2, AttemptStep
<1>3. ASSUME NEW c \in Codes, NEW a \in Attempts, Claim(a, c) PROVE Rest
  <2>1. PICK pc \in {"claimed", "denied"} : To(a, pc, c) /\ (pc = "claimed" => Claimable(c))
    BY <1>3 DEF Claim
  <2>2. /\ attempt[a] = [pc |-> "checked", for |-> {c}] /\ ~Locked(c)
        /\ UNCHANGED <<code, tokens, admin, now>>
    BY <1>3 DEF Claim
  <2>3. code[c].created
    BY <2>2 DEF OnlyCreated
  <2> QED BY <2>1, <2>2, <2>3, AttemptStep
<1>4. ASSUME NEW a \in Attempts, Rollback(a) PROVE Rest
  <2>1. PICK c \in Codes : attempt[a].for = {c} /\ code[c].created
    BY <1>4 DEF Rollback, OnlyCreated, Waiting
  <2>2. To(a, "denied", c)
    <3>1. attempt' = [attempt EXCEPT ![a] = [attempt[a] EXCEPT !.pc = "denied"]]
      BY <1>4 DEF Rollback
    <3>2. attempt[a] \in AttemptRow
      BY DEF EnrollmentTypeOK, AttemptRow
    <3>3. [attempt[a] EXCEPT !.pc = "denied"] = [pc |-> "denied", for |-> {c}]
      BY <2>1, <3>2 DEF AttemptRow
    <3> QED BY <3>1, <3>3 DEF To
  <2>3. attempt[a].pc # "granted" /\ UNCHANGED <<code, tokens, admin, now>>
    BY <1>4 DEF Rollback, Waiting
  <2> QED BY <2>1, <2>2, <2>3, AttemptStep
<1>5. ASSUME NEW c \in Codes, NEW s \in Admins, RevokeCode(s, c) PROVE Rest
  <2>1. \A t \in Admins, d \in Codes : admin'[t] = {d} => admin[t] = {d} \/ d = c
    BY <1>5 DEF RevokeCode, EnrollmentTypeOK
  <2>2. code[c].created /\ UNCHANGED <<code, tokens, attempt, now>>
    BY <1>5 DEF RevokeCode
  <2> QED BY <2>1, <2>2
       DEF ClaimExclusive, Claimed, OnlyCreated, UsedNamesToken, TokenGranted, TokensMatchCodes
<1>6. ASSUME UNCHANGED <<code, tokens, attempt, admin>> PROVE Rest
  BY <1>6
       DEF ClaimExclusive, Claimed, OnlyCreated, UsedNamesToken, TokenGranted, TokensMatchCodes
<1>7. Tick => Rest
  BY <1>6 DEF Tick
<1>8. UNCHANGED vars => Rest
  BY <1>6 DEF vars
<1> QED BY <1>1, <1>2, <1>3, <1>4, <1>5, <1>7, <1>8, CreateStep, CommitStep, RevokeStep
           DEF Next, CodeStep

LEMMA InvInit == Init => OneTimeInv
<1> SUFFICES ASSUME Init PROVE OneTimeInv
  OBVIOUS
<1>1. EnrollmentTypeOK
  BY EnrollmentAssumption DEF Init, EnrollmentTypeOK, NoCode, Row
<1>2. \A a \in Attempts : attempt[a].pc = "idle"
  BY DEF Init
<1>3. \A c \in Codes : code[c] = NoCode /\ ~code[c].used /\ code[c].token = NoAttempt
  BY DEF Init, NoCode, Row
<1>4. tokens = {} /\ \A s \in Admins : admin[s] = {}
  BY DEF Init
<1>5. ClaimExclusive
  BY <1>2 DEF ClaimExclusive, Claimed
<1> QED BY <1>1, <1>2, <1>3, <1>4, <1>5
     DEF OneTimeInv, OnlyCreated, UsedNamesToken, TokenGranted, TokensMatchCodes

LEMMA InvHolds == Spec => []OneTimeInv
BY InvInit, InvStep, PTL DEF Spec

(* Two redemptions that race mint one token, for any number of requests and *)
(* codes: every token is the one its code names.                            *)
THEOREM TokensAndCodesMatch == Spec => []TokensMatchCodes
<1>1. OneTimeInv => TokensMatchCodes
  BY DEF OneTimeInv
<1> QED BY <1>1, InvHolds, PTL
-----------------------------------------------------------------------------
(* Each step of Enrollment is a step of OneTimeCode or leaves what it       *)
(* promises alone: a commit redeems, the write of a revocation revokes.     *)
LEMMA StepImplements ==
  ASSUME OneTimeInv, [Next]_vars
  PROVE  [Promise!Next]_<<RedeemedBy, RevokedCodes>>
<1> USE DEF OneTimeInv
<1> DEFINE Same == RedeemedBy' = RedeemedBy /\ RevokedCodes' = RevokedCodes
<1>1. ASSUME NEW c \in Codes, CreateCode(c) PROVE Same
  <2>1. \A d \in Codes : code'[d] = IF d = c THEN Row(TRUE, now + TTL) ELSE code[d]
    BY <1>1 DEF CreateCode, EnrollmentTypeOK
  <2>2. code[c] = NoCode
    BY <1>1 DEF CreateCode, OnlyCreated
  <2>3. /\ Row(TRUE, now + TTL).token = NoCode.token
        /\ Row(TRUE, now + TTL).revoked = NoCode.revoked
    BY DEF Row, NoCode
  <2>4. \A d \in Codes : code'[d].token = code[d].token /\ code'[d].revoked = code[d].revoked
    BY <2>1, <2>2, <2>3
  <2> QED BY <2>4 DEF RedeemedBy, RevokedCodes
<1>2. ASSUME NEW c \in Codes, NEW a \in Attempts, Commit(a, c) PROVE Promise!Redeem(c, a)
  <2>1. ~code[c].used /\ ~code[c].revoked
    BY <1>2 DEF Commit, ClaimExclusive, Claimed
  <2>2. \A d \in Codes : /\ code'[d].token = IF d = c THEN a ELSE code[d].token
                         /\ code'[d].revoked = code[d].revoked
    BY <1>2 DEF Commit, EnrollmentTypeOK
  <2>3. RedeemedBy[c] = NoAttempt /\ c \notin RevokedCodes
    BY <2>1 DEF RedeemedBy, RevokedCodes, UsedNamesToken
  <2>4. RedeemedBy' = [RedeemedBy EXCEPT ![c] = a]
    BY <2>2 DEF RedeemedBy
  <2>5. RevokedCodes' = RevokedCodes
    BY <2>2 DEF RevokedCodes
  <2> QED BY <2>3, <2>4, <2>5 DEF Promise!Redeem
<1>3. ASSUME NEW c \in Codes, NEW s \in Admins, WriteRevoked(s, c) PROVE Promise!Revoke(c)
  <2>1. \A d \in Codes : /\ code'[d].token = code[d].token
                         /\ code'[d].revoked <=> (d = c \/ code[d].revoked)
    BY <1>3 DEF WriteRevoked, EnrollmentTypeOK
  <2> QED BY <2>1 DEF Promise!Revoke, RedeemedBy, RevokedCodes
<1>4. ASSUME UNCHANGED code PROVE Same
  BY <1>4 DEF RedeemedBy, RevokedCodes
<1>5. ASSUME NEW c \in Codes, CodeStep(c)
      PROVE  Same \/ Promise!Revoke(c) \/ \E a \in Attempts : Promise!Redeem(c, a)
  <2>1. ASSUME NEW a \in Attempts, ReadCode(a, c) \/ Claim(a, c) PROVE Same
    BY <1>4, <2>1 DEF ReadCode, Claim
  <2>2. ASSUME NEW s \in Admins, RevokeCode(s, c) PROVE Same
    BY <1>4, <2>2 DEF RevokeCode
  <2> QED BY <1>1, <1>2, <1>3, <1>5, <2>1, <2>2 DEF CodeStep
<1>6. (\E a \in Attempts : Rollback(a)) \/ Tick \/ UNCHANGED vars => Same
  BY <1>4 DEF Rollback, Tick, vars
<1> QED BY <1>5, <1>6 DEF Next, Promise!Next

(* Enrollment implements OneTimeCode: a code is redeemed by at most one     *)
(* request, for good, and never once it has been revoked.                   *)
THEOREM EnrollmentImplements == Spec => ImplementsOneTimeCode
<1>1. Init => Promise!Init
  BY DEF Init, NoCode, Row, Promise!Init, RedeemedBy, RevokedCodes
<1>2. OneTimeInv /\ [Next]_vars => [Promise!Next]_<<RedeemedBy, RevokedCodes>>
  BY StepImplements
<1> QED BY <1>1, <1>2, InvHolds, PTL DEF Spec, ImplementsOneTimeCode, Promise!Spec
-----------------------------------------------------------------------------
(* What is under way keeps its shape; an operation knows at most the        *)
(* subscription, the price and the quantity it will write.                  *)
PaidStates == {"active", "past_due", "canceled"}
StatusType == {"TRIALING", "ACTIVE", "PAST_DUE", "CANCELED"}
TenantType ==
  [status : StatusType, customer : Nat, sub : Sessions \cup {NoSub}, override : Overrides,
   trialOver : BOOLEAN]
SubType == [state : StripeStates, price : Nat, qty : Nat, ending : BOOLEAN]
EventType ==
  [n : Nat, kind : {"completed", "updated", "deleted"}, sub : Sessions, state : PaidStates]
HandlerType == [event : EventType, status : {"ACTIVE", "PAST_DUE", "CANCELED"}]
OperationType ==
  [pc : {"idle", "create", "save", "act", "write", "item", "count"}, kind : {"card", "checkout"},
   customer : Nat, price : Nat, sub : Sessions \cup {NoSub}, qty : 0 .. MaxDevices + 1]
BilledForOne == \A k \in Sessions : subs[k].state # "none" => subs[k].qty \in 1 .. MaxDevices + 1
Typed ==
  /\ tenant \in TenantType /\ fleet \in 0 .. MaxDevices /\ customers \in Nat
  /\ subs \in [Sessions -> SubType] /\ BilledForOne
  /\ events \subseteq EventType /\ handlers \subseteq HandlerType
  /\ request \in OperationType /\ request.pc \in {"idle", "create", "save", "act"}
  /\ pricing \in OperationType /\ pricing.pc \in {"idle", "write", "item"}
  /\ sync \in OperationType /\ sync.pc \in {"idle", "count", "item"}
  /\ sync.pc = "item" => sync.qty \in 1 .. MaxDevices + 1
  /\ changes \in Nat /\ rates \in Nat /\ stripeFaults \in Nat

LEMMA Numbers ==
  /\ StandardPrice \in Nat /\ MaxDevices \in Nat /\ MaxSessions \in Nat
  /\ \A o \in Overrides : o # Standard => o \in Nat
  /\ \A n \in 0 .. MaxDevices : Quantity(n) \in 1 .. MaxDevices + 1
  /\ Off \in OperationType /\ Off.pc = "idle" /\ NoSession \in SubType
<1>1. /\ StandardPrice \in Nat /\ MaxDevices \in Nat /\ MaxSessions \in Nat
      /\ \A o \in Overrides : o # Standard => o \in Nat
  BY SubscriptionAssumption DEF Overrides
<1>2. \A n \in 0 .. MaxDevices : Quantity(n) \in 1 .. MaxDevices + 1
  BY <1>1 DEF Quantity
<1>3. Off \in OperationType /\ Off.pc = "idle"
  BY <1>1 DEF Off, OperationType
<1>4. NoSession \in SubType
  BY DEF NoSession, SubType, StripeStates
<1> QED BY <1>1, <1>2, <1>3, <1>4

LEMMA PriceType == Typed => EffectivePrice \in Nat
BY Numbers DEF EffectivePrice, Typed, TenantType

\* Stripe reports a subscription in a state that is paid or was.
LEMMA ReportsType ==
  ASSUME Typed, NEW kind \in {"completed", "updated", "deleted"}, NEW k \in Sessions, NEW s \in SubType,
         Reports(kind, k, s), s.state \in PaidStates, s.qty = subs[k].qty, subs[k].state # "none"
  PROVE  Typed'
<1>1. subs' \in [Sessions -> SubType] /\ BilledForOne'
  BY DEF Reports, Typed, BilledForOne
<1>2. events' \subseteq EventType /\ changes' \in Nat
  <2>1. [n |-> changes, kind |-> kind, sub |-> k, state |-> s.state] \in EventType
    BY DEF Typed, EventType
  <2> QED BY <2>1 DEF Reports, Typed
<1> QED BY <1>1, <1>2 DEF Reports, Typed

LEMMA StripeTyped == ASSUME Typed, StripeStep PROVE Typed'
<1>0. subs \in [Sessions -> SubType]
  BY DEF Typed
<1>1. ASSUME NEW k \in Sessions, Pay(k) PROVE Typed'
  <2> DEFINE s == [subs[k] EXCEPT !.state = "active"]
  <2>1. s \in SubType /\ s.state \in PaidStates /\ s.qty = subs[k].qty
    BY <1>0 DEF SubType, StripeStates, PaidStates
  <2>2. Reports("completed", k, s) /\ subs[k].state # "none"
    BY <1>1 DEF Pay
  <2> HIDE DEF s
  <2> QED BY <2>1, <2>2, ReportsType
<1>2. ASSUME NEW k \in Sessions, ChargeFails(k) PROVE Typed'
  <2> DEFINE s == [subs[k] EXCEPT !.state = "past_due"]
  <2>1. s \in SubType /\ s.state \in PaidStates /\ s.qty = subs[k].qty
    BY <1>0 DEF SubType, StripeStates, PaidStates
  <2>2. Reports("updated", k, s) /\ subs[k].state # "none"
    BY <1>2 DEF ChargeFails
  <2> HIDE DEF s
  <2> QED BY <2>1, <2>2, ReportsType
<1>3. ASSUME NEW k \in Sessions, ChargeSucceeds(k) PROVE Typed'
  <2> DEFINE s == [subs[k] EXCEPT !.state = "active"]
  <2>1. s \in SubType /\ s.state \in PaidStates /\ s.qty = subs[k].qty
    BY <1>0 DEF SubType, StripeStates, PaidStates
  <2>2. Reports("updated", k, s) /\ subs[k].state # "none"
    BY <1>3 DEF ChargeSucceeds
  <2> HIDE DEF s
  <2> QED BY <2>1, <2>2, ReportsType
<1>4. ASSUME NEW k \in Sessions, Ends(k) PROVE Typed'
  <2> DEFINE s == [subs[k] EXCEPT !.state = "canceled"]
  <2>1. s \in SubType /\ s.state \in PaidStates /\ s.qty = subs[k].qty
    BY <1>0 DEF SubType, StripeStates, PaidStates
  <2>2. Reports("deleted", k, s) /\ subs[k].state # "none"
    BY <1>4 DEF Ends
  <2> HIDE DEF s
  <2> QED BY <2>1, <2>2, ReportsType
<1>5. ASSUME NEW ending \in BOOLEAN, SetEnding(ending) PROVE Typed'
  <2> DEFINE k == tenant.sub
             s == [subs[k] EXCEPT !.ending = ending]
  <2>1. k \in Sessions /\ subs[k].state \in {"active", "past_due"}
    BY <1>5 DEF SetEnding, LiveSub, Typed, TenantType
  <2>2. s \in SubType /\ s.state \in PaidStates /\ s.qty = subs[k].qty
    BY <1>0, <2>1 DEF SubType, StripeStates, PaidStates
  <2>3. Reports("updated", k, s)
    BY <1>5 DEF SetEnding
  <2> HIDE DEF s, k
  <2> QED BY <2>1, <2>2, <2>3, ReportsType
<1> QED BY <1>1, <1>2, <1>3, <1>4, <1>5 DEF StripeStep

LEMMA SubscriptionStepTyped == ASSUME Typed, [SubscriptionNext]_subscriptionVars PROVE Typed'
<1>1. ASSUME NEW kind \in {"checkout", "card"}, Ask(kind) PROVE Typed'
  <2>1. request' \in OperationType /\ request'.pc \in {"idle", "create", "save", "act"}
    BY <1>1, Numbers, PriceType DEF Ask, Typed, TenantType, OperationType, Off
  <2> QED BY <1>1, <2>1 DEF Ask, Typed, stripeVars, BilledForOne
<1>2. CASE CreateCustomer
  <2>1. customers' \in Nat /\ stripeFaults' \in Nat
    BY <1>2 DEF CreateCustomer, Typed, StripeFault
  <2>2. request' \in OperationType /\ request'.pc \in {"idle", "create", "save", "act"}
    BY <1>2, <2>1, Numbers DEF CreateCustomer, Typed, OperationType
  <2> QED BY <1>2, <2>1, <2>2 DEF CreateCustomer, Typed, BilledForOne
<1>3. CASE SaveCustomer
  <2>1. tenant' \in TenantType
    BY <1>3 DEF SaveCustomer, Typed, TenantType, OperationType
  <2>2. request' \in OperationType /\ request'.pc \in {"idle", "create", "save", "act"}
    BY <1>3 DEF SaveCustomer, Typed, OperationType
  <2> QED BY <1>3, <2>1, <2>2 DEF SaveCustomer, Typed, stripeVars, BilledForOne
<1>4. CASE OpenSession
  <2>1. PICK k \in Sessions : subs' = [subs EXCEPT ![k] =
          [state |-> "open", price |-> request.price, qty |-> Quantity(fleet), ending |-> FALSE]]
    BY <1>4 DEF OpenSession
  <2>2. [state |-> "open", price |-> request.price, qty |-> Quantity(fleet), ending |-> FALSE] \in SubType
    BY Numbers DEF Typed, SubType, StripeStates, OperationType
  <2>3. subs' \in [Sessions -> SubType] /\ BilledForOne'
    BY <2>1, <2>2, Numbers DEF Typed, BilledForOne
  <2>4. request' \in OperationType /\ request'.pc = "idle"
    BY <1>4, Numbers DEF OpenSession
  <2> QED BY <1>4, <2>3, <2>4 DEF OpenSession, Typed
<1>5. CASE SetupCard
  BY <1>5, Numbers DEF SetupCard, Typed, stripeVars, BilledForOne
<1>6. ASSUME NEW e \in events, Deliver(e) PROVE Typed'
  <2>1. e \in EventType /\ StatusSeen(e) \in {"ACTIVE", "PAST_DUE", "CANCELED"}
    BY DEF Typed, StatusSeen, MappedStatus
  <2>2. handlers' \subseteq HandlerType
    BY <1>6, <2>1 DEF Deliver, Typed, HandlerType
  <2> QED BY <1>6, <2>2 DEF Deliver, Typed, BilledForOne
<1>7. ASSUME NEW h \in handlers, WriteStatus(h) PROVE Typed'
  <2>1. h \in HandlerType
    BY DEF Typed
  <2>2. tenant' \in TenantType
    BY <1>7, <2>1 DEF WriteStatus, Typed, TenantType, HandlerType, EventType, StatusType
  <2> QED BY <1>7, <2>2 DEF WriteStatus, Typed, stripeVars, BilledForOne
<1>8. ASSUME NEW h \in handlers, Redeliver(h) PROVE Typed'
  <2>1. h.event \in EventType /\ stripeFaults' \in Nat
    BY <1>8 DEF Typed, HandlerType, Redeliver, StripeFault
  <2> QED BY <1>8, <2>1 DEF Redeliver, Typed, BilledForOne
<1>9. CASE ReadForPricing
  <2>1. pricing' \in OperationType /\ pricing'.pc = "write"
    BY <1>9, Numbers DEF ReadForPricing, Typed, TenantType, OperationType, Off
  <2>2. rates' \in Nat
    BY <1>9 DEF ReadForPricing, Typed
  <2> QED BY <1>9, <2>1, <2>2 DEF ReadForPricing, Typed, stripeVars, BilledForOne
<1>10. ASSUME NEW o \in Overrides, WriteOverride(o) PROVE Typed'
  <2>1. tenant' \in TenantType
    BY <1>10 DEF WriteOverride, Typed, TenantType
  <2>2. pricing' \in OperationType /\ pricing'.pc \in {"idle", "item"}
    BY <1>10, Numbers DEF WriteOverride, Typed, OperationType
  <2> QED BY <1>10, <2>1, <2>2 DEF WriteOverride, Typed, stripeVars, BilledForOne
<1>11. ASSUME PriceItem \/ SyncItem PROVE Typed'
  <2>1. subs' \in [Sessions -> SubType] /\ BilledForOne'
    <3>1. CASE UNCHANGED subs
      BY <3>1 DEF Typed, BilledForOne
    <3>2. CASE LiveSub(pricing.sub) /\ subs' = [subs EXCEPT ![pricing.sub].price = pricing.price]
      <4>1. pricing.sub \in Sessions /\ pricing.price \in Nat /\ subs[pricing.sub] \in SubType
        BY <3>2 DEF LiveSub, Typed, OperationType
      <4>2. subs' = [subs EXCEPT ![pricing.sub] = [subs[pricing.sub] EXCEPT !.price = pricing.price]]
        BY <3>2, <4>1 DEF Typed
      <4>3. /\ [subs[pricing.sub] EXCEPT !.price = pricing.price] \in SubType
            /\ [subs[pricing.sub] EXCEPT !.price = pricing.price].qty = subs[pricing.sub].qty
            /\ [subs[pricing.sub] EXCEPT !.price = pricing.price].state = subs[pricing.sub].state
        BY <4>1 DEF SubType
      <4> QED BY <4>1, <4>2, <4>3 DEF Typed, BilledForOne
    <3>3. CASE /\ sync.pc = "item" /\ LiveSub(sync.sub)
               /\ subs' = [subs EXCEPT ![sync.sub].price = sync.price, ![sync.sub].qty = sync.qty]
      <4> DEFINE s == [subs[sync.sub] EXCEPT !.price = sync.price, !.qty = sync.qty]
      <4>1. /\ sync.sub \in Sessions /\ sync.price \in Nat /\ subs[sync.sub] \in SubType
            /\ sync.qty \in 1 .. MaxDevices + 1 /\ sync.qty \in Nat
        BY <3>3, Numbers DEF LiveSub, Typed, OperationType
      <4>2. subs' = [subs EXCEPT ![sync.sub] = s]
        BY <3>3, <4>1 DEF Typed
      <4>3. s \in SubType /\ s.qty = sync.qty
        BY <4>1 DEF SubType
      <4> HIDE DEF s
      <4> QED BY <4>1, <4>2, <4>3 DEF Typed, BilledForOne
    <3> QED BY <1>11, <3>1, <3>2, <3>3 DEF PriceItem, SyncItem
  <2>2. /\ pricing' \in OperationType /\ pricing'.pc \in {"idle", "write", "item"}
        /\ sync' \in OperationType /\ sync'.pc \in {"idle", "count", "item"}
        /\ sync'.pc = "item" => sync'.qty \in 1 .. MaxDevices + 1
        /\ stripeFaults' \in Nat
    <3>1. CASE PriceItem
      BY <3>1, Numbers DEF PriceItem, Typed, StripeFault
    <3>2. CASE SyncItem
      BY <3>2, Numbers DEF SyncItem, Typed, StripeFault
    <3> QED BY <1>11, <3>1, <3>2
  <2> QED BY <1>11, <2>1, <2>2 DEF PriceItem, SyncItem, Typed
<1>12. CASE StartSync
  <2>1. sync' \in OperationType /\ sync'.pc = "count"
    BY <1>12, Numbers, PriceType DEF StartSync, Typed, TenantType, OperationType, Off
  <2> QED BY <1>12, <2>1 DEF StartSync, Typed, stripeVars, BilledForOne
<1>13. CASE CountDevices
  <2>1. Quantity(fleet) \in 1 .. MaxDevices + 1 /\ Quantity(fleet) \in 0 .. MaxDevices + 1
    BY Numbers DEF Typed
  <2>2. sync' \in OperationType /\ sync'.pc = "item" /\ sync'.qty = Quantity(fleet)
    BY <1>13, <2>1 DEF CountDevices, Typed, OperationType
  <2> QED BY <1>13, <2>1, <2>2 DEF CountDevices, Typed, stripeVars, BilledForOne
<1>14. CASE NewDevice
  <2>1. fleet' \in 0 .. MaxDevices
    BY <1>14, Numbers DEF NewDevice, Typed
  <2> QED BY <1>14, <2>1 DEF NewDevice, Typed, stripeVars, BilledForOne
<1>15. CASE TrialEnds
  <2>1. tenant' \in TenantType
    BY <1>15 DEF TrialEnds, Typed, TenantType
  <2> QED BY <1>15, <2>1 DEF TrialEnds, Typed, stripeVars, BilledForOne
<1>16. CASE UNCHANGED subscriptionVars
  BY <1>16 DEF subscriptionVars, stripeVars, Typed, BilledForOne
<1> QED
  BY <1>1, <1>2, <1>3, <1>4, <1>5, <1>6, <1>7, <1>8, <1>9, <1>10, <1>11, <1>12, <1>13, <1>14,
     <1>15, <1>16, StripeTyped
  DEF SubscriptionNext, RequestStep, HandlerStep, PricingStep, SyncStep

LEMMA SubscriptionInitTyped == SubscriptionInit => Typed
BY Numbers DEF SubscriptionInit, Typed, TenantType, StatusType, Overrides, BilledForOne, NoSession

(* The row, Stripe's subscriptions and what is under way keep their shape,  *)
(* and a live subscription is billed for one device at least.               *)
THEOREM SubscriptionTyped == SubscriptionSpec => []SubscriptionTypeOK
<1>1. Typed => SubscriptionTypeOK
  BY DEF Typed, SubscriptionTypeOK, TenantType, StatusType, SubType, EventType, HandlerType, BilledForOne
<1> QED BY <1>1, SubscriptionInitTyped, SubscriptionStepTyped, PTL DEF SubscriptionSpec
-----------------------------------------------------------------------------
(* One event at a time, in the order Stripe reported them.  The last event  *)
(* not yet handled of a subscription says what it has become (LastWord);    *)
(* the handler at work writes it (WritesLastWord), and a row about whose    *)
(* subscription nothing is pending already has it (RowInStep).              *)
Pending == events \cup {h.event : h \in handlers}
Paid(k) == subs[k].state \in PaidStates
OneAtATime ==
  /\ \A h, g \in handlers : h = g
  /\ \A h \in handlers, e \in events : h.event.n < e.n
EventsInOrder ==
  /\ \A e \in Pending : e.n < changes /\ Paid(e.sub)
  /\ \A e, f \in Pending : e.n = f.n => e = f
Last(e) == \A f \in Pending : f.sub = e.sub => f.n <= e.n
LastWord == \A e \in Pending : Last(e) => e.state = subs[e.sub].state
WritesLastWord ==
  \A h \in handlers :
    /\ h.event.kind # "completed" => tenant.sub = h.event.sub
    /\ (\A e \in events : e.sub # h.event.sub) => h.status = MappedStatus(subs[h.event.sub].state)
RowInStep ==
  /\ tenant.sub # NoSub => Paid(tenant.sub)
  /\ (\E k \in Sessions : Paid(k)) =>
       tenant.sub # NoSub \/ \E e \in Pending : e.kind = "completed"
  /\ tenant.sub # NoSub /\ (\A e \in Pending : e.sub # tenant.sub) =>
       tenant.status = MappedStatus(subs[tenant.sub].state)
Ordered == OneAtATime /\ EventsInOrder /\ LastWord /\ WritesLastWord /\ RowInStep

\* A step that no event, no handler and nothing they speak of takes part in,
\* and a report of Stripe's.
Quiet ==
  /\ UNCHANGED <<events, handlers, changes>>
  /\ tenant'.sub = tenant.sub /\ tenant'.status = tenant.status
  /\ \A k \in Sessions :
       subs'[k].state = subs[k].state \/ (~Paid(k) /\ subs'[k].state \notin PaidStates)
Reporting ==
  \E kind \in {"completed", "updated", "deleted"}, k \in Sessions, s \in SubType :
    Reports(kind, k, s) /\ s.state \in PaidStates /\ (kind = "completed" \/ Paid(k))

LEMMA RowAlone ==
  ASSUME Typed, Ordered, UNCHANGED <<events, handlers, changes>>,
         tenant'.sub = tenant.sub, tenant'.status = tenant.status,
         \A k \in Sessions : subs'[k].state = subs[k].state \/ (~Paid(k) /\ subs'[k].state \notin PaidStates)
  PROVE  Ordered'
<1>1. \A k \in Sessions : (Paid(k) => subs'[k].state = subs[k].state) /\ (Paid(k)' => Paid(k))
  BY DEF Paid
<1>2. Pending' = Pending /\ \A e \in Pending : e \in EventType
  BY DEF Pending, Typed, HandlerType
<1>3. OneAtATime'
  BY DEF Ordered, OneAtATime
<1>4. EventsInOrder'
  BY <1>1, <1>2 DEF Ordered, EventsInOrder, EventType, Paid
<1>5. LastWord'
  BY <1>1, <1>2 DEF Ordered, LastWord, Last, EventsInOrder, EventType
<1>6. WritesLastWord'
  <2> SUFFICES ASSUME NEW h \in handlers
               PROVE  /\ h.event.kind # "completed" => tenant.sub = h.event.sub
                      /\ (\A e \in events : e.sub # h.event.sub) =>
                           h.status = MappedStatus(subs'[h.event.sub].state)
    BY DEF WritesLastWord, MappedStatus
  <2>1. h.event \in Pending /\ h.event \in EventType
    BY <1>2 DEF Pending
  <2>2. subs'[h.event.sub].state = subs[h.event.sub].state
    BY <1>1, <2>1 DEF Ordered, EventsInOrder, EventType
  <2> QED BY <2>2 DEF Ordered, WritesLastWord
<1>7. RowInStep'
  <2>1. tenant.sub # NoSub => Paid(tenant.sub) /\ tenant.sub \in Sessions
    BY DEF Ordered, RowInStep, Typed, TenantType
  <2>2. tenant'.sub # NoSub => Paid(tenant.sub)'
    <3> SUFFICES ASSUME tenant'.sub # NoSub PROVE subs'[tenant'.sub].state \in PaidStates
      BY DEF Paid
    <3> QED BY <1>1, <2>1 DEF Paid
  <2>3. (\E k \in Sessions : Paid(k)') =>
           tenant'.sub # NoSub \/ \E e \in Pending' : e.kind = "completed"
    BY <1>1, <1>2 DEF Ordered, RowInStep
  <2>4. tenant'.sub # NoSub /\ (\A e \in Pending' : e.sub # tenant'.sub) =>
           tenant'.status = MappedStatus(subs'[tenant'.sub].state)
    <3> SUFFICES ASSUME tenant.sub # NoSub, \A e \in Pending : e.sub # tenant.sub
                 PROVE  tenant.status = MappedStatus(subs'[tenant.sub].state)
      BY <1>2
    <3>1. subs'[tenant.sub].state = subs[tenant.sub].state
      BY <1>1, <2>1
    <3> QED BY <3>1 DEF Ordered, RowInStep
  <2> QED BY <2>2, <2>3, <2>4 DEF RowInStep, Paid, MappedStatus
<1> QED BY <1>3, <1>4, <1>5, <1>6, <1>7 DEF Ordered

\* Stripe reports what has become of a subscription: the report comes last.
LEMMA Reported ==
  ASSUME Typed, Ordered, NEW kind \in {"completed", "updated", "deleted"}, NEW k \in Sessions,
         NEW s \in SubType, Reports(kind, k, s), s.state \in PaidStates,
         kind = "completed" \/ Paid(k)
  PROVE  Ordered'
<1> DEFINE fresh == [n |-> changes, kind |-> kind, sub |-> k, state |-> s.state]
<1>1. /\ events' = events \cup {fresh} /\ handlers' = handlers /\ changes' = changes + 1
      /\ tenant' = tenant /\ subs' = [subs EXCEPT ![k] = s] /\ changes \in Nat
      /\ subs \in [Sessions -> SubType]
  BY DEF Reports, Typed
<1>2. /\ fresh.n = changes /\ fresh.kind = kind /\ fresh.sub = k /\ fresh.state = s.state
      /\ fresh \in EventType
  BY <1>1 DEF EventType
<1> HIDE DEF fresh
<1>3. Pending' = Pending \cup {fresh} /\ \A e \in Pending : e \in EventType /\ e.n < changes /\ Paid(e.sub)
  BY <1>1 DEF Pending, Typed, HandlerType, Ordered, EventsInOrder
<1>4. \A j \in Sessions : subs'[j] = IF j = k THEN s ELSE subs[j]
  BY <1>1
<1>5. \A j \in Sessions : Paid(j) => Paid(j)'
  BY <1>4 DEF Paid
<1>6. OneAtATime'
  <2>1. \A h \in handlers : h.event \in Pending
    BY DEF Pending
  <2> QED BY <1>1, <1>2, <1>3, <2>1 DEF Ordered, OneAtATime
<1>7. EventsInOrder'
  <2>1. \A e \in Pending' : e.n < changes + 1 /\ Paid(e.sub)'
    <3>1. Paid(k)'
      BY <1>4 DEF Paid
    <3> QED BY <1>1, <1>2, <1>3, <1>5, <3>1 DEF EventType
  <2>2. \A e, f \in Pending' : e.n = f.n => e = f
    BY <1>1, <1>2, <1>3 DEF Ordered, EventsInOrder, EventType
  <2> QED BY <1>1, <2>1, <2>2 DEF EventsInOrder, Paid
<1>8. LastWord'
  <2> SUFFICES ASSUME NEW e \in Pending', \A f \in Pending' : f.sub = e.sub => f.n <= e.n
               PROVE  e.state = subs'[e.sub].state
    BY DEF LastWord, Last
  <2>1. CASE e = fresh
    BY <1>2, <1>4, <2>1
  <2>2. CASE e # fresh
    <3>1. e \in Pending /\ e \in EventType /\ e.n < changes
      BY <1>3, <2>2
    <3>2. e.sub # k
      BY <1>1, <1>2, <1>3, <3>1 DEF EventType
    <3>3. e.state = subs[e.sub].state
      BY <1>3, <3>1 DEF Ordered, LastWord, Last
    <3> QED BY <1>4, <3>1, <3>2, <3>3 DEF EventType
  <2> QED BY <2>1, <2>2
<1>9. WritesLastWord'
  <2> SUFFICES ASSUME NEW h \in handlers
               PROVE  /\ h.event.kind # "completed" => tenant.sub = h.event.sub
                      /\ (\A e \in events' : e.sub # h.event.sub) =>
                           h.status = MappedStatus(subs'[h.event.sub].state)
    BY <1>1 DEF WritesLastWord, MappedStatus
  <2>1. h.event \in EventType
    BY DEF Typed, HandlerType
  <2>2. (\A e \in events' : e.sub # h.event.sub) => subs'[h.event.sub] = subs[h.event.sub]
    BY <1>1, <1>2, <1>4, <2>1 DEF EventType
  <2> QED BY <1>1, <2>2 DEF Ordered, WritesLastWord
<1>10. RowInStep'
  <2>1. tenant.sub # NoSub => tenant.sub \in Sessions /\ Paid(tenant.sub)
    BY DEF Ordered, RowInStep, Typed, TenantType
  <2>2. tenant.sub # NoSub => subs'[tenant.sub].state \in PaidStates
    BY <1>4, <2>1 DEF Paid
  <2>3. tenant.sub # NoSub \/ (\E e \in Pending' : e.kind = "completed")
    BY <1>2, <1>3 DEF Ordered, RowInStep
  <2>4. tenant.sub # NoSub /\ (\A e \in Pending' : e.sub # tenant.sub) =>
           tenant.status = MappedStatus(subs'[tenant.sub].state)
    <3> SUFFICES ASSUME tenant.sub # NoSub, \A e \in Pending' : e.sub # tenant.sub
                 PROVE  tenant.status = MappedStatus(subs'[tenant.sub].state)
      OBVIOUS
    <3>1. subs'[tenant.sub] = subs[tenant.sub]
      BY <1>2, <1>3, <1>4, <2>1
    <3> QED BY <1>3, <3>1 DEF Ordered, RowInStep
  <2> QED BY <1>1, <2>2, <2>3, <2>4 DEF RowInStep, Paid, MappedStatus
<1> QED BY <1>6, <1>7, <1>8, <1>9, <1>10 DEF Ordered

\* The earliest event is handed to a handler, or is of a subscription that no
\* row names and is dropped.
LEMMA Delivered ==
  ASSUME ~Overlap, Typed, Ordered, NEW e \in events, Deliver(e)
  PROVE  Ordered'
<1>1. /\ handlers = {} /\ \A f \in events : e.n <= f.n
      /\ events' = events \ {e} /\ UNCHANGED <<tenant, subs, changes>>
      /\ handlers' = IF Concerns(e) THEN {[event |-> e, status |-> StatusSeen(e)]} ELSE {}
  BY DEF Deliver
<1>2. /\ Pending = events /\ \A f \in events : f \in EventType
      /\ \A f, g \in events : f.n = g.n => f = g
  BY <1>1 DEF Pending, Typed, Ordered, EventsInOrder
<1>3. Pending' = IF Concerns(e) THEN events ELSE events \ {e}
  <2>1. CASE Concerns(e)
    <3>1. handlers' = {[event |-> e, status |-> StatusSeen(e)]}
      BY <1>1, <2>1
    <3>2. {h.event : h \in handlers'} = {e}
      BY <3>1
    <3> QED BY <1>1, <2>1, <3>2 DEF Pending
  <2>2. CASE ~Concerns(e)
    BY <1>1, <2>2 DEF Pending
  <2> QED BY <2>1, <2>2
<1>4. \A h \in handlers' : h.event = e /\ h.status = StatusSeen(e) /\ Concerns(e)
  BY <1>1
<1>5. OneAtATime'
  <2>1. \A h, g \in handlers' : h = g
    BY <1>1
  <2>2. \A h \in handlers', f \in events' : h.event.n < f.n
    BY <1>1, <1>2, <1>4 DEF EventType
  <2> QED BY <2>1, <2>2 DEF OneAtATime
<1>6. EventsInOrder'
  BY <1>1, <1>2, <1>3 DEF Ordered, EventsInOrder, Paid
<1>7. LastWord'
  <2> SUFFICES ASSUME NEW f \in Pending', \A g \in Pending' : g.sub = f.sub => g.n <= f.n
               PROVE  f.state = subs[f.sub].state
    BY <1>1 DEF LastWord, Last
  <2>1. f \in Pending /\ f \in EventType /\ e \in EventType /\ e.n <= f.n
    BY <1>1, <1>2, <1>3
  <2>2. \A g \in Pending : g.sub = f.sub => g.n <= f.n
    BY <1>2, <1>3, <2>1
  <2> QED BY <2>1, <2>2 DEF Ordered, LastWord, Last
<1>8. WritesLastWord'
  <2> SUFFICES ASSUME Concerns(e)
               PROVE  /\ e.kind # "completed" => tenant.sub = e.sub
                      /\ (\A f \in events \ {e} : f.sub # e.sub) =>
                           StatusSeen(e) = MappedStatus(subs[e.sub].state)
    BY <1>1, <1>4 DEF WritesLastWord
  <2>1. e.kind # "completed" => tenant.sub = e.sub
    BY DEF Concerns
  <2>2. (\A f \in events \ {e} : f.sub # e.sub) => e.state = subs[e.sub].state
    BY <1>1, <1>2 DEF Ordered, LastWord, Last, EventType
  <2> QED BY <2>1, <2>2 DEF StatusSeen
<1>9. RowInStep'
  <2>1. e.kind = "completed" => Concerns(e)
    BY DEF Concerns
  <2>2. (\E k \in Sessions : Paid(k)) =>
           tenant.sub # NoSub \/ \E f \in Pending' : f.kind = "completed"
    BY <1>2, <1>3, <2>1 DEF Ordered, RowInStep
  <2>3. (\A f \in Pending' : f.sub # tenant.sub) => (\A f \in Pending : f.sub # tenant.sub)
    BY <1>2, <1>3 DEF Concerns
  <2> QED BY <1>1, <2>2, <2>3 DEF Ordered, RowInStep, Paid
<1> QED BY <1>5, <1>6, <1>7, <1>8, <1>9 DEF Ordered

\* The handler at work writes what its event said, or what Stripe said then.
LEMMA StatusWritten ==
  ASSUME Typed, Ordered, NEW h \in handlers, WriteStatus(h)
  PROVE  Ordered'
<1> DEFINE k == h.event.sub
<1>1. /\ handlers' = {} /\ UNCHANGED <<events, subs, changes>>
      /\ h.event \in EventType /\ k \in Sessions /\ k # NoSub
      /\ tenant'.status = h.status
      /\ tenant'.sub = k
  <2>1. handlers = {h}
    BY DEF Ordered, OneAtATime
  <2>2. h.event \in EventType /\ k \in Sessions /\ k # NoSub
    BY DEF Typed, HandlerType, EventType, Sessions, NoSub
  <2>3. /\ tenant'.status = h.status
        /\ tenant'.sub = IF h.event.kind = "completed" THEN k ELSE tenant.sub
    BY DEF WriteStatus, Typed, TenantType
  <2>4. h.event.kind # "completed" => tenant.sub = k
    BY DEF Ordered, WritesLastWord
  <2>5. handlers' = {} /\ UNCHANGED <<events, subs, changes>>
    BY <2>1 DEF WriteStatus, stripeVars
  <2> QED BY <2>2, <2>3, <2>4, <2>5
<1>2. /\ Pending' = events /\ h.event \in Pending /\ events \subseteq Pending
      /\ \A e \in events : e \in EventType /\ h.event.n < e.n
  BY <1>1 DEF Pending, Typed, Ordered, OneAtATime
<1>3. OneAtATime' /\ WritesLastWord'
  BY <1>1 DEF OneAtATime, WritesLastWord
<1>4. EventsInOrder'
  BY <1>1, <1>2 DEF Ordered, EventsInOrder, Paid
<1>5. LastWord'
  <2> SUFFICES ASSUME NEW e \in events, \A f \in events : f.sub = e.sub => f.n <= e.n
               PROVE  e.state = subs[e.sub].state
    BY <1>1, <1>2 DEF LastWord, Last
  <2>1. \A f \in Pending : f \in events \/ f = h.event
    BY DEF Pending, Ordered, OneAtATime
  <2>2. \A f \in Pending : f.sub = e.sub => f.n <= e.n
    BY <1>1, <1>2, <2>1 DEF EventType
  <2> QED BY <1>2, <2>2 DEF Ordered, LastWord, Last
<1>6. RowInStep'
  <2>1. Paid(k)
    BY <1>2 DEF Ordered, EventsInOrder
  <2>2. (\A e \in events : e.sub # k) => h.status = MappedStatus(subs[k].state)
    BY DEF Ordered, WritesLastWord
  <2> QED BY <1>1, <1>2, <2>1, <2>2 DEF RowInStep, Paid, MappedStatus
<1> QED BY <1>3, <1>4, <1>5, <1>6 DEF Ordered

\* A handler that failed gives its event back.
LEMMA GivenBack ==
  ASSUME Typed, Ordered, NEW h \in handlers, Redeliver(h)
  PROVE  Ordered'
<1>1. /\ handlers = {h} /\ handlers' = {} /\ events' = events \cup {h.event}
      /\ UNCHANGED <<tenant, subs, changes>>
  BY DEF Redeliver, Ordered, OneAtATime
<1>2. Pending' = Pending
  <2>1. {g.event : g \in handlers} = {h.event}
    BY <1>1
  <2> QED BY <1>1, <2>1 DEF Pending
<1>3. OneAtATime' /\ WritesLastWord'
  BY <1>1 DEF OneAtATime, WritesLastWord
<1>4. EventsInOrder' /\ LastWord' /\ RowInStep'
  BY <1>1, <1>2 DEF Ordered, EventsInOrder, LastWord, Last, RowInStep, Paid, MappedStatus
<1> QED BY <1>3, <1>4 DEF Ordered

\* Every step is quiet, a report, or one of a handler.
LEMMA StepKinds ==
  ASSUME Typed, [SubscriptionNext]_subscriptionVars
  PROVE  \/ Quiet \/ Reporting
         \/ \E e \in events : Deliver(e)
         \/ \E h \in handlers : WriteStatus(h) \/ Redeliver(h)
<1>0. subs \in [Sessions -> SubType] /\ tenant \in TenantType
  BY DEF Typed
<1>1. ASSUME NEW kind \in {"checkout", "card"}, Ask(kind) PROVE Quiet
  BY <1>1 DEF Quiet, Ask, stripeVars
<1>2. ASSUME CreateCustomer PROVE Quiet
  BY <1>2 DEF Quiet, CreateCustomer
<1>3. ASSUME SaveCustomer PROVE Quiet
  <2>1. tenant'.sub = tenant.sub /\ tenant'.status = tenant.status
    BY <1>0, <1>3 DEF SaveCustomer, TenantType
  <2> QED BY <1>3, <2>1 DEF Quiet, SaveCustomer, stripeVars
<1>4. ASSUME OpenSession PROVE Quiet
  <2>1. PICK k \in Sessions : /\ subs[k].state = "none"
                              /\ subs' = [subs EXCEPT ![k] = [state |-> "open", price |-> request.price,
                                                              qty |-> Quantity(fleet), ending |-> FALSE]]
    BY <1>4 DEF OpenSession
  <2>2. \A j \in Sessions : subs'[j].state = subs[j].state \/ (~Paid(j) /\ subs'[j].state \notin PaidStates)
    BY <1>0, <2>1 DEF Paid, PaidStates
  <2> QED BY <1>4, <2>2 DEF Quiet, OpenSession
<1>5. ASSUME SetupCard PROVE Quiet
  BY <1>5 DEF Quiet, SetupCard, stripeVars
<1>6. ASSUME NEW k \in Sessions, Pay(k) \/ ChargeFails(k) \/ ChargeSucceeds(k) \/ Ends(k)
      PROVE  Reporting
  <2>1. PICK kind \in {"completed", "updated", "deleted"}, x \in PaidStates :
          /\ Reports(kind, k, [subs[k] EXCEPT !.state = x])
          /\ kind = "completed" \/ Paid(k)
    BY <1>6 DEF Pay, ChargeFails, ChargeSucceeds, Ends, Paid, PaidStates
  <2> DEFINE s == [subs[k] EXCEPT !.state = x]
  <2>2. s \in SubType /\ s.state \in PaidStates
    BY <1>0 DEF SubType, StripeStates, PaidStates
  <2>3. Reports(kind, k, s)
    BY <2>1
  <2> HIDE DEF s
  <2> QED BY <2>1, <2>2, <2>3 DEF Reporting
<1>7. ASSUME NEW ending \in BOOLEAN, SetEnding(ending) PROVE Reporting
  <2> DEFINE k == tenant.sub
             s == [subs[k] EXCEPT !.ending = ending]
  <2>1. k \in Sessions /\ subs[k].state \in {"active", "past_due"}
    BY <1>0, <1>7 DEF SetEnding, LiveSub, TenantType
  <2>2. s \in SubType /\ s.state \in PaidStates /\ Paid(k)
    BY <1>0, <2>1 DEF SubType, StripeStates, PaidStates, Paid
  <2>3. Reports("updated", k, s)
    BY <1>7 DEF SetEnding
  <2> HIDE DEF s, k
  <2> QED BY <2>1, <2>2, <2>3 DEF Reporting
<1>8. ASSUME NEW o \in Overrides, WriteOverride(o) PROVE Quiet
  <2>1. tenant'.sub = tenant.sub /\ tenant'.status = tenant.status
    BY <1>0, <1>8 DEF WriteOverride, TenantType
  <2> QED BY <1>8, <2>1 DEF Quiet, WriteOverride, stripeVars
<1>9. ASSUME PriceItem \/ SyncItem PROVE Quiet
  <2>1. \A j \in Sessions : subs'[j].state = subs[j].state
    <3>1. CASE UNCHANGED subs
      BY <3>1
    <3>2. CASE LiveSub(pricing.sub) /\ subs' = [subs EXCEPT ![pricing.sub].price = pricing.price]
      <4>1. pricing.sub \in Sessions
        BY <3>2 DEF LiveSub, Typed, OperationType
      <4> QED BY <1>0, <3>2, <4>1 DEF SubType
    <3>3. CASE /\ LiveSub(sync.sub)
               /\ subs' = [subs EXCEPT ![sync.sub].price = sync.price, ![sync.sub].qty = sync.qty]
      <4>1. sync.sub \in Sessions
        BY <3>3 DEF LiveSub, Typed, OperationType
      <4>2. subs' = [subs EXCEPT ![sync.sub] = [subs[sync.sub] EXCEPT !.price = sync.price, !.qty = sync.qty]]
        BY <1>0, <3>3, <4>1
      <4>3. [subs[sync.sub] EXCEPT !.price = sync.price, !.qty = sync.qty].state = subs[sync.sub].state
        BY <1>0, <4>1 DEF SubType
      <4> QED BY <1>0, <4>1, <4>2, <4>3
    <3> QED BY <1>9, <3>1, <3>2, <3>3 DEF PriceItem, SyncItem
  <2> QED BY <1>9, <2>1 DEF Quiet, PriceItem, SyncItem
<1>10. ASSUME TrialEnds PROVE Quiet
  <2>1. tenant'.sub = tenant.sub /\ tenant'.status = tenant.status
    BY <1>0, <1>10 DEF TrialEnds, TenantType
  <2> QED BY <1>10, <2>1 DEF Quiet, TrialEnds, stripeVars
<1>11. ASSUME ReadForPricing \/ StartSync \/ CountDevices \/ NewDevice \/ UNCHANGED subscriptionVars PROVE Quiet
  BY <1>11
  DEF Quiet, ReadForPricing, StartSync, CountDevices, NewDevice, stripeVars, subscriptionVars
<1> QED
  BY <1>1, <1>2, <1>3, <1>4, <1>5, <1>6, <1>7, <1>8, <1>9, <1>10, <1>11
  DEF SubscriptionNext, RequestStep, StripeStep, HandlerStep, PricingStep, SyncStep

LEMMA OrderedStep ==
  ASSUME ~Overlap, Typed, Ordered, [SubscriptionNext]_subscriptionVars
  PROVE  Ordered'
<1>1. CASE Quiet
  BY <1>1, RowAlone DEF Quiet
<1>2. CASE Reporting
  BY <1>2, Reported DEF Reporting
<1> QED BY <1>1, <1>2, StepKinds, Delivered, StatusWritten, GivenBack

(* Whatever order events are handled in, and whichever of them come back:   *)
(* they are about paid subscriptions, the row never names another, and a    *)
(* payment it does not know of yet is on its way.                           *)
Recorded ==
  /\ \A e \in Pending : Paid(e.sub)
  /\ tenant.sub # NoSub => Paid(tenant.sub) /\ tenant.status # "TRIALING"
  /\ (\E k \in Sessions : Paid(k)) =>
       tenant.sub # NoSub \/ \E e \in Pending : e.kind = "completed"

LEMMA RecordedStep ==
  ASSUME Typed, Recorded, [SubscriptionNext]_subscriptionVars
  PROVE  Recorded'
<1>0. /\ \A e \in Pending : e \in EventType
      /\ tenant.sub # NoSub => tenant.sub \in Sessions
  BY DEF Pending, Typed, HandlerType, TenantType
<1>1. ASSUME Quiet PROVE Recorded'
  <2>1. Pending' = Pending /\ \A k \in Sessions : Paid(k) <=> Paid(k)'
    BY <1>1 DEF Quiet, Pending, Paid
  <2>2. \A e \in Pending : Paid(e.sub)'
    BY <1>0, <2>1 DEF Recorded, EventType
  <2>3. tenant'.sub # NoSub => subs'[tenant'.sub].state \in PaidStates /\ tenant'.status # "TRIALING"
    BY <1>0, <1>1, <2>1 DEF Recorded, Quiet, Paid
  <2> QED BY <1>1, <2>1, <2>2, <2>3 DEF Recorded, Quiet, Paid
<1>2. ASSUME NEW kind \in {"completed", "updated", "deleted"}, NEW k \in Sessions, NEW s \in SubType,
             Reports(kind, k, s), s.state \in PaidStates, kind = "completed" \/ Paid(k)
      PROVE  Recorded'
  <2> DEFINE fresh == [n |-> changes, kind |-> kind, sub |-> k, state |-> s.state]
  <2>1. /\ events' = events \cup {fresh} /\ UNCHANGED <<handlers, tenant>>
        /\ \A j \in Sessions : subs'[j] = IF j = k THEN s ELSE subs[j]
    BY <1>2 DEF Reports, Typed
  <2>2. fresh.sub = k /\ fresh.kind = kind
    OBVIOUS
  <2> HIDE DEF fresh
  <2>3. Pending' = Pending \cup {fresh}
    BY <2>1 DEF Pending
  <2>4. \A j \in Sessions : (Paid(j) => Paid(j)') /\ (Paid(j)' => j = k \/ Paid(j))
    BY <1>2, <2>1 DEF Paid
  <2>5. Paid(k)'
    BY <1>2, <2>1 DEF Paid
  <2>6. \A e \in Pending' : Paid(e.sub)'
    BY <1>0, <2>2, <2>3, <2>4, <2>5 DEF Recorded, EventType
  <2>7. tenant.sub # NoSub => subs'[tenant.sub].state \in PaidStates /\ tenant.status # "TRIALING"
    BY <1>0, <2>4 DEF Recorded, Paid
  <2>8. tenant.sub # NoSub \/ \E e \in Pending' : e.kind = "completed"
    BY <1>2, <2>2, <2>3 DEF Recorded
  <2> QED BY <2>1, <2>6, <2>7, <2>8 DEF Recorded, Paid
<1>3. ASSUME NEW e \in events, Deliver(e) PROVE Recorded'
  <2>1. /\ UNCHANGED <<tenant, subs>> /\ events' = events \ {e}
        /\ handlers' = IF Concerns(e) THEN handlers \cup {[event |-> e, status |-> StatusSeen(e)]}
                       ELSE handlers
    BY <1>3 DEF Deliver
  <2>2. Pending' \subseteq Pending /\ Pending \subseteq Pending' \cup {e}
    BY <2>1 DEF Pending
  <2>3. e.kind = "completed" => e \in Pending'
    <3> DEFINE g == [event |-> e, status |-> StatusSeen(e)]
    <3>1. g.event = e
      OBVIOUS
    <3>2. e.kind = "completed" => g \in handlers'
      BY <2>1 DEF Concerns
    <3> HIDE DEF g
    <3> QED BY <3>1, <3>2 DEF Pending
  <2>4. (\E f \in Pending : f.kind = "completed") => \E f \in Pending' : f.kind = "completed"
    BY <2>2, <2>3
  <2>5. \A f \in Pending' : subs'[f.sub].state \in PaidStates
    BY <2>1, <2>2 DEF Recorded, Paid
  <2>6. \A k \in Sessions : Paid(k)' <=> Paid(k)
    BY <2>1 DEF Paid
  <2>7. tenant'.sub # NoSub => subs'[tenant'.sub].state \in PaidStates /\ tenant'.status # "TRIALING"
    BY <2>1 DEF Recorded, Paid
  <2> QED BY <2>1, <2>4, <2>5, <2>6, <2>7 DEF Recorded, Paid
<1>4. ASSUME NEW h \in handlers, WriteStatus(h) PROVE Recorded'
  <2>1. /\ UNCHANGED <<events, subs>> /\ handlers' = handlers \ {h}
        /\ tenant'.status = h.status
        /\ tenant'.sub = IF h.event.kind = "completed" THEN h.event.sub ELSE tenant.sub
    BY <1>4 DEF WriteStatus, stripeVars, Typed, TenantType
  <2>2. h.event \in Pending /\ h.event.sub \in Sessions /\ h.status # "TRIALING"
    BY DEF Pending, Typed, HandlerType, EventType
  <2>3. h.event.sub # NoSub
    BY <2>2 DEF Sessions, NoSub
  <2>4. Pending' \subseteq Pending /\ Pending \subseteq Pending' \cup {h.event}
    BY <2>1 DEF Pending
  <2> QED BY <2>1, <2>2, <2>3, <2>4 DEF Recorded, Paid
<1>5. ASSUME NEW h \in handlers, Redeliver(h) PROVE Recorded'
  <2>1. UNCHANGED <<tenant, subs>> /\ events' = events \cup {h.event} /\ handlers' = handlers \ {h}
    BY <1>5 DEF Redeliver
  <2>2. Pending' = Pending
    BY <2>1 DEF Pending
  <2> QED BY <2>1, <2>2 DEF Recorded, Paid
<1> QED BY <1>1, <1>2, <1>3, <1>4, <1>5, StepKinds DEF Reporting

(* No payment is lost: Stripe's events may overtake each other, come again  *)
(* after a handler that failed, and be worked on by several handlers at     *)
(* once; when all are handled, the row names a subscription exactly when a  *)
(* checkout was ever paid, and a paid one.                                  *)
THEOREM PaymentsRecorded == SubscriptionSpec => []PaymentRecorded
<1>1. SubscriptionInit => Typed /\ Recorded
  BY SubscriptionInitTyped DEF SubscriptionInit, Recorded, Pending, Paid, PaidStates, NoSession
<1>2. Typed /\ Recorded /\ [SubscriptionNext]_subscriptionVars => (Typed /\ Recorded)'
  BY SubscriptionStepTyped, RecordedStep
<1>3. Typed /\ Recorded => PaymentRecorded
  <2> SUFFICES ASSUME Typed, Recorded, events = {}, handlers = {}
               PROVE  /\ tenant.sub = NoSub <=> \A k \in Sessions : subs[k].state \in {"none", "open"}
                      /\ tenant.sub # NoSub => /\ subs[tenant.sub].state \notin {"none", "open"}
                                               /\ tenant.status # "TRIALING"
    BY DEF PaymentRecorded
  <2>1. Pending = {}
    BY DEF Pending
  <2>2. \A k \in Sessions : Paid(k) <=> subs[k].state \notin {"none", "open"}
    BY DEF Paid, PaidStates, Typed, SubType, StripeStates
  <2>3. tenant.sub # NoSub => tenant.sub \in Sessions /\ Paid(tenant.sub)
    BY DEF Recorded, Typed, TenantType
  <2>4. (\E k \in Sessions : Paid(k)) => tenant.sub # NoSub
    BY <2>1 DEF Recorded
  <2> QED BY <2>2, <2>3, <2>4 DEF Recorded
<1> QED BY <1>1, <1>2, <1>3, PTL DEF SubscriptionSpec

(* The same status where Stripe's events happen to be handled one at a time *)
(* and in order, which neither Stripe nor the handler sees to: then, however*)
(* often a handler fails and whatever else writes the row, the row has the  *)
(* status of the subscription it names as soon as no event is left.         *)
LEMMA StatusInOrder == ~Overlap => (SubscriptionSpec => []StatusFollowsStripe)
<1> SUFFICES ASSUME ~Overlap PROVE SubscriptionSpec => []StatusFollowsStripe
  OBVIOUS
<1>1. SubscriptionInit => Typed /\ Ordered
  <2> SUFFICES ASSUME SubscriptionInit PROVE Ordered
    BY SubscriptionInitTyped
  <2>1. Pending = {} /\ \A k \in Sessions : ~Paid(k)
    BY DEF SubscriptionInit, Pending, Paid, PaidStates, NoSession
  <2> QED BY <2>1 DEF SubscriptionInit, Ordered, OneAtATime, EventsInOrder, LastWord,
                      WritesLastWord, RowInStep
<1>2. Typed /\ Ordered /\ [SubscriptionNext]_subscriptionVars => (Typed /\ Ordered)'
  BY SubscriptionStepTyped, OrderedStep
<1>3. Typed /\ Ordered /\ PaymentRecorded => StatusFollowsStripe
  <2> SUFFICES ASSUME Typed, Ordered, events = {}, handlers = {}, tenant.sub # NoSub
               PROVE  tenant.status = MappedStatus(subs[tenant.sub].state)
    BY DEF StatusFollowsStripe
  <2>1. Pending = {}
    BY DEF Pending
  <2> QED BY <2>1 DEF Ordered, RowInStep
<1> QED BY <1>1, <1>2, <1>3, PaymentsRecorded, PTL DEF SubscriptionSpec
------------------------------------------------------------------------------
(* The updater.                                                             *)

Swapping == swapper.pc \in {"wait", "remove", "rename", "move"}

(* The inductive invariant.  While a helper swaps, the download it runs     *)
(* from is whole and left alone, since a new download is refused; the file  *)
(* is only missing between its two renames, or after both failed, and then  *)
(* a build that still runs has its own file as the backup.                  *)
HelpersFit ==
  platform = "linux" => swapper.pc = "none" /\ starter.pc = "none" /\ exe \in AllBuilds
UpdateFits ==
  /\ agent = NoFile => update = NoUpdate
  /\ update.pc # "idle" => update.rel \in Builds
  /\ update.pc \in {"fetch", "verify", "apply"} => ~Swapping
  /\ update.pc = "apply" => new = update.rel
OldIsDown ==
  \/ swapper.pc \in {"remove", "rename"}
  \/ swapper.pc = "wait" /\ ~swapper.waits
SwapFits ==
  /\ Swapping => new \in Builds
  /\ swapper.pc = "move" => exe = NoFile /\ old \in AllBuilds
  /\ swapper.pc \in {"clean", "start"} => exe \in AllBuilds
  /\ OldIsDown /\ exe = NoFile => agent = NoFile
BackupKept == exe = NoFile /\ agent # NoFile => old \in AllBuilds
DiskInv ==
  /\ UpdaterTypeOK /\ AWholeBuildStays
  /\ HelpersFit /\ UpdateFits /\ SwapFits /\ BackupKept
-----------------------------------------------------------------------------
(* What is missing, or torn, is no build.                                   *)
LEMMA NoBuilds ==
  /\ NoFile \notin AllBuilds /\ Torn \notin AllBuilds /\ NoFile # Torn
  /\ Builds \subseteq AllBuilds /\ FirstBuild \in AllBuilds
<1>1. NoFile.version = 0 /\ Torn.version = 0
  BY DEF NoFile, Torn
<1>2. NoFile # Torn
  BY DEF NoFile, Torn
<1> QED BY <1>1, <1>2, UpdaterAssumption DEF AllBuilds

(* The helpers: none, one that waits, one that moves on, and one that the   *)
(* exit of the process lets go.                                             *)
LEMMA HelperMoves ==
  /\ NoHelper \in SwapperType /\ WaitingHelper \in SwapperType
  /\ NoHelper \in StarterType /\ WaitingHelper \in StarterType
  /\ NoHelper.pc = "none" /\ WaitingHelper.pc = "wait"
  /\ \A p \in SwapperPoints :
       swapper \in SwapperType =>
         [swapper EXCEPT !.pc = p] \in SwapperType /\ [swapper EXCEPT !.pc = p].pc = p
  /\ starter \in StarterType => [starter EXCEPT !.pc = "start"] \in StarterType
  /\ swapper \in SwapperType => Over(swapper) \in SwapperType /\ Over(swapper).pc = swapper.pc
  /\ starter \in StarterType => Over(starter) \in StarterType /\ Over(starter).pc = starter.pc
<1>1. NoHelper \in SwapperType /\ NoHelper \in StarterType
  BY DEF NoHelper, SwapperType, SwapperPoints, StarterType
<1>2. WaitingHelper \in SwapperType /\ WaitingHelper \in StarterType
  BY DEF WaitingHelper, SwapperType, SwapperPoints, StarterType
<1>3. NoHelper.pc = "none" /\ WaitingHelper.pc = "wait"
  BY DEF NoHelper, WaitingHelper
<1>4. ASSUME NEW p \in SwapperPoints, swapper \in SwapperType
      PROVE  [swapper EXCEPT !.pc = p] \in SwapperType /\ [swapper EXCEPT !.pc = p].pc = p
  BY <1>4 DEF SwapperType
<1>5. starter \in StarterType => [starter EXCEPT !.pc = "start"] \in StarterType
  BY DEF StarterType
<1>6. swapper \in SwapperType => Over(swapper) \in SwapperType /\ Over(swapper).pc = swapper.pc
  BY DEF SwapperType, Over
<1>7. starter \in StarterType => Over(starter) \in StarterType /\ Over(starter).pc = starter.pc
  BY DEF StarterType, Over
<1> QED BY <1>1, <1>2, <1>3, <1>4, <1>5, <1>6, <1>7

(* getLatest returns a published build.                                     *)
LEMMA LatestPublished ==
  ASSUME UpdaterTypeOK, NEW b \in Latest
  PROVE  b \in Builds /\ b.version \in Versions /\ row[b.version] = b
BY NoBuilds DEF Latest, UpdaterTypeOK

LEMMA DiskInit == UpdaterInit => DiskInv
<1> SUFFICES ASSUME UpdaterInit PROVE DiskInv
  OBVIOUS
<1>1. UpdaterTypeOK
  <2>1. update \in UpdateType
    BY DEF UpdaterInit, NoUpdate, UpdateType
  <2>2. swapper \in SwapperType /\ starter \in StarterType
    BY HelperMoves DEF UpdaterInit
  <2> QED BY <2>1, <2>2, NoBuilds, UpdaterAssumption DEF UpdaterInit, UpdaterTypeOK
<1>2. AWholeBuildStays /\ BackupKept
  BY NoBuilds DEF UpdaterInit, AWholeBuildStays, BackupKept
<1>3. HelpersFit /\ UpdateFits /\ SwapFits
  BY NoBuilds DEF UpdaterInit, HelpersFit, UpdateFits, SwapFits, OldIsDown, Swapping, NoUpdate, NoHelper
<1> QED BY <1>1, <1>2, <1>3 DEF DiskInv

(* Nothing that concerns releases touches the installation.                 *)
LEMMA PublishStepKeepsDisk ==
  ASSUME DiskInv, PublishStep
  PROVE  DiskInv'
<1>1. UNCHANGED <<fixedVars, diskVars, processVars>>
  BY DEF PublishStep, CheckVersion, RemoveRelease, WriteRelease, InsertRelease, UnlinkRelease, PublishStops
<1>2. /\ row' \in [Versions -> Builds \cup {NoFile}]
      /\ stored' \in [Versions -> Builds \cup {NoFile}]
      /\ publish' \in [pc : {"idle", "write", "insert", "unlink"}, build : Builds \cup {NoFile}]
      /\ {faults', restarts', removals'} \subseteq Nat
  <2>1. CASE \E b \in Builds : CheckVersion(b)
    BY <2>1 DEF CheckVersion, DiskInv, UpdaterTypeOK
  <2>2. CASE \E v \in Versions : RemoveRelease(v)
    BY <2>2 DEF RemoveRelease, DiskInv, UpdaterTypeOK
  <2>3. CASE WriteRelease
    BY <2>3 DEF WriteRelease, DiskInv, UpdaterTypeOK
  <2>4. CASE InsertRelease
    BY <2>4 DEF InsertRelease, DiskInv, UpdaterTypeOK
  <2>5. CASE UnlinkRelease
    BY <2>5 DEF UnlinkRelease, DiskInv, UpdaterTypeOK
  <2>6. CASE PublishStops
    BY <2>6 DEF PublishStops, Fault, DiskInv, UpdaterTypeOK
  <2> QED BY <2>1, <2>2, <2>3, <2>4, <2>5, <2>6 DEF PublishStep
<1> QED BY <1>1, <1>2
        DEF fixedVars, diskVars, processVars, DiskInv, UpdaterTypeOK, AWholeBuildStays, HelpersFit,
            UpdateFits, SwapFits, OldIsDown, Swapping, BackupKept

(* The update's own steps keep the invariant.                               *)
LEMMA UpdateStepKeepsDisk ==
  ASSUME DiskInv,
         (\E by \in {"main", "loop"} : Check(by)) \/ UpdateStep
  PROVE  DiskInv'
<1> USE NoBuilds
        DEF DiskInv, UpdaterTypeOK, AWholeBuildStays, HelpersFit, UpdateFits, SwapFits, OldIsDown, Swapping,
            BackupKept, fixedVars, diskVars, processVars, releaseVars, Aside, Idle
<1>1. ASSUME NEW by \in {"main", "loop"}, Check(by) PROVE DiskInv'
  <2>1. PICK b \in Latest : update' = [by |-> by, pc |-> "found", rel |-> b, bytes |-> NoFile]
    BY <1>1 DEF Check
  <2>2. b \in Builds
    BY LatestPublished
  <2>3. update' \in UpdateType /\ update'.pc = "found" /\ update'.rel = b
    BY <2>1, <2>2 DEF UpdateType
  <2> QED BY <1>1, <2>2, <2>3 DEF Check, Alive, At
<1>2. CASE OpenDownload
  <2> DEFINE served == stored[update.rel.version]
  <2>1. update.rel \in Builds /\ served \in Builds \cup {NoFile}
    BY <1>2 DEF OpenDownload, At, Versions
  <2>2. /\ update' \in UpdateType /\ update'.pc \in {"idle", "fetch"}
        /\ update'.pc = "fetch" => ~InUse /\ update'.rel = update.rel
        /\ new' \in {new, Torn} /\ (new' # new => update'.pc = "fetch")
    <3>1. CASE served = NoFile \/ InUse
      <4>1. update' = NoUpdate /\ new' = new
        BY <1>2, <3>1 DEF OpenDownload
      <4>2. NoUpdate \in UpdateType /\ NoUpdate.pc = "idle"
        BY DEF NoUpdate, UpdateType
      <4> QED BY <4>1, <4>2
    <3>2. CASE ~(served = NoFile \/ InUse)
      <4>1. update' = [update EXCEPT !.pc = "fetch", !.bytes = served] /\ new' = Torn
        BY <1>2, <3>2 DEF OpenDownload
      <4>2. update' \in UpdateType /\ update'.pc = "fetch" /\ update'.rel = update.rel
        BY <4>1, <2>1 DEF UpdateType
      <4> QED BY <3>2, <4>1, <4>2
    <3> QED BY <3>1, <3>2
  <2>4. ~InUse => ~Swapping
    BY UpdaterAssumption DEF InUse
  <2>5. new' # new => ~Swapping
    BY <2>2, <2>4
  <2>6. UNCHANGED <<platform, autoUpdate, exe, old, service, agent, restart, swapper, starter,
                    row, stored, publish, faults, restarts, removals>> /\ agent # NoFile
    BY <1>2 DEF OpenDownload, At, Alive
  <2>7. UpdaterTypeOK'
    BY <2>2, <2>6
  <2>8. AWholeBuildStays' /\ BackupKept' /\ HelpersFit' /\ SwapFits'
    BY <2>2, <2>5, <2>6
  <2>9. UpdateFits'
    BY <2>1, <2>2, <2>4, <2>6
  <2> QED BY <2>7, <2>8, <2>9
<1>3. CASE Receive
  <2>1. UpdaterTypeOK'
    <3>1. update' \in UpdateType
      BY <1>3 DEF Receive, Fault, UpdateType, NoUpdate, At, UpdateTo
    <3>2. {exe', new', old'} \subseteq AllBuilds \cup {NoFile, Torn}
      BY <1>3 DEF Receive, UpdateType, Fault
    <3>3. {faults', restarts', removals'} \subseteq Nat
      BY <1>3 DEF Receive, Fault
    <3> QED BY <3>1, <3>2, <3>3, <1>3 DEF Receive
  <2>2. AWholeBuildStays' /\ BackupKept'
    BY <1>3 DEF Receive, At, UpdateTo, Alive, UpdateType, NoUpdate, Fault
  <2>3. HelpersFit'
    BY <1>3 DEF Receive, At, UpdateTo, Alive, UpdateType, NoUpdate, Fault
  <2>4. UpdateFits'
    BY <1>3 DEF Receive, At, UpdateTo, Alive, UpdateType, NoUpdate, Fault
  <2>5. SwapFits'
    BY <1>3 DEF Receive, At, UpdateTo, Alive, UpdateType, NoUpdate, Fault
  <2> QED BY <2>1, <2>2, <2>3, <2>4, <2>5
<1>4. CASE Verify
  <2>1. UpdaterTypeOK'
    <3>1. update' \in UpdateType
      BY <1>4 DEF Verify, Fault, UpdateType, NoUpdate, At, UpdateTo
    <3>2. {exe', new', old'} \subseteq AllBuilds \cup {NoFile, Torn}
      BY <1>4 DEF Verify, Fault
    <3> QED BY <3>1, <3>2, <1>4 DEF Verify
  <2>2. AWholeBuildStays' /\ BackupKept'
    BY <1>4 DEF Verify, At, UpdateTo, Alive, UpdateType, NoUpdate
  <2>3. HelpersFit'
    BY <1>4 DEF Verify, At, UpdateTo, Alive, UpdateType, NoUpdate
  <2>4. UpdateFits'
    BY <1>4 DEF Verify, At, UpdateTo, Alive, UpdateType, NoUpdate
  <2>5. SwapFits'
    BY <1>4 DEF Verify, At, UpdateTo, Alive, UpdateType, NoUpdate
  <2> QED BY <2>1, <2>2, <2>3, <2>4, <2>5
<1>5. CASE SpawnSwapper
  <2>0. WaitingHelper.waits
    BY Zenon DEF WaitingHelper
  <2>1. UpdaterTypeOK'
    <3>1. update' \in UpdateType
      BY <1>5, HelperMoves DEF SpawnSwapper, Fault, UpdateType, NoUpdate, At, UpdateTo
    <3>2. swapper' \in SwapperType
      BY <1>5, HelperMoves DEF SpawnSwapper, SwapAt, SwapTo, SwapperPoints
    <3>3. {faults', restarts', removals'} \subseteq Nat
      BY <1>5, HelperMoves DEF SpawnSwapper, Fault
    <3> QED BY <3>1, <3>2, <3>3, <1>5 DEF SpawnSwapper
  <2>2. AWholeBuildStays' /\ BackupKept'
    BY <1>5, HelperMoves DEF SpawnSwapper, At, UpdateTo, Alive, UpdateType, NoUpdate, Fault
  <2>3. HelpersFit'
    BY <1>5, HelperMoves DEF SpawnSwapper, At, UpdateTo, Alive, UpdateType, NoUpdate, Fault
  <2>4. UpdateFits'
    BY <1>5, HelperMoves DEF SpawnSwapper, At, UpdateTo, Alive, UpdateType, NoUpdate, Fault
  <2>5. SwapFits'
    BY <1>5, <2>0, HelperMoves DEF SpawnSwapper, At, Alive, Fault
  <2> QED BY <2>1, <2>2, <2>3, <2>4, <2>5
<1>6. CASE StopForUpdate
  <2>1. UpdaterTypeOK'
    <3>1. update' \in UpdateType
      BY <1>6 DEF StopForUpdate, Fault, UpdateType, NoUpdate, At, UpdateTo
    <3>2. /\ service' \in {"running", "stopping", "stopped", "off"} /\ agent' \in AllBuilds \cup {NoFile}
         /\ (agent' # NoFile <=> service' \in {"running", "stopping"}) /\ restart' \in {"idle", "stop"}
      BY <1>6 DEF StopForUpdate, Fault
    <3>3. {faults', restarts', removals'} \subseteq Nat
      BY <1>6 DEF StopForUpdate, Fault
    <3> QED BY <3>1, <3>2, <3>3, <1>6 DEF StopForUpdate
  <2>2. AWholeBuildStays' /\ BackupKept'
    BY <1>6 DEF StopForUpdate, At, UpdateTo, Alive, UpdateType, NoUpdate, Fault
  <2>3. HelpersFit'
    BY <1>6 DEF StopForUpdate, At, UpdateTo, Alive, UpdateType, NoUpdate, Fault
  <2>4. UpdateFits'
    BY <1>6 DEF StopForUpdate, At, UpdateTo, Alive, UpdateType, NoUpdate, Fault
  <2>5. SwapFits'
    BY <1>6 DEF StopForUpdate, At, UpdateTo, Alive, UpdateType, NoUpdate, Fault
  <2> QED BY <2>1, <2>2, <2>3, <2>4, <2>5
<1>7. CASE RenameInPlace
  <2>1. UpdaterTypeOK'
    <3>1. update' \in UpdateType
      BY <1>7 DEF RenameInPlace, Fault, UpdateType, NoUpdate, At, UpdateTo
    <3>2. {exe', new', old'} \subseteq AllBuilds \cup {NoFile, Torn}
      BY <1>7 DEF RenameInPlace, Fault
    <3>3. {faults', restarts', removals'} \subseteq Nat
      BY <1>7 DEF RenameInPlace, Fault
    <3> QED BY <3>1, <3>2, <3>3, <1>7 DEF RenameInPlace
  <2>2. AWholeBuildStays' /\ BackupKept'
    BY <1>7 DEF RenameInPlace, At, UpdateTo, Alive, UpdateType, NoUpdate, Fault
  <2>3. HelpersFit'
    BY <1>7 DEF RenameInPlace, At, UpdateTo, Alive, UpdateType, NoUpdate, Fault
  <2>4. UpdateFits'
    BY <1>7 DEF RenameInPlace, At, UpdateTo, Alive, UpdateType, NoUpdate, Fault
  <2>5. SwapFits'
    BY <1>7 DEF RenameInPlace, At, UpdateTo, Alive, UpdateType, NoUpdate, Fault
  <2> QED BY <2>1, <2>2, <2>3, <2>4, <2>5
<1>8. CASE RestartUnit
  <2>1. UpdaterTypeOK'
    <3>1. update' \in UpdateType
      BY <1>8 DEF RestartUnit, Fault, UpdateType, NoUpdate, At, UpdateTo
    <3>2. /\ service' \in {"running", "stopping", "stopped", "off"} /\ agent' \in AllBuilds \cup {NoFile}
         /\ (agent' # NoFile <=> service' \in {"running", "stopping"}) /\ restart' \in {"idle", "stop"}
      BY <1>8 DEF RestartUnit, At, Alive, Fault
    <3>3. {faults', restarts', removals'} \subseteq Nat
      BY <1>8 DEF RestartUnit, At, Alive, Fault
    <3> QED BY <3>1, <3>2, <3>3, <1>8 DEF RestartUnit
  <2>2. AWholeBuildStays' /\ BackupKept'
    BY <1>8 DEF RestartUnit, At, UpdateTo, Alive, UpdateType, NoUpdate, Fault
  <2>3. HelpersFit'
    BY <1>8 DEF RestartUnit, At, UpdateTo, Alive, UpdateType, NoUpdate, Fault
  <2>4. UpdateFits'
    BY <1>8 DEF RestartUnit, At, UpdateTo, Alive, UpdateType, NoUpdate, Fault
  <2>5. SwapFits'
    BY <1>8 DEF RestartUnit, At, UpdateTo, Alive, UpdateType, NoUpdate, Fault
  <2> QED BY <2>1, <2>2, <2>3, <2>4, <2>5
<1> QED BY <1>1, <1>2, <1>3, <1>4, <1>5, <1>6, <1>7, <1>8 DEF UpdateStep

(* The helper's steps keep the invariant.                                   *)
LEMMA SwapStepKeepsDisk ==
  ASSUME DiskInv, SwapStep
  PROVE  DiskInv'
<1> USE NoBuilds
        DEF DiskInv, UpdaterTypeOK, AWholeBuildStays, HelpersFit, UpdateFits, SwapFits, OldIsDown, Swapping,
            BackupKept, fixedVars, diskVars, processVars, releaseVars, Aside, Agentless
<1>1. CASE SwapWait
  <2>1. UpdaterTypeOK'
    <3>1. swapper' \in SwapperType
      BY <1>1, HelperMoves DEF SwapWait, SwapAt, SwapTo, SwapperPoints
    <3>2. {faults', restarts', removals'} \subseteq Nat
      BY <1>1, HelperMoves DEF SwapWait, Fault
    <3> QED BY <3>1, <3>2, <1>1 DEF SwapWait
  <2>2. AWholeBuildStays' /\ BackupKept'
    BY <1>1, HelperMoves DEF SwapWait, SwapAt, SwapTo, SwapperPoints, Fault
  <2>3. HelpersFit'
    BY <1>1, HelperMoves DEF SwapWait, SwapAt, SwapTo, SwapperPoints, Fault
  <2>4. UpdateFits'
    BY <1>1, HelperMoves DEF SwapWait, SwapAt, SwapTo, SwapperPoints, Fault
  <2>5. SwapFits'
    BY <1>1, HelperMoves DEF SwapWait, SwapAt, SwapTo, SwapperPoints, Fault
  <2> QED BY <2>1, <2>2, <2>3, <2>4, <2>5
<1>2. CASE RemoveLeftover
  <2>1. UpdaterTypeOK'
    <3>1. swapper' \in SwapperType
      BY <1>2, HelperMoves DEF RemoveLeftover, SwapAt, SwapTo, SwapperPoints
    <3>2. {exe', new', old'} \subseteq AllBuilds \cup {NoFile, Torn}
      BY <1>2, HelperMoves DEF RemoveLeftover, Fault
    <3> QED BY <3>1, <3>2, <1>2 DEF RemoveLeftover
  <2>2. AWholeBuildStays' /\ BackupKept'
    BY <1>2, HelperMoves DEF RemoveLeftover, SwapAt, SwapTo, SwapperPoints
  <2>3. HelpersFit'
    BY <1>2, HelperMoves DEF RemoveLeftover, SwapAt, SwapTo, SwapperPoints
  <2>4. UpdateFits'
    BY <1>2, HelperMoves DEF RemoveLeftover, SwapAt, SwapTo, SwapperPoints
  <2>5. SwapFits'
    BY <1>2, HelperMoves DEF RemoveLeftover, SwapAt, SwapTo, SwapperPoints
  <2> QED BY <2>1, <2>2, <2>3, <2>4, <2>5
<1>3. CASE RenameOld
  <2>1. UpdaterTypeOK'
    <3>1. swapper' \in SwapperType
      BY <1>3, HelperMoves DEF RenameOld, SwapAt, SwapTo, SwapperPoints
    <3>2. {exe', new', old'} \subseteq AllBuilds \cup {NoFile, Torn}
      BY <1>3, HelperMoves DEF RenameOld, Fault
    <3>3. {faults', restarts', removals'} \subseteq Nat
      BY <1>3, HelperMoves DEF RenameOld, Fault
    <3> QED BY <3>1, <3>2, <3>3, <1>3 DEF RenameOld
  <2>2. AWholeBuildStays' /\ BackupKept'
    BY <1>3, HelperMoves DEF RenameOld, SwapAt, SwapTo, SwapperPoints, Fault
  <2>3. HelpersFit'
    BY <1>3, HelperMoves DEF RenameOld, SwapAt, SwapTo, SwapperPoints, Fault
  <2>4. UpdateFits'
    BY <1>3, HelperMoves DEF RenameOld, SwapAt, SwapTo, SwapperPoints, Fault
  <2>5. SwapFits'
    BY <1>3, HelperMoves DEF RenameOld, SwapAt, SwapTo, SwapperPoints, Fault
  <2> QED BY <2>1, <2>2, <2>3, <2>4, <2>5
<1>4. CASE MoveNew
  <2>1. UpdaterTypeOK'
    <3>1. swapper' \in SwapperType
      BY <1>4, HelperMoves DEF MoveNew, SwapAt, SwapTo, SwapperPoints
    <3>2. {exe', new', old'} \subseteq AllBuilds \cup {NoFile, Torn}
      BY <1>4, HelperMoves DEF MoveNew, Fault
    <3>3. {faults', restarts', removals'} \subseteq Nat
      BY <1>4, HelperMoves DEF MoveNew, Fault
    <3> QED BY <3>1, <3>2, <3>3, <1>4 DEF MoveNew
  <2>2. AWholeBuildStays' /\ BackupKept'
    BY <1>4, HelperMoves DEF MoveNew, SwapAt, SwapTo, SwapperPoints, Fault
  <2>3. HelpersFit'
    BY <1>4, HelperMoves DEF MoveNew, SwapAt, SwapTo, SwapperPoints, Fault
  <2>4. UpdateFits'
    BY <1>4, HelperMoves DEF MoveNew, SwapAt, SwapTo, SwapperPoints, Fault
  <2>5. SwapFits'
    BY <1>4, HelperMoves DEF MoveNew, SwapAt, SwapTo, SwapperPoints, Fault
  <2> QED BY <2>1, <2>2, <2>3, <2>4, <2>5
<1>5. CASE RemoveBackup
  <2>1. UpdaterTypeOK'
    <3>1. swapper' \in SwapperType
      BY <1>5, HelperMoves DEF RemoveBackup, SwapAt, SwapTo, SwapperPoints
    <3>2. {exe', new', old'} \subseteq AllBuilds \cup {NoFile, Torn}
      BY <1>5, HelperMoves DEF RemoveBackup, Fault
    <3> QED BY <3>1, <3>2, <1>5 DEF RemoveBackup
  <2>2. AWholeBuildStays' /\ BackupKept'
    BY <1>5, HelperMoves DEF RemoveBackup, SwapAt, SwapTo, SwapperPoints
  <2>3. HelpersFit'
    BY <1>5, HelperMoves DEF RemoveBackup, SwapAt, SwapTo, SwapperPoints
  <2>4. UpdateFits'
    BY <1>5, HelperMoves DEF RemoveBackup, SwapAt, SwapTo, SwapperPoints
  <2>5. SwapFits'
    BY <1>5, HelperMoves DEF RemoveBackup, SwapAt, SwapTo, SwapperPoints
  <2> QED BY <2>1, <2>2, <2>3, <2>4, <2>5
<1>6. CASE StartSwapped
  <2>1. UpdaterTypeOK'
    <3>1. swapper' \in SwapperType
      BY <1>6, HelperMoves DEF StartSwapped, SwapAt, SwapTo, SwapperPoints
    <3>2. /\ service' \in {"running", "stopping", "stopped", "off"} /\ agent' \in AllBuilds \cup {NoFile}
         /\ (agent' # NoFile <=> service' \in {"running", "stopping"}) /\ restart' \in {"idle", "stop"}
      BY <1>6, HelperMoves DEF StartSwapped, Starts, Fault
    <3>3. {faults', restarts', removals'} \subseteq Nat
      BY <1>6, HelperMoves DEF StartSwapped, Starts, Fault
    <3> QED BY <3>1, <3>2, <3>3, <1>6 DEF StartSwapped
  <2>2. AWholeBuildStays' /\ BackupKept'
    BY <1>6, HelperMoves DEF StartSwapped, SwapAt, SwapTo, SwapperPoints, Starts, Fault
  <2>3. HelpersFit'
    BY <1>6, HelperMoves DEF StartSwapped, SwapAt, SwapTo, SwapperPoints, Starts, Fault
  <2>4. UpdateFits'
    BY <1>6, HelperMoves DEF StartSwapped, SwapAt, SwapTo, SwapperPoints, Starts, Fault
  <2>5. SwapFits'
    BY <1>6, HelperMoves DEF StartSwapped, SwapAt, SwapTo, SwapperPoints, Starts, Fault
  <2> QED BY <2>1, <2>2, <2>3, <2>4, <2>5
<1> QED BY <1>1, <1>2, <1>3, <1>4, <1>5, <1>6 DEF SwapStep

(* RESTARTs, stops, power cuts and boots keep the invariant.                *)
LEMMA ServiceStepKeepsDisk ==
  ASSUME DiskInv, RestartStep \/ StarterStep \/ Exit \/ PowerCut \/ Boot
  PROVE  DiskInv'
<1> USE NoBuilds
        DEF DiskInv, UpdaterTypeOK, AWholeBuildStays, HelpersFit, UpdateFits, SwapFits, OldIsDown, Swapping,
            BackupKept, fixedVars, diskVars, processVars, releaseVars, Aside
<1>1. CASE SpawnStarter
  <2>1. UpdaterTypeOK'
    <3>1. starter' \in StarterType
      BY <1>1, HelperMoves DEF SpawnStarter, SwapAt, SwapTo, SwapperPoints
    <3>2. /\ service' \in {"running", "stopping", "stopped", "off"} /\ agent' \in AllBuilds \cup {NoFile}
         /\ (agent' # NoFile <=> service' \in {"running", "stopping"}) /\ restart' \in {"idle", "stop"}
      BY <1>1, HelperMoves DEF SpawnStarter, Fault
    <3>3. {faults', restarts', removals'} \subseteq Nat
      BY <1>1, HelperMoves DEF SpawnStarter, Fault
    <3> QED BY <3>1, <3>2, <3>3, <1>1 DEF SpawnStarter
  <2>2. AWholeBuildStays' /\ BackupKept'
    BY <1>1, HelperMoves DEF SpawnStarter, Fault, Alive
  <2>3. HelpersFit'
    BY <1>1, HelperMoves DEF SpawnStarter, Fault, Alive
  <2>4. UpdateFits'
    BY <1>1, HelperMoves DEF SpawnStarter, Fault, Alive
  <2>5. SwapFits'
    BY <1>1, HelperMoves DEF SpawnStarter, Fault, Alive
  <2> QED BY <2>1, <2>2, <2>3, <2>4, <2>5
<1>2. CASE StopForRestart
  <2>1. UpdaterTypeOK'
    <3>1. /\ service' \in {"running", "stopping", "stopped", "off"} /\ agent' \in AllBuilds \cup {NoFile}
         /\ (agent' # NoFile <=> service' \in {"running", "stopping"}) /\ restart' \in {"idle", "stop"}
      BY <1>2 DEF StopForRestart, Fault
    <3>2. {faults', restarts', removals'} \subseteq Nat
      BY <1>2 DEF StopForRestart, Fault
    <3> QED BY <3>1, <3>2, <1>2 DEF StopForRestart
  <2>2. AWholeBuildStays' /\ BackupKept'
    BY <1>2 DEF StopForRestart, Fault, Alive
  <2>3. HelpersFit'
    BY <1>2 DEF StopForRestart, Fault, Alive
  <2>4. UpdateFits'
    BY <1>2 DEF StopForRestart, Fault, Alive
  <2>5. SwapFits'
    BY <1>2 DEF StopForRestart, Fault, Alive
  <2> QED BY <2>1, <2>2, <2>3, <2>4, <2>5
<1>3. CASE RestartOnCommand
  <2>1. UpdaterTypeOK'
    <3>1. update' \in UpdateType
      BY <1>3 DEF RestartOnCommand, Fault, UpdateType, NoUpdate, At, UpdateTo
    <3>2. /\ service' \in {"running", "stopping", "stopped", "off"} /\ agent' \in AllBuilds \cup {NoFile}
         /\ (agent' # NoFile <=> service' \in {"running", "stopping"}) /\ restart' \in {"idle", "stop"}
      BY <1>3 DEF RestartOnCommand, Alive, Fault
    <3>3. {faults', restarts', removals'} \subseteq Nat
      BY <1>3 DEF RestartOnCommand, Alive, Fault
    <3> QED BY <3>1, <3>2, <3>3, <1>3 DEF RestartOnCommand
  <2>2. AWholeBuildStays' /\ BackupKept'
    BY <1>3 DEF RestartOnCommand, Alive, NoUpdate
  <2>3. HelpersFit'
    BY <1>3 DEF RestartOnCommand, Alive, NoUpdate
  <2>4. UpdateFits'
    BY <1>3 DEF RestartOnCommand, Alive, NoUpdate
  <2>5. SwapFits'
    BY <1>3 DEF RestartOnCommand, Alive, NoUpdate
  <2> QED BY <2>1, <2>2, <2>3, <2>4, <2>5
<1>4. CASE StarterWait
  <2>1. UpdaterTypeOK'
    <3>1. starter' \in StarterType
      BY <1>4, HelperMoves DEF StarterWait, SwapAt, SwapTo, SwapperPoints
    <3>2. {faults', restarts', removals'} \subseteq Nat
      BY <1>4, HelperMoves DEF StarterWait, Fault
    <3> QED BY <3>1, <3>2, <1>4 DEF StarterWait
  <2>2. AWholeBuildStays' /\ BackupKept'
    BY <1>4, HelperMoves DEF StarterWait, Fault
  <2>3. HelpersFit'
    BY <1>4, HelperMoves DEF StarterWait, Fault
  <2>4. UpdateFits'
    BY <1>4, HelperMoves DEF StarterWait, Fault
  <2>5. SwapFits'
    BY <1>4, HelperMoves DEF StarterWait, Fault
  <2> QED BY <2>1, <2>2, <2>3, <2>4, <2>5
<1>5. CASE StartAgain
  <2>1. UpdaterTypeOK'
    <3>1. starter' \in StarterType
      BY <1>5, HelperMoves DEF StartAgain, SwapAt, SwapTo, SwapperPoints
    <3>2. /\ service' \in {"running", "stopping", "stopped", "off"} /\ agent' \in AllBuilds \cup {NoFile}
         /\ (agent' # NoFile <=> service' \in {"running", "stopping"}) /\ restart' \in {"idle", "stop"}
      BY <1>5, HelperMoves DEF StartAgain, Starts, Fault
    <3>3. {faults', restarts', removals'} \subseteq Nat
      BY <1>5, HelperMoves DEF StartAgain, Starts, Fault
    <3> QED BY <3>1, <3>2, <3>3, <1>5 DEF StartAgain
  <2>2. AWholeBuildStays' /\ BackupKept'
    BY <1>5, HelperMoves DEF StartAgain, Starts, Fault
  <2>3. HelpersFit'
    BY <1>5, HelperMoves DEF StartAgain, Starts, Fault
  <2>4. UpdateFits'
    BY <1>5, HelperMoves DEF StartAgain, Starts, Fault
  <2>5. SwapFits'
    BY <1>5, HelperMoves DEF StartAgain, Starts, Fault
  <2> QED BY <2>1, <2>2, <2>3, <2>4, <2>5
<1>6. CASE Exit
  <2>1. UpdaterTypeOK'
    <3>1. update' \in UpdateType
      BY <1>6, HelperMoves DEF Exit, Fault, UpdateType, NoUpdate, At, UpdateTo
    <3>2. swapper' \in SwapperType
      BY <1>6, HelperMoves DEF Exit, SwapAt, SwapTo, SwapperPoints
    <3>3. starter' \in StarterType
      BY <1>6, HelperMoves DEF Exit, SwapAt, SwapTo, SwapperPoints
    <3>4. /\ service' \in {"running", "stopping", "stopped", "off"} /\ agent' \in AllBuilds \cup {NoFile}
         /\ (agent' # NoFile <=> service' \in {"running", "stopping"}) /\ restart' \in {"idle", "stop"}
      BY <1>6, HelperMoves DEF Exit, Fault
    <3> QED BY <3>1, <3>2, <3>3, <3>4, <1>6 DEF Exit
  <2>2. AWholeBuildStays' /\ BackupKept'
    BY <1>6, HelperMoves DEF Exit, NoUpdate
  <2>3. HelpersFit'
    BY <1>6, HelperMoves DEF Exit, NoUpdate
  <2>4. UpdateFits'
    BY <1>6, HelperMoves DEF Exit, NoUpdate
  <2>5. SwapFits'
    BY <1>6, HelperMoves DEF Exit, NoUpdate
  <2> QED BY <2>1, <2>2, <2>3, <2>4, <2>5
<1>7. CASE PowerCut
  <2>1. UpdaterTypeOK'
    <3>1. update' \in UpdateType
      BY <1>7, HelperMoves DEF PowerCut, Fault, UpdateType, NoUpdate, At, UpdateTo
    <3>2. swapper' \in SwapperType
      BY <1>7, HelperMoves DEF PowerCut, SwapAt, SwapTo, SwapperPoints
    <3>3. starter' \in StarterType
      BY <1>7, HelperMoves DEF PowerCut, SwapAt, SwapTo, SwapperPoints
    <3>4. /\ service' \in {"running", "stopping", "stopped", "off"} /\ agent' \in AllBuilds \cup {NoFile}
         /\ (agent' # NoFile <=> service' \in {"running", "stopping"}) /\ restart' \in {"idle", "stop"}
      BY <1>7, HelperMoves DEF PowerCut, Fault
    <3>5. {faults', restarts', removals'} \subseteq Nat
      BY <1>7, HelperMoves DEF PowerCut, Fault
    <3> QED BY <3>1, <3>2, <3>3, <3>4, <3>5, <1>7 DEF PowerCut
  <2>2. AWholeBuildStays' /\ BackupKept'
    BY <1>7, HelperMoves DEF PowerCut, Fault, NoUpdate
  <2>3. HelpersFit'
    BY <1>7, HelperMoves DEF PowerCut, Fault, NoUpdate
  <2>4. UpdateFits'
    BY <1>7, HelperMoves DEF PowerCut, Fault, NoUpdate
  <2>5. SwapFits'
    BY <1>7, HelperMoves DEF PowerCut, Fault, NoUpdate
  <2> QED BY <2>1, <2>2, <2>3, <2>4, <2>5
<1>8. CASE Boot
  <2>1. UpdaterTypeOK'
    <3>1. /\ service' \in {"running", "stopping", "stopped", "off"} /\ agent' \in AllBuilds \cup {NoFile}
         /\ (agent' # NoFile <=> service' \in {"running", "stopping"}) /\ restart' \in {"idle", "stop"}
      BY <1>8 DEF Boot, Fault
    <3> QED BY <3>1, <1>8 DEF Boot
  <2>2. AWholeBuildStays' /\ BackupKept'
    BY <1>8 DEF Boot
  <2>3. HelpersFit'
    BY <1>8 DEF Boot
  <2>4. UpdateFits'
    BY <1>8 DEF Boot
  <2>5. SwapFits'
    BY <1>8 DEF Boot
  <2> QED BY <2>1, <2>2, <2>3, <2>4, <2>5
<1> QED BY <1>1, <1>2, <1>3, <1>4, <1>5, <1>6, <1>7, <1>8 DEF RestartStep, StarterStep

LEMMA DiskStep ==
  ASSUME DiskInv, [UpdaterNext]_updaterVars
  PROVE  DiskInv'
<1>1. CASE UNCHANGED updaterVars
  BY <1>1 DEF updaterVars, fixedVars, diskVars, processVars, releaseVars, DiskInv, UpdaterTypeOK,
              AWholeBuildStays, HelpersFit, UpdateFits, SwapFits, OldIsDown, Swapping, BackupKept
<1> QED BY <1>1, PublishStepKeepsDisk, UpdateStepKeepsDisk, SwapStepKeepsDisk, ServiceStepKeepsDisk
        DEF UpdaterNext

-----------------------------------------------------------------------------
(* While no release is taken back, versions only rise: an update covers     *)
(* whatever is installed, and so does the download a helper swaps in, also  *)
(* when the old build was started again and looks for an update of its own. *)
Published(b) == b = FirstBuild \/ (b \in Builds /\ row[b.version] = b)
Installed == {exe, old, agent} \cap AllBuilds
Covers(b) == Published(b) /\ \A x \in Installed : x.version <= b.version
PublishFits ==
  publish.pc \in {"write", "insert"} => publish.build \in Builds /\ row[publish.build.version] = NoFile
InstalledFit == \A x \in Installed : Published(x) /\ FirstBuild.version <= x.version
SwapCovers == Swapping => Covers(new)
UpdateCovers ==
  update.pc # "idle" => Covers(update.rel) /\ (Swapping => new.version <= update.rel.version)
BackupNotOlder == exe = NoFile /\ agent # NoFile => agent.version <= old.version
VersionsRise ==
  /\ PublishFits /\ InstalledFit /\ SwapCovers /\ UpdateCovers
  /\ BackupNotOlder /\ OnDiskNotOlder
VersionInv == removals = 0 => VersionsRise

LEMMA BuildVersions == \A b \in AllBuilds : b.version \in Nat \ {0}
BY UpdaterAssumption

LEMMA VersionInit == UpdaterInit => VersionInv
<1> SUFFICES ASSUME UpdaterInit PROVE VersionsRise
  BY DEF VersionInv
<1>1. Installed = {FirstBuild} /\ publish.pc = "idle"
  BY NoBuilds DEF UpdaterInit, Installed
<1>2. swapper.pc = "none" /\ update.pc = "idle"
  BY DEF UpdaterInit, NoHelper, NoUpdate
<1>3. PublishFits /\ SwapCovers /\ UpdateCovers
  BY <1>1, <1>2 DEF PublishFits, SwapCovers, UpdateCovers, Swapping
<1>4. InstalledFit
  BY <1>1, BuildVersions, NoBuilds DEF InstalledFit, Published
<1>5. BackupNotOlder /\ OnDiskNotOlder
  BY BuildVersions, NoBuilds DEF UpdaterInit, BackupNotOlder, OnDiskNotOlder
<1> QED BY <1>3, <1>4, <1>5 DEF VersionsRise

(* A step that installs nothing new, starts no swap and finds no update.    *)
LEMMA NothingNewInstalled ==
  ASSUME VersionsRise, UNCHANGED <<row, publish>>,
         Installed' \subseteq Installed,
         Swapping' => Swapping /\ new' = new,
         update'.pc # "idle" => update.pc # "idle" /\ update'.rel = update.rel,
         BackupNotOlder', OnDiskNotOlder'
  PROVE  VersionsRise'
<1>1. PublishFits'
  BY DEF VersionsRise, PublishFits
<1>2. ASSUME NEW b, Covers(b) PROVE Covers(b)'
  BY <1>2 DEF Covers, Published
<1>3. InstalledFit'
  BY DEF VersionsRise, InstalledFit, Published
<1>4. SwapCovers'
  <2> SUFFICES ASSUME Swapping' PROVE Covers(new)'
    BY DEF SwapCovers
  <2>1. Covers(new) /\ new' = new
    BY DEF VersionsRise, SwapCovers
  <2> QED BY <2>1 DEF Covers, Published
<1>5. UpdateCovers'
  <2> SUFFICES ASSUME update'.pc # "idle"
               PROVE  Covers(update.rel)' /\ (Swapping' => new'.version <= update'.rel.version)
    BY DEF UpdateCovers
  <2>1. /\ Covers(update.rel) /\ update'.rel = update.rel
        /\ Swapping => new.version <= update.rel.version
    BY DEF VersionsRise, UpdateCovers
  <2> QED BY <2>1 DEF Covers, Published
<1> QED BY <1>1, <1>3, <1>4, <1>5 DEF VersionsRise

(* A publication adds a row and takes none away.                            *)
LEMMA PublishStepKeepsVersions ==
  ASSUME DiskInv, VersionsRise, PublishStep, removals' = 0, removals = 0
  PROVE  VersionsRise'
<1>1. UNCHANGED <<exe, new, old, agent, swapper, update>>
  BY DEF PublishStep, CheckVersion, RemoveRelease, WriteRelease, InsertRelease, UnlinkRelease,
         PublishStops, diskVars, processVars
<1>2. /\ \A b \in Builds : Published(b) => Published(b)'
      /\ Published(FirstBuild)'
      /\ PublishFits'
  <2>1. CASE \E b \in Builds : CheckVersion(b)
    BY <2>1 DEF CheckVersion, releaseVars, Published, PublishFits
  <2>2. CASE \E v \in Versions : RemoveRelease(v)
    BY <2>2 DEF RemoveRelease, DiskInv, UpdaterTypeOK
  <2>3. CASE WriteRelease
    BY <2>3 DEF WriteRelease, VersionsRise, Published, PublishFits
  <2>4. CASE InsertRelease
    <3>1. /\ publish.build \in Builds /\ row[publish.build.version] = NoFile /\ publish'.pc = "idle"
          /\ row' = [row EXCEPT ![publish.build.version] = publish.build]
      BY <2>4 DEF InsertRelease, VersionsRise, PublishFits
    <3>2. ASSUME NEW b \in Builds, Published(b) PROVE Published(b)'
      <4>1. CASE b = FirstBuild
        BY <4>1 DEF Published
      <4>2. CASE row[b.version] = b
        <5>1. b.version # publish.build.version
          BY <3>1, <4>2, NoBuilds
        <5> QED BY <3>1, <4>2, <5>1 DEF Published, DiskInv, UpdaterTypeOK, Versions
      <4> QED BY <3>2, <4>1, <4>2 DEF Published
    <3> QED BY <3>1, <3>2 DEF Published, PublishFits
  <2>5. CASE UnlinkRelease
    BY <2>5 DEF UnlinkRelease, Published, PublishFits
  <2>6. CASE PublishStops
    BY <2>6 DEF PublishStops, Published, PublishFits
  <2> QED BY <2>1, <2>2, <2>3, <2>4, <2>5, <2>6 DEF PublishStep
<1>3. ASSUME NEW b \in AllBuilds, Published(b) PROVE Published(b)'
  BY <1>2, <1>3 DEF AllBuilds
<1>4. Installed' = Installed /\ Installed \subseteq AllBuilds
  BY <1>1 DEF Installed
<1>5. InstalledFit'
  BY <1>3, <1>4 DEF VersionsRise, InstalledFit
<1>6. SwapCovers'
  <2> SUFFICES ASSUME Swapping PROVE Covers(new)'
    BY <1>1 DEF SwapCovers, Swapping
  <2>1. new \in AllBuilds /\ Covers(new)
    BY NoBuilds DEF VersionsRise, SwapCovers, DiskInv, SwapFits
  <2> QED BY <1>1, <1>3, <1>4, <2>1 DEF Covers, Published
<1>7. UpdateCovers'
  <2> SUFFICES ASSUME update.pc # "idle"
               PROVE  Covers(update.rel)' /\ (Swapping => new.version <= update.rel.version)
    BY <1>1 DEF UpdateCovers, Swapping
  <2>1. /\ update.rel \in AllBuilds /\ Covers(update.rel)
        /\ Swapping => new.version <= update.rel.version
    BY NoBuilds DEF VersionsRise, UpdateCovers, DiskInv, UpdateFits
  <2> QED BY <1>1, <1>3, <1>4, <2>1 DEF Covers, Published
<1>8. BackupNotOlder' /\ OnDiskNotOlder'
  BY <1>1 DEF VersionsRise, BackupNotOlder, OnDiskNotOlder
<1> QED BY <1>2, <1>5, <1>6, <1>7, <1>8 DEF VersionsRise

(* An update that is found covers what is installed, since its release is   *)
(* the highest that has a row; then it is fetched, checked and applied.     *)
LEMMA CheckKeepsVersions ==
  ASSUME DiskInv, VersionsRise, NEW by \in {"main", "loop"}, Check(by)
  PROVE  VersionsRise'
<1>1. PICK b \in Latest : IsNewer(b) /\ update' = [by |-> by, pc |-> "found", rel |-> b, bytes |-> NoFile]
  BY DEF Check
<1>2. /\ UNCHANGED <<row, publish, exe, new, old, agent, swapper>>
      /\ agent # NoFile
  BY DEF Check, diskVars, Idle, Aside, releaseVars, At, Alive
<1>3. b \in Builds /\ row[b.version] = b
  BY LatestPublished DEF DiskInv
<1>4. agent \in Installed
  BY <1>2 DEF DiskInv, UpdaterTypeOK, Installed
<1>5. FirstBuild.version <= b.version
  BY <1>1, <1>3, <1>4, BuildVersions, NoBuilds DEF IsNewer, VersionsRise, InstalledFit, Installed
<1>6. ASSUME NEW x \in AllBuilds, Published(x) PROVE x.version <= b.version
  <2>1. CASE x = FirstBuild
    BY <2>1, <1>5
  <2>2. CASE x \in Builds /\ row[x.version] = x
    BY <2>2, <1>1, NoBuilds DEF Latest, Versions
  <2> QED BY <1>6, <2>1, <2>2 DEF Published
<1>7. Covers(b)
  BY <1>3, <1>6 DEF Covers, Published, VersionsRise, InstalledFit, Installed
<1>8. Swapping => new.version <= b.version
  BY <1>6, NoBuilds DEF VersionsRise, SwapCovers, Covers, DiskInv, SwapFits
<1>9. UpdateCovers'
  BY <1>1, <1>2, <1>7, <1>8 DEF UpdateCovers, Covers, Published, Installed, Swapping
<1> QED BY <1>2, <1>9 DEF VersionsRise, PublishFits, InstalledFit, SwapCovers, Covers, Published,
           Installed, Swapping, BackupNotOlder, OnDiskNotOlder

LEMMA UpdateStepKeepsVersions ==
  ASSUME DiskInv, DiskInv', VersionsRise, UpdateStep
  PROVE  VersionsRise'
<1>1. UNCHANGED <<row, publish>>
  BY DEF UpdateStep, OpenDownload, Receive, Verify, SpawnSwapper, StopForUpdate, RenameInPlace,
         RestartUnit, Aside, releaseVars
<1>2. CASE OpenDownload
  <2>1. UNCHANGED <<exe, old, agent, swapper>>
    BY <1>2 DEF OpenDownload, Idle
  <2>2. \/ update' = NoUpdate /\ new' = new
        \/ update' = [update EXCEPT !.pc = "fetch", !.bytes = stored[update.rel.version]] /\ new' = Torn
    BY <1>2 DEF OpenDownload
  <2>3. \/ update'.pc = "idle" /\ new' = new
        \/ update'.pc = "fetch" /\ update'.rel = update.rel /\ update.pc = "found"
    <3>1. NoUpdate.pc = "idle"
      BY DEF NoUpdate
    <3>2. LET w == [update EXCEPT !.pc = "fetch", !.bytes = stored[update.rel.version]]
          IN  w.pc = "fetch" /\ w.rel = update.rel
      BY DEF DiskInv, UpdaterTypeOK, UpdateType
    <3>3. update.pc = "found"
      BY <1>2 DEF OpenDownload, At
    <3> QED BY <2>2, <3>1, <3>2, <3>3
  <2>4. update'.pc = "fetch" => ~Swapping'
    BY DEF DiskInv, UpdateFits
  <2>5. Swapping' => Swapping /\ new' = new
    BY <2>1, <2>3, <2>4 DEF Swapping
  <2> QED BY <1>1, <2>1, <2>3, <2>5, NothingNewInstalled DEF Installed, VersionsRise, BackupNotOlder, OnDiskNotOlder
<1>3. CASE Receive \/ Verify
  <2>1. UNCHANGED <<exe, old, agent, swapper>>
    BY <1>3 DEF Receive, Verify, Idle
  <2>2. ~Swapping
    BY <1>3 DEF Receive, Verify, At, DiskInv, UpdateFits
  <2>3. update'.pc # "idle" => update.pc # "idle" /\ update'.rel = update.rel
    BY <1>3 DEF Receive, Verify, NoUpdate, At, UpdateTo, DiskInv, UpdaterTypeOK, UpdateType
  <2> QED BY <1>1, <2>1, <2>2, <2>3, NothingNewInstalled DEF Installed, Swapping, VersionsRise, BackupNotOlder, OnDiskNotOlder
<1>4. CASE SpawnSwapper
  <2>1. UNCHANGED <<exe, new, old, agent>> /\ new = update.rel /\ update.pc = "apply"
    BY <1>4 DEF SpawnSwapper, Idle, diskVars, At, DiskInv, UpdateFits
  <2>2. update.rel \in AllBuilds /\ Covers(update.rel)
    BY <2>1, NoBuilds DEF VersionsRise, UpdateCovers, DiskInv, UpdateFits
  <2>3. update'.pc # "idle" => update'.rel = update.rel
    BY <1>4 DEF SpawnSwapper, NoUpdate, At, UpdateTo, DiskInv, UpdaterTypeOK, UpdateType
  <2>4. SwapCovers' /\ UpdateCovers'
    BY <1>1, <2>1, <2>2, <2>3, BuildVersions DEF SwapCovers, UpdateCovers, Covers, Published, Installed
  <2> QED BY <1>1, <2>1, <2>4 DEF VersionsRise, PublishFits, InstalledFit, Published, Installed, BackupNotOlder, OnDiskNotOlder
<1>5. CASE StopForUpdate
  <2>1. UNCHANGED <<exe, new, old, agent, swapper>> /\ update'.pc = "idle"
    BY <1>5 DEF StopForUpdate, diskVars, NoUpdate
  <2> QED BY <1>1, <2>1, NothingNewInstalled DEF Installed, Swapping, VersionsRise, BackupNotOlder, OnDiskNotOlder
<1>6. CASE RenameInPlace
  <2>1. UNCHANGED <<old, agent, swapper>> /\ new = update.rel /\ update.pc = "apply" /\ swapper.pc = "none"
    BY <1>6 DEF RenameInPlace, Idle, At, DiskInv, UpdateFits, HelpersFit
  <2>2. update.rel \in AllBuilds /\ Covers(update.rel) /\ agent # NoFile
    BY <1>6, <2>1, NoBuilds DEF VersionsRise, UpdateCovers, DiskInv, UpdateFits, RenameInPlace, At, Alive
  <2>3. CASE exe' = new
    <3>1. update'.pc # "idle" => update'.rel = update.rel
      BY <1>6 DEF RenameInPlace, NoUpdate, At, UpdateTo, DiskInv, UpdaterTypeOK, UpdateType
    <3>2. agent \in Installed /\ Installed' \subseteq Installed \cup {update.rel}
      BY <2>1, <2>2, <2>3 DEF Installed, DiskInv, UpdaterTypeOK
    <3>3. FirstBuild.version <= update.rel.version
      BY <2>2, <3>2, BuildVersions, NoBuilds DEF VersionsRise, InstalledFit, Covers, Installed
    <3>4. InstalledFit' /\ UpdateCovers' /\ SwapCovers'
      BY <1>1, <2>1, <2>2, <3>1, <3>2, <3>3, BuildVersions
      DEF VersionsRise, InstalledFit, UpdateCovers, SwapCovers, Covers, Published, Swapping
    <3>5. BackupNotOlder' /\ OnDiskNotOlder'
      BY <2>1, <2>2, <2>3, <3>2, NoBuilds DEF BackupNotOlder, OnDiskNotOlder, Covers
    <3> QED BY <1>1, <3>4, <3>5 DEF VersionsRise, PublishFits
  <2>4. CASE exe' # new
    <3>1. UNCHANGED <<exe, new>> /\ update'.pc = "idle"
      BY <1>6, <2>4 DEF RenameInPlace, NoUpdate
    <3> QED BY <1>1, <2>1, <3>1, NothingNewInstalled DEF Installed, Swapping, VersionsRise, BackupNotOlder, OnDiskNotOlder
  <2> QED BY <2>3, <2>4
<1>7. CASE RestartUnit
  <2>1. UNCHANGED <<exe, new, old, swapper>> /\ update'.pc = "idle" /\ agent' \in {agent, exe} /\ exe \in AllBuilds
    BY <1>7 DEF RestartUnit, diskVars, NoUpdate, DiskInv, HelpersFit
  <2>2. BackupNotOlder' /\ OnDiskNotOlder'
    BY <2>1, BuildVersions, NoBuilds DEF VersionsRise, BackupNotOlder, OnDiskNotOlder
  <2> QED BY <1>1, <2>1, <2>2, NothingNewInstalled DEF Installed, Swapping
<1> QED BY <1>2, <1>3, <1>4, <1>5, <1>6, <1>7 DEF UpdateStep

LEMMA SwapStepKeepsVersions ==
  ASSUME DiskInv, VersionsRise, SwapStep
  PROVE  VersionsRise'
<1>1. UNCHANGED <<row, publish, update>>
  BY DEF SwapStep, SwapWait, RemoveLeftover, RenameOld, MoveNew, RemoveBackup, StartSwapped,
         Agentless, Aside, releaseVars
<1>2. CASE SwapWait
  <2>1. UNCHANGED <<exe, new, old, agent>> /\ Swapping
    BY <1>2 DEF SwapWait, Agentless, diskVars, SwapAt, Swapping
  <2> QED BY <1>1, <2>1, NothingNewInstalled DEF Installed, VersionsRise, BackupNotOlder, OnDiskNotOlder
<1>3. CASE RemoveLeftover
  <2>1. UNCHANGED <<exe, new, agent>> /\ old' \in {old, NoFile} /\ Swapping /\ OldIsDown
    BY <1>3 DEF RemoveLeftover, Agentless, SwapAt, Swapping, OldIsDown
  <2>2. Installed' \subseteq Installed
    BY <2>1, NoBuilds DEF Installed
  <2>3. BackupNotOlder' /\ OnDiskNotOlder'
    BY <2>1 DEF DiskInv, SwapFits, VersionsRise, BackupNotOlder, OnDiskNotOlder
  <2> QED BY <1>1, <2>1, <2>2, <2>3, NothingNewInstalled
<1>4. CASE RenameOld
  <2>1. UNCHANGED <<new, agent>> /\ Swapping
    BY <1>4 DEF RenameOld, Agentless, SwapAt, Swapping
  <2>2. (exe # NoFile /\ old' = exe /\ exe' = NoFile) \/ UNCHANGED <<old, exe>>
    BY <1>4 DEF RenameOld
  <2>3. Installed' \subseteq Installed
    BY <2>1, <2>2, NoBuilds DEF Installed
  <2>4. BackupNotOlder' /\ OnDiskNotOlder'
    BY <2>1, <2>2 DEF VersionsRise, BackupNotOlder, OnDiskNotOlder
  <2> QED BY <1>1, <2>1, <2>3, <2>4, NothingNewInstalled
<1>5. CASE MoveNew
  <2>1. UNCHANGED agent /\ Swapping /\ exe = NoFile /\ old \in AllBuilds
    BY <1>5 DEF MoveNew, Agentless, SwapAt, Swapping, DiskInv, SwapFits
  <2>2. CASE exe' = new /\ new' = NoFile /\ UNCHANGED old /\ SwapTo("clean")
    <3>1. new \in AllBuilds /\ Covers(new)
      BY <2>1, NoBuilds DEF VersionsRise, SwapCovers, DiskInv, SwapFits
    <3>2. ~Swapping'
      BY <2>2, HelperMoves DEF SwapTo, SwapperPoints, Swapping, DiskInv, UpdaterTypeOK
    <3>3. old \in Installed /\ Installed' \subseteq Installed \cup {new}
      BY <2>1, <2>2 DEF Installed
    <3>4. FirstBuild.version <= new.version
      BY <3>1, <3>3, BuildVersions, NoBuilds DEF VersionsRise, InstalledFit, Covers, Installed
    <3>5. InstalledFit' /\ UpdateCovers' /\ SwapCovers'
      BY <1>1, <2>1, <3>1, <3>2, <3>3, <3>4, BuildVersions
      DEF VersionsRise, InstalledFit, UpdateCovers, SwapCovers, Covers, Published
    <3>6. BackupNotOlder' /\ OnDiskNotOlder'
      BY <2>1, <2>2, <3>1, NoBuilds
      DEF BackupNotOlder, OnDiskNotOlder, Covers, Installed, DiskInv, UpdaterTypeOK
    <3> QED BY <1>1, <3>5, <3>6 DEF VersionsRise, PublishFits
  <2>3. CASE UNCHANGED new /\ ((exe' = old /\ old' = NoFile) \/ UNCHANGED <<exe, old>>)
    <3>1. Installed' \subseteq Installed
      BY <2>1, <2>3, NoBuilds DEF Installed
    <3>2. BackupNotOlder' /\ OnDiskNotOlder'
      BY <2>1, <2>3, NoBuilds DEF VersionsRise, BackupNotOlder, OnDiskNotOlder
    <3> QED BY <1>1, <2>1, <2>3, <3>1, <3>2, NothingNewInstalled
  <2> QED BY <1>5, <2>2, <2>3 DEF MoveNew
<1>6. CASE RemoveBackup
  <2>1. UNCHANGED <<exe, new, agent>> /\ old' \in {old, NoFile} /\ exe \in AllBuilds
    BY <1>6 DEF RemoveBackup, Agentless, SwapAt, DiskInv, SwapFits
  <2>2. ~Swapping'
    BY <1>6, HelperMoves DEF RemoveBackup, SwapTo, SwapperPoints, Swapping, DiskInv, UpdaterTypeOK
  <2>3. Installed' \subseteq Installed
    BY <2>1, NoBuilds DEF Installed
  <2>4. BackupNotOlder' /\ OnDiskNotOlder'
    BY <2>1, NoBuilds DEF VersionsRise, BackupNotOlder, OnDiskNotOlder
  <2> QED BY <1>1, <2>1, <2>2, <2>3, <2>4, NothingNewInstalled
<1>7. CASE StartSwapped
  <2>1. UNCHANGED <<exe, new, old>> /\ agent' \in {agent, exe} /\ swapper' = NoHelper
    BY <1>7 DEF StartSwapped, Starts, diskVars
  <2>2. agent' # agent => exe # NoFile
    BY <1>7 DEF StartSwapped, Starts
  <2>3. BackupNotOlder' /\ OnDiskNotOlder'
    BY <2>1, <2>2, BuildVersions DEF VersionsRise, BackupNotOlder, OnDiskNotOlder, DiskInv, AWholeBuildStays
  <2> QED BY <1>1, <2>1, <2>3, NothingNewInstalled, HelperMoves DEF Installed, Swapping
<1> QED BY <1>2, <1>3, <1>4, <1>5, <1>6, <1>7 DEF SwapStep

(* RESTARTs, stops, power cuts and boots run what is on the disk, or none.  *)
LEMMA ServiceStepKeepsVersions ==
  ASSUME DiskInv, VersionsRise, RestartStep \/ StarterStep \/ Exit \/ PowerCut \/ Boot
  PROVE  VersionsRise'
<1>1. UNCHANGED <<row, publish, exe, new, old>>
  BY DEF RestartStep, SpawnStarter, StopForRestart, RestartOnCommand, StarterStep, StarterWait,
         StartAgain, Exit, PowerCut, Boot, Aside, releaseVars, diskVars
<1>2. update' = update \/ update'.pc = "idle"
  BY DEF RestartStep, SpawnStarter, StopForRestart, RestartOnCommand, StarterStep, StarterWait,
         StartAgain, Exit, PowerCut, Boot, NoUpdate
<1>3. agent' \in {agent, NoFile} \/ agent' = exe
  BY DEF RestartStep, SpawnStarter, StopForRestart, RestartOnCommand, StarterStep, StarterWait,
         StartAgain, Starts, Exit, PowerCut, Boot
<1>4. Swapping' => Swapping
  <2>1. swapper' \in {swapper, NoHelper, Over(swapper)}
    BY DEF RestartStep, SpawnStarter, StopForRestart, RestartOnCommand, StarterStep, StarterWait,
           StartAgain, Exit, PowerCut, Boot
  <2> QED BY <2>1, HelperMoves DEF Swapping, DiskInv, UpdaterTypeOK
<1>5. BackupNotOlder' /\ OnDiskNotOlder'
  <2>1. exe # NoFile => exe \in AllBuilds
    BY DEF DiskInv, AWholeBuildStays
  <2> QED BY <1>1, <1>3, <2>1, BuildVersions DEF VersionsRise, BackupNotOlder, OnDiskNotOlder
<1>6. Installed' \subseteq Installed
  BY <1>1, <1>3, NoBuilds DEF Installed
<1> QED BY <1>1, <1>2, <1>4, <1>5, <1>6, NothingNewInstalled

LEMMA VersionStep ==
  ASSUME DiskInv, DiskInv', VersionInv, [UpdaterNext]_updaterVars
  PROVE  VersionInv'
<1> SUFFICES ASSUME removals' = 0 PROVE VersionsRise'
  BY DEF VersionInv
<1>1. removals = 0
  <2>1. CASE PublishStep
    BY <2>1 DEF PublishStep, CheckVersion, RemoveRelease, WriteRelease, InsertRelease, UnlinkRelease,
                PublishStops, DiskInv, UpdaterTypeOK
  <2>2. CASE UNCHANGED removals
    BY <2>2
  <2>3. CASE ~PublishStep /\ UpdaterNext
    BY <2>3, <2>2
    DEF UpdaterNext, Check, UpdateStep, OpenDownload, Receive, Verify, SpawnSwapper, StopForUpdate,
        RenameInPlace, RestartUnit, SwapStep, SwapWait, RemoveLeftover, RenameOld, MoveNew,
        RemoveBackup, StartSwapped, RestartStep, SpawnStarter, StopForRestart, RestartOnCommand,
        StarterStep, StarterWait, StartAgain, Exit, PowerCut, Boot, Agentless, Aside, releaseVars
  <2> QED BY <2>1, <2>2, <2>3 DEF updaterVars, releaseVars
<1>2. VersionsRise
  BY <1>1 DEF VersionInv
<1>3. CASE UNCHANGED updaterVars
  BY <1>2, <1>3, NothingNewInstalled
  DEF updaterVars, diskVars, processVars, releaseVars, Installed, Swapping, VersionsRise,
      BackupNotOlder, OnDiskNotOlder
<1> QED BY <1>1, <1>2, <1>3, PublishStepKeepsVersions, CheckKeepsVersions, UpdateStepKeepsVersions,
           SwapStepKeepsVersions, ServiceStepKeepsVersions DEF UpdaterNext
-----------------------------------------------------------------------------
(* Type correctness of an installation and of the releases.                 *)
THEOREM UpdaterTyped == UpdaterSpec => []UpdaterTypeOK
<1>1. DiskInv => UpdaterTypeOK
  BY DEF DiskInv
<1> QED BY <1>1, DiskInit, DiskStep, PTL DEF UpdaterSpec

(* Whatever step of an update fails and wherever power is lost, a whole     *)
(* build stays at the service's path or beside it; and, while no release is *)
(* taken back, what the next start runs is not older than what runs now     *)
(* (Download, Apply, RunHelper, checkForUpdate).                            *)
THEOREM WholeBuildAlways == UpdaterSpec => []WholeBuildNotOlder
<1>1. DiskInv /\ VersionInv => WholeBuildNotOlder
  BY DEF DiskInv, VersionInv, VersionsRise, WholeBuildNotOlder
<1> QED BY <1>1, DiskInit, DiskStep, VersionInit, VersionStep, PTL DEF UpdaterSpec
-----------------------------------------------------------------------------
(* All of the parts together: each, seen alone, takes its own steps or      *)
(* rests.                                                                   *)
LEMMA EnrollmentPart == LifecycleSpec => Spec
<1>1. LifecycleInit => Init
  BY DEF LifecycleInit
<1>2. [LifecycleNext]_lifecycleVars => [Next]_vars
  BY DEF LifecycleNext, lifecycleVars
<1> QED BY <1>1, <1>2, PTL DEF LifecycleSpec, Spec

LEMMA SubscriptionPart == LifecycleSpec => SubscriptionSpec
<1>1. LifecycleInit => SubscriptionInit
  BY DEF LifecycleInit
<1>2. [LifecycleNext]_lifecycleVars => [SubscriptionNext]_subscriptionVars
  BY DEF LifecycleNext, lifecycleVars
<1> QED BY <1>1, <1>2, PTL DEF LifecycleSpec, SubscriptionSpec

LEMMA UpdaterPart == LifecycleSpec => UpdaterSpec
<1>1. LifecycleInit => UpdaterInit
  BY DEF LifecycleInit
<1>2. [LifecycleNext]_lifecycleVars => [UpdaterNext]_updaterVars
  BY DEF LifecycleNext, lifecycleVars
<1> QED BY <1>1, <1>2, PTL DEF LifecycleSpec, UpdaterSpec

(* What a tenant and its agent go through: the types of all three, codes    *)
(* redeemed once and in step with their tokens, a whole build on the disk   *)
(* that is not older while no release is taken back, and no payment lost    *)
(* between Stripe and the tenant.                                           *)
THEOREM LifecycleHolds ==
  LifecycleSpec => /\ [](LifecycleTypesOK /\ TokensMatchCodes /\ WholeBuildNotOlder)
                   /\ ImplementsOneTimeCode
                   /\ []PaymentRecorded
<1>1. EnrollmentTypeOK /\ SubscriptionTypeOK /\ UpdaterTypeOK => LifecycleTypesOK
  BY DEF LifecycleTypesOK
<1> QED BY <1>1, EnrollmentPart, SubscriptionPart, UpdaterPart, EnrollmentTyped, SubscriptionTyped,
           UpdaterTyped, TokensAndCodesMatch, EnrollmentImplements, PaymentsRecorded,
           WholeBuildAlways, PTL
==============================================================================
