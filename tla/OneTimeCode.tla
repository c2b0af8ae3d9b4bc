---------------------------- MODULE OneTimeCode ----------------------------
(* What an enrollment code promises (agent-enrollment.service.ts,           *)
(* prisma/schema.prisma AgentEnrollmentCode): it is redeemed by at most one *)
(* request, at once and for good, and never after it was revoked.           *)
CONSTANTS Codes, Attempts, NoAttempt

VARIABLES
  redeemedBy,  \* the request that got a token for the code, or NoAttempt
  revoked      \* the codes staff revoked

Init == redeemedBy = [c \in Codes |-> NoAttempt] /\ revoked = {}

Redeem(c, a) ==
  /\ redeemedBy[c] = NoAttempt /\ c \notin revoked
  /\ redeemedBy' = [redeemedBy EXCEPT ![c] = a]
  /\ UNCHANGED revoked
Revoke(c) ==
  /\ revoked' = revoked \cup {c}
  /\ UNCHANGED redeemedBy

Next == \E c \in Codes : Revoke(c) \/ \E a \in Attempts : Redeem(c, a)
Spec == Init /\ [][Next]_<<redeemedBy, revoked>>
=============================================================================
