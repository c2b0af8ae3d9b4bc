----------------------------- MODULE MCContracts -----------------------------
(* Three months of three days; the customer starts with one open contract.  *)
EXTENDS Contracts

MCFirstDay == [m \in 0 .. 3 |-> 3 * m]
MCMonthOf == [d \in 0 .. 8 |-> d \div 3]
MCContractDates == {3, 4, 6}
MCInitContracts == <<[start |-> 3, end |-> 9, status |-> "ACTIVE"]>>
=============================================================================
