------------------------------ MODULE MCBilling ------------------------------
(* What a bill is made of, for one TLC run: contracts, billed pages, the    *)
(* pages chart, the supply forecast and the poll that reads the counters.   *)
(* They share no state: "subject" says which one a behavior is about, and the  *)
(* others rest in their initial state.                                      *)
EXTENDS MCContracts, MCDevicePages, PageTrend, SupplyForecast, MCCollector

VARIABLE subject

billingVars ==
  <<subject, contractVars, today, vars, readings, reports, cvars>>

BillingInit ==
  /\ subject \in {"contracts", "pages", "trend", "forecast", "collector"}
  /\ ContractsAlone /\ Init /\ PageTrendInit /\ SupplyForecastInit /\ CollectorInit
  /\ subject # "pages" => printer = CHOOSE p \in Printers : TRUE
  /\ subject # "collector" => device = CHOOSE d \in SnmpDevices : TRUE

BillingNext ==
  \/ /\ subject = "contracts" /\ ContractsNext
     /\ UNCHANGED <<subject, vars, readings, reports, cvars>>
  \/ /\ subject = "pages" /\ Next
     /\ UNCHANGED <<subject, contractVars, today, readings, reports, cvars>>
  \/ /\ subject = "trend" /\ PageTrendNext
     /\ UNCHANGED <<subject, contractVars, today, vars, reports, cvars>>
  \/ /\ subject = "forecast" /\ SupplyForecastNext
     /\ UNCHANGED <<subject, contractVars, today, vars, readings, cvars>>
  \/ /\ subject = "collector" /\ CollectorNext
     /\ UNCHANGED <<subject, contractVars, today, vars, readings, reports>>
BillingSpec == BillingInit /\ [][BillingNext]_billingVars

(* The type invariants of the parts that have one.                          *)
BillingTypesOK == ContractsTypeOK /\ PagesTypeOK /\ CollectorTypeOK
=============================================================================
