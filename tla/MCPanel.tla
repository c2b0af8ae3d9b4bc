------------------------------- MODULE MCPanel -------------------------------
(* The panel of a blocked tenant, for TLC.                                  *)
EXTENDS Panel

NewTenant == {}
MCAudience == [scope : {"staff"}, stock : {NewTenant}]
MCKeySets == Presets \cup {{}, {"notifications"}}
=============================================================================
