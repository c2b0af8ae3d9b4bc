----------------------------- MODULE MCLifecycle -----------------------------
(* What a tenant and its agent go through, for one TLC run: the enrollment  *)
(* of an agent, the tenant's subscription and the agent's own updates. They *)
(* share no state: "subject" says which one a behavior is about, and the    *)
(* others rest in their initial state.  Fairness is that of each module,    *)
(* for the subject only.                                                    *)
EXTENDS Enrollment, Subscription, Updater

VARIABLE subject

lifecycleVars == <<subject, vars, subscriptionVars, updaterVars>>

\* Published builds: a mandatory update and, above it, an ordinary one.
Build(v) == [version |-> v, edition |-> "a"]
MCFirstBuild == Build(1)
MCBuilds == {Build(2), Build(3)}

LifecycleInit ==
  /\ subject \in {"enrollment", "subscription", "updater"}
  /\ Init /\ SubscriptionInit /\ UpdaterInit
  /\ subject # "updater" => autoUpdate /\ platform = CHOOSE p \in Platforms : TRUE

LifecycleNext ==
  \/ /\ subject = "enrollment" /\ Next
     /\ UNCHANGED <<subject, subscriptionVars, updaterVars>>
  \/ /\ subject = "subscription" /\ SubscriptionNext
     /\ UNCHANGED <<subject, vars, updaterVars>>
  \/ /\ subject = "updater" /\ UpdaterNext
     /\ UNCHANGED <<subject, vars, subscriptionVars>>

SubscriptionFair ==
  /\ WF_subscriptionVars(subject = "subscription" /\ HandlerStep)
  /\ WF_subscriptionVars(subject = "subscription" /\ PricingStep)
  /\ WF_subscriptionVars(subject = "subscription" /\ SyncStep)
UpdaterFair ==
  /\ WF_updaterVars(subject = "updater" /\ Check("main"))
  /\ WF_updaterVars(subject = "updater" /\ UpdateStep)
  /\ WF_updaterVars(subject = "updater" /\ SwapStep)
  /\ WF_updaterVars(subject = "updater" /\ StarterStep)
  /\ WF_updaterVars(subject = "updater" /\ StopForRestart)
  /\ WF_updaterVars(subject = "updater" /\ Exit)
  /\ WF_updaterVars(subject = "updater" /\ Boot)
LifecycleSpec ==
  /\ LifecycleInit /\ [][LifecycleNext]_lifecycleVars
  /\ SubscriptionFair /\ UpdaterFair

(* The type invariants of the parts.                                        *)
LifecycleTypesOK == EnrollmentTypeOK /\ SubscriptionTypeOK /\ UpdaterTypeOK
=============================================================================
