---------------------------- MODULE Subscription ----------------------------
(* What one tenant pays OmniPrint: its row, the Stripe subscription behind  *)
(* it, the webhook that copies Stripe's status into the row and the nightly *)
(* job that copies devices and price back (api/src/subscription).  Stripe   *)
(* is external: it changes a subscription by itself and reports the change  *)
(* as an event that is delivered again until the handler succeeds.          *)
EXTENDS Integers, FiniteSets

CONSTANTS
  Prices,        \* negotiated prices a platform admin may set
  StandardPrice, \* PRICE_PER_DEVICE_CENTS
  MaxDevices,    \* bound on the tenant's devices
  MaxSessions,   \* bound on checkout sessions
  MaxChanges,    \* bound on what Stripe reports of subscriptions
  MaxRates,      \* bound on price changes
  MaxStripeFaults, \* bound on failing calls
  Overlap        \* whether events overtake each other and handlers overlap

VARIABLES
  tenant,        \* the row: status, customer, sub, override, trialOver
  fleet,         \* the tenant's number of devices
  customers,     \* how many customers Stripe has for it
  subs,          \* Stripe: checkout sessions, which become subscriptions
  events,        \* Stripe: events not yet handled
  handlers,      \* the webhook's handlers between their reads and the write
  request,       \* a request for a checkout or for a new card
  pricing,       \* updateTenantPricing between its calls
  sync,          \* syncDeviceQuantities between its calls
  changes, rates, stripeFaults

stripeVars == <<customers, subs, events, changes>>
subscriptionVars ==
  <<tenant, fleet, stripeVars, handlers, request, pricing, sync, rates, stripeFaults>>

Standard == -1                   \* no negotiated price
Overrides == Prices \cup {Standard}
Sessions == 1 .. MaxSessions
NoSub == 0
StripeStates == {"none", "open", "active", "past_due", "canceled"}

ASSUME SubscriptionAssumption ==
  /\ Prices \subseteq Nat /\ StandardPrice \in Nat
  /\ {MaxDevices, MaxSessions, MaxChanges, MaxRates, MaxStripeFaults} \subseteq Nat
  /\ Overlap \in BOOLEAN

NoSession == [state |-> "none", price |-> 0, qty |-> 0, ending |-> FALSE]
Off == [pc |-> "idle", kind |-> "card", customer |-> 0, price |-> 0, sub |-> NoSub, qty |-> 0]

SubscriptionInit ==
  /\ tenant = [status |-> "TRIALING", customer |-> 0, sub |-> NoSub,
               override |-> Standard, trialOver |-> FALSE]
  /\ fleet = 0 /\ customers = 0 /\ subs = [k \in Sessions |-> NoSession]
  /\ events = {} /\ handlers = {}
  /\ request = Off /\ pricing = Off /\ sync = Off
  /\ changes = 0 /\ rates = 0 /\ stripeFaults = 0

StripeFault == stripeFaults < MaxStripeFaults /\ stripeFaults' = stripeFaults + 1
EffectivePrice == IF tenant.override = Standard THEN StandardPrice ELSE tenant.override
Quantity(n) == IF n = 0 THEN 1 ELSE n
LiveSub(k) == k # NoSub /\ subs[k].state \in {"active", "past_due"}
\* mapStripeStatus.
MappedStatus(state) ==
  CASE state = "active" -> "ACTIVE" [] state = "canceled" -> "CANCELED" [] OTHER -> "PAST_DUE"
\* Mutant: the end of the trial blocks a tenant that has subscribed.
Blocked_ByTrial ==
  tenant.override # 0 /\ (tenant.trialOver \/ tenant.status \in {"PAST_DUE", "CANCELED"})
\* isTenantBlocked: never at a price of zero.
Blocked ==
  /\ tenant.override # 0
  /\ tenant.status \in {"PAST_DUE", "CANCELED"} \/ (tenant.status = "TRIALING" /\ tenant.trialOver)
-----------------------------------------------------------------------------
\* createCheckoutSession and createSetupIntent.  Neither looks at the status
\* or the price, so that an active tenant may check out once more; a card
\* changes nothing here but the customer, if there is none.
Ask(kind) ==
  /\ request.pc = "idle"
  /\ kind = "card" => tenant.customer = 0
  /\ request' = [Off EXCEPT !.pc = IF tenant.customer = 0 THEN "create" ELSE "act",
                            !.kind = kind, !.customer = tenant.customer,
                            !.price = EffectivePrice]
  /\ UNCHANGED <<tenant, fleet, stripeVars, handlers, pricing, sync, rates, stripeFaults>>
CreateCustomer ==
  /\ request.pc = "create"
  /\ customers' = customers + 1
  /\ \/ request' = [request EXCEPT !.pc = "save", !.customer = customers'] /\ UNCHANGED stripeFaults
     \/ request' = Off /\ StripeFault
  /\ UNCHANGED <<tenant, fleet, subs, events, changes, handlers, pricing, sync, rates>>
SaveCustomer ==
  /\ request.pc = "save"
  /\ tenant' = [tenant EXCEPT !.customer = request.customer]
  /\ request' = [request EXCEPT !.pc = "act"]
  /\ UNCHANGED <<fleet, stripeVars, handlers, pricing, sync, rates, stripeFaults>>
OpenSession ==
  /\ request.pc = "act" /\ request.kind = "checkout"
  /\ \E k \in Sessions :
       /\ subs[k].state = "none" /\ \A j \in Sessions : j < k => subs[j].state # "none"
       /\ subs' = [subs EXCEPT ![k] = [state |-> "open", price |-> request.price,
                                       qty |-> Quantity(fleet), ending |-> FALSE]]
  /\ request' = Off
  /\ UNCHANGED <<tenant, fleet, customers, events, changes, handlers, pricing, sync, rates, stripeFaults>>
SetupCard ==
  /\ request.pc = "act" /\ request.kind = "card"
  /\ request' = Off
  /\ UNCHANGED <<tenant, fleet, stripeVars, handlers, pricing, sync, rates, stripeFaults>>

\* Stripe: a change of a subscription's state and its event.
Reports(kind, k, s) ==
  /\ changes < MaxChanges /\ changes' = changes + 1
  /\ subs' = [subs EXCEPT ![k] = s]
  /\ events' = events \cup {[n |-> changes, kind |-> kind, sub |-> k, state |-> s.state]}
  /\ UNCHANGED <<tenant, fleet, customers, handlers, request, pricing, sync, rates, stripeFaults>>
Pay(k) ==
  subs[k].state = "open" /\ Reports("completed", k, [subs[k] EXCEPT !.state = "active"])
ChargeFails(k) ==
  subs[k].state = "active" /\ Reports("updated", k, [subs[k] EXCEPT !.state = "past_due"])
ChargeSucceeds(k) ==
  subs[k].state = "past_due" /\ Reports("updated", k, [subs[k] EXCEPT !.state = "active"])
Ends(k) ==
  /\ subs[k].state = "past_due" \/ (subs[k].state = "active" /\ subs[k].ending)
  /\ Reports("deleted", k, [subs[k] EXCEPT !.state = "canceled"])
\* cancelSubscription and reactivateSubscription touch Stripe only.
SetEnding(ending) ==
  /\ LiveSub(tenant.sub) /\ subs[tenant.sub].ending # ending
  /\ Reports("updated", tenant.sub, [subs[tenant.sub] EXCEPT !.ending = ending])
-----------------------------------------------------------------------------
\* Mutant: the end of a subscription is an event nobody asked for.
Concerns_NotDeleted(e) == e.kind = "completed" \/ (e.kind = "updated" /\ tenant.sub = e.sub)
\* handleWebhookEvent: an event of a subscription that no row names is dropped.
Concerns(e) == e.kind = "completed" \/ tenant.sub = e.sub
\* For a checkout the subscription is retrieved, otherwise it is in the event.
StatusSeen(e) == MappedStatus(IF e.kind = "completed" THEN subs[e.sub].state ELSE e.state)
Deliver(e) ==
  /\ Overlap \/ (handlers = {} /\ \A f \in events : e.n <= f.n)
  /\ events' = events \ {e}
  /\ handlers' = IF Concerns(e) THEN handlers \cup {[event |-> e, status |-> StatusSeen(e)]}
                 ELSE handlers
  /\ UNCHANGED <<tenant, fleet, customers, subs, changes, request, pricing, sync, rates, stripeFaults>>
WriteStatus(h) ==
  /\ tenant' = [tenant EXCEPT !.status = h.status,
                              !.sub = IF h.event.kind = "completed" THEN h.event.sub ELSE @]
  /\ handlers' = handlers \ {h}
  /\ UNCHANGED <<fleet, stripeVars, request, pricing, sync, rates, stripeFaults>>
\* A handler that fails answers 500, and Stripe sends the event again.
Redeliver(h) ==
  /\ StripeFault
  /\ events' = events \cup {h.event}
  /\ handlers' = handlers \ {h}
  /\ UNCHANGED <<tenant, fleet, customers, subs, changes, request, pricing, sync, rates>>
-----------------------------------------------------------------------------
\* updateTenantPricing: the row read, the row written, the item at Stripe of
\* the subscription that the first read named.
ReadForPricing ==
  /\ pricing.pc = "idle" /\ rates < MaxRates
  /\ rates' = rates + 1
  /\ pricing' = [Off EXCEPT !.pc = "write", !.sub = tenant.sub]
  /\ UNCHANGED <<tenant, fleet, stripeVars, handlers, request, sync, stripeFaults>>
WriteOverride(override) ==
  /\ pricing.pc = "write"
  /\ tenant' = [tenant EXCEPT !.override = override]
  /\ pricing' = IF pricing.sub = NoSub THEN Off
                ELSE [pricing EXCEPT !.pc = "item",
                        !.price = IF override = Standard THEN StandardPrice ELSE override]
  /\ UNCHANGED <<fleet, stripeVars, handlers, request, sync, rates, stripeFaults>>
\* Stripe refuses the items of a subscription that has ended.
PriceItem ==
  /\ pricing.pc = "item"
  /\ pricing' = Off
  /\ \/ LiveSub(pricing.sub) /\ subs' = [subs EXCEPT ![pricing.sub].price = pricing.price]
        /\ UNCHANGED stripeFaults
     \/ ~LiveSub(pricing.sub) /\ UNCHANGED <<subs, stripeFaults>>
     \/ StripeFault /\ UNCHANGED subs
  /\ UNCHANGED <<tenant, fleet, customers, events, changes, handlers, request, sync, rates>>

\* Mutant: the nightly job looks at quantities only.
SyncItem_QuantityOnly ==
  /\ sync.pc = "item"
  /\ sync' = Off
  /\ subs' = IF LiveSub(sync.sub) THEN [subs EXCEPT ![sync.sub].qty = sync.qty] ELSE subs
  /\ UNCHANGED <<tenant, fleet, customers, events, changes, handlers, request, pricing, rates, stripeFaults>>

\* syncDeviceQuantities, every night for each active tenant: the row, the
\* count, the item; a failure is logged.
StartSync ==
  /\ sync.pc = "idle" /\ tenant.status = "ACTIVE" /\ tenant.sub # NoSub
  /\ sync' = [Off EXCEPT !.pc = "count", !.sub = tenant.sub, !.price = EffectivePrice]
  /\ UNCHANGED <<tenant, fleet, stripeVars, handlers, request, pricing, rates, stripeFaults>>
CountDevices ==
  /\ sync.pc = "count"
  /\ sync' = [sync EXCEPT !.pc = "item", !.qty = Quantity(fleet)]
  /\ UNCHANGED <<tenant, fleet, stripeVars, handlers, request, pricing, rates, stripeFaults>>
SyncItem ==
  /\ sync.pc = "item"
  /\ sync' = Off
  /\ \/ LiveSub(sync.sub)
        /\ subs' = [subs EXCEPT ![sync.sub].price = sync.price, ![sync.sub].qty = sync.qty]
        /\ UNCHANGED stripeFaults
     \/ ~LiveSub(sync.sub) /\ UNCHANGED <<subs, stripeFaults>>
     \/ StripeFault /\ UNCHANGED subs
  /\ UNCHANGED <<tenant, fleet, customers, events, changes, handlers, request, pricing, rates>>

NewDevice ==
  /\ fleet < MaxDevices /\ fleet' = fleet + 1
  /\ UNCHANGED <<tenant, stripeVars, handlers, request, pricing, sync, rates, stripeFaults>>
TrialEnds ==
  /\ ~tenant.trialOver
  /\ tenant' = [tenant EXCEPT !.trialOver = TRUE]
  /\ UNCHANGED <<fleet, stripeVars, handlers, request, pricing, sync, rates, stripeFaults>>
-----------------------------------------------------------------------------
RequestStep == CreateCustomer \/ SaveCustomer \/ OpenSession \/ SetupCard
StripeStep ==
  \/ \E k \in Sessions : Pay(k) \/ ChargeFails(k) \/ ChargeSucceeds(k) \/ Ends(k)
  \/ \E ending \in BOOLEAN : SetEnding(ending)
HandlerStep ==
  \/ \E e \in events : Deliver(e)
  \/ \E h \in handlers : WriteStatus(h)
PricingStep == (\E o \in Overrides : WriteOverride(o)) \/ PriceItem
SyncStep == StartSync \/ CountDevices \/ SyncItem
SubscriptionNext ==
  \/ Ask("checkout") \/ Ask("card") \/ RequestStep \/ StripeStep
  \/ HandlerStep \/ (\E h \in handlers : Redeliver(h))
  \/ ReadForPricing \/ PricingStep \/ SyncStep \/ NewDevice \/ TrialEnds
SubscriptionSpec == SubscriptionInit /\ [][SubscriptionNext]_subscriptionVars

\* Stripe delivers, requests end, and the job runs every night.
SubscriptionFairness ==
  /\ WF_subscriptionVars(HandlerStep)
  /\ WF_subscriptionVars(PricingStep) /\ WF_subscriptionVars(SyncStep)
-----------------------------------------------------------------------------
(* Type correctness; a live subscription is billed for at least one device. *)
SubscriptionTypeOK ==
  /\ tenant \in [status : {"TRIALING", "ACTIVE", "PAST_DUE", "CANCELED"}, customer : Nat,
                  sub : Sessions \cup {NoSub}, override : Overrides, trialOver : BOOLEAN]
  /\ fleet \in 0 .. MaxDevices /\ customers \in Nat
  /\ \A k \in Sessions :
       /\ subs[k] \in [state : StripeStates, price : Nat, qty : Nat, ending : BOOLEAN]
       /\ subs[k].state # "none" => subs[k].qty \in 1 .. MaxDevices + 1
  /\ \A e \in events : e.kind \in {"completed", "updated", "deleted"} /\ e.sub \in Sessions
  /\ \A h \in handlers : h.status \in {"ACTIVE", "PAST_DUE", "CANCELED"}
  /\ request.pc \in {"idle", "create", "save", "act"}
  /\ pricing.pc \in {"idle", "write", "item"} /\ sync.pc \in {"idle", "count", "item"}
  /\ {changes, rates, stripeFaults} \subseteq Nat

(* With every event handled, in whatever order and however often, the row   *)
(* names a subscription exactly when a checkout was ever paid, and it names *)
(* a paid one: no payment is lost between Stripe and the tenant             *)
(* (handleWebhookEvent), and its trial no longer decides about access.      *)
PaymentRecorded ==
  events = {} /\ handlers = {} =>
    /\ tenant.sub = NoSub <=> \A k \in Sessions : subs[k].state \in {"none", "open"}
    /\ tenant.sub # NoSub => /\ subs[tenant.sub].state \notin {"none", "open"}
                             /\ tenant.status # "TRIALING"

(* "subscriptionStatus mirrors Stripe's own subscription status ... kept    *)
(* fresh by SubscriptionService's webhook handler" (schema.prisma): with    *)
(* every event handled, the payment is recorded and the row's status is     *)
(* that of the subscription it names.  So it is while events are handled    *)
(* one at a time and in order (~Overlap).                                   *)
StatusFollowsStripe ==
  /\ PaymentRecorded
  /\ events = {} /\ handlers = {} /\ tenant.sub # NoSub =>
       tenant.status = MappedStatus(subs[tenant.sub].state)

(* A tenant whose subscription is paid gets in and stays in (isTenantBlocked*)
(* and the webhook), whatever became of its trial, of subscriptions before, *)
(* and of handlers that failed on the way.                                  *)
PaymentUnblocks ==
  <>[](tenant.sub # NoSub /\ subs[tenant.sub].state = "active") => <>[]~Blocked

(* "this just guarantees the two can never silently drift apart"            *)
(* (syncDeviceQuantities): once nothing changes, Stripe charges an active   *)
(* tenant its present price for its present devices, although a checkout is *)
(* paid long after its price was read, price changes fail half way, and the *)
(* job itself may write a price it read before the change.                  *)
ItemFollowsTenant ==
  <>[](tenant.status = "ACTIVE" /\ LiveSub(tenant.sub) =>
         /\ subs[tenant.sub].price = EffectivePrice
         /\ subs[tenant.sub].qty = Quantity(fleet))
=============================================================================
