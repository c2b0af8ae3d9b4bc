------------------------------- MODULE Panel -------------------------------
(* The panel as its viewer meets it: a page load is a race of the tenant    *)
(* layout and the page, each reading the API step by step; redirects follow *)
(* one another until something is drawn; a link is followed, a form is sent *)
(* or the session changes; and meanwhile the account, the tenant's          *)
(* subscription and the session may change under it.                        *)
(*                                                                          *)
(* Of the API's answers only those of its guards are told apart. A form's   *)
(* server action renders the layout and the page anew.                      *)
EXTENDS PanelPages, Naturals

CONSTANTS
  Audience,         \* sets of [scope, stock]: who the viewer is and what its tenant has
  KeySets,          \* the permissions its row may hold
  MaxRedirects,     \* bound: the browser gives a chain of redirects up (about 20)
  MaxChanges        \* bound: changes of the row, the subscription and the session

\* What the constants may be: every scope has its login page, a row holds
\* permissions the API knows, and a browser follows at least two redirects.
ASSUME PanelAssumption ==
  /\ \A a \in Audience : a.scope \in {"staff", "customer", "operator"}
  /\ KeySets \subseteq SUBSET TenantKeys
  /\ MaxRedirects \in Nat /\ MaxRedirects >= 2 /\ MaxChanges \in Nat

VARIABLES
  who,      \* [scope, stock]
  row,      \* the user's row: [alive, keys]
  blocked,  \* whether the tenant's subscription blocks it
  cookie,   \* the session cookie: "none", "live", or "stale": present, its token no longer accepted
  side,     \* the sidebar the layout drew: [drawn, keys]
  load,     \* the page load under way, or the last one
  said,     \* what the last form said: "none", "saved", "failed" or, for a 403, "refused"
  changes

panelVars == <<who, row, blocked, cookie, side, load, said, changes>>

Ends == {"shown", "forbidden", "not found", "error", "redirects"}
NoSide == [drawn |-> FALSE, keys |-> {}]
Viewer(keys) == [scope |-> who.scope, keys |-> keys, stock |-> who.stock]
KeysOf(scope) ==
  CASE scope = "staff" -> KeySets
    [] scope = "customer" -> SUBSET CustomerKeys
    [] scope = "operator" -> {{}}
TenantPages ==
  {"/", "/login", "/forgot-password", "/reset-password", "/dashboard", "/customers",
   "/customers/id", "/customers/id/contract", "/customers/id/invoices", "/customers/id/log",
   "/devices", "/devices/id", "/tickets", "/tickets/new", "/tickets/new?customer", "/tickets/id",
   "/users", "/agent-download", "/logs", "/logs/id", "/audit-log", "/notifications", "/reports",
   "/reports/pages", "/settings", "/subscribe"} \cup Handlers
Area == IF who.scope = "operator" THEN PlatformPages ELSE TenantPages
LoginPage == IF who.scope = "operator" THEN "/platform/login" ELSE "/login"
HomePage == IF who.scope = "operator" THEN "/platform" ELSE "/dashboard"
InLayout(p) == p \notin Handlers \cup PlatformPages \cup {"/"}

PanelTypeOK ==
  /\ who \in Audience
  /\ row \in [alive : BOOLEAN, keys : KeysOf(who.scope)]
  /\ blocked \in BOOLEAN /\ changes \in 0 .. MaxChanges
  /\ cookie \in {"none", "live", "stale"} /\ said \in {"none", "saved", "failed", "refused"}
  /\ side \in [drawn : BOOLEAN, keys : KeysOf(who.scope) \cup {{}}]
  /\ load \in [at : Area, how : {"hard", "soft"}, via : {"typed", "link", "form", "login", "logout"},
               hops : 0 .. MaxRedirects, steady : BOOLEAN,
               layout : {"access", "onboarding", "bell", "done"}, step : 0 .. 5,
               keys : KeysOf(who.scope) \cup {{}}, body : Ends \cup {"open"}]
-----------------------------------------------------------------------------
(* What a call of the client comes to.                                      *)
\* Mutant: the guard trusts the token and does not look the user up.
Accepted_ByToken == cookie = "live"
Accepted == cookie = "live" /\ row.alive
Answered(call) == Status(who.scope, Accepted, row.keys, blocked, call)
\* Four functions fetch by themselves and know no 402.
OwnFetch == {"getAgentLatestRelease", "fetchAgentInstaller", "fetchInvoicePdf", "fetchTicketAttachment"}
\* "ok", a page to go to, or how the load ends.
TenantOutcome(call) ==
  CASE Answered(call) = 200 -> "ok"
    [] Answered(call) = 401 -> "/login"
    [] Answered(call) = 403 -> "forbidden"
    [] Answered(call) = 402 -> IF call \in OwnFetch THEN "error" ELSE "/subscribe"
PlatformOutcome(call) == IF Answered(call) = 200 THEN "ok" ELSE "/platform/login"
Outcome(call) == IF who.scope = "operator" THEN PlatformOutcome(call) ELSE TenantOutcome(call)
Failing(calls) == {Outcome(c) : c \in calls} \ {"ok"}
-----------------------------------------------------------------------------
(* Loads.                                                                   *)
\* proxy.ts: without a cookie only the public pages are served.
Proxied(p, c) == IF c = "none" /\ p \notin PublicPages THEN LoginPage ELSE p
\* A load of p begins, the cookie being c: a hard one draws the layout anew.
Arrive(p, how, via, hops, steady, c) ==
  LET at == Proxied(p, c)
  IN  /\ load' = [at |-> at, how |-> how, via |-> via, hops |-> hops, steady |-> steady,
                  layout |-> IF how = "soft" \/ c = "none" \/ ~InLayout(at) THEN "done" ELSE "access",
                  step |-> 0, keys |-> {}, body |-> "open"]
      /\ side' = IF how = "soft" THEN side ELSE NoSide
\* A redirect of the load under way, until the browser gives up.
Redirected(p) ==
  IF load.hops = MaxRedirects
  THEN load' = [load EXCEPT !.layout = "done", !.body = "redirects"] /\ side' = NoSide
  ELSE Arrive(p, load.how, load.via, load.hops + 1, load.steady, cookie)

Still == UNCHANGED <<who, row, blocked, cookie, said, changes>>

\* The layout's own failure takes the page with it.
LayoutFails(outcome) ==
  IF outcome \in Area THEN Redirected(outcome)
  ELSE load' = [load EXCEPT !.layout = "done", !.body = outcome] /\ side' = NoSide
\* Mutant: the layout reads the access as the pages do.
LayoutAccess_Redirects ==
  /\ load.layout = "access"
  /\ IF Failing({"getViewerAccess"}) = {}
     THEN /\ side' = [drawn |-> TRUE, keys |-> row.keys]
          /\ load' = [load EXCEPT !.layout = "onboarding"]
     ELSE \E outcome \in Failing({"getViewerAccess"}) : LayoutFails(outcome)
  /\ Still
\* getViewerAccessSafe: whatever is not a 200 draws no sidebar.
LayoutAccess ==
  /\ load.layout = "access"
  /\ IF Failing({"getViewerAccess"}) = {}
     THEN /\ side' = [drawn |-> TRUE, keys |-> row.keys]
          /\ load' = [load EXCEPT !.layout = "onboarding"]
     ELSE side' = NoSide /\ load' = [load EXCEPT !.layout = "done"]
  /\ Still
LayoutReads(calls, next) ==
  /\ IF Failing(calls) = {} THEN load' = [load EXCEPT !.layout = next] /\ UNCHANGED side
     ELSE \E outcome \in Failing(calls) : LayoutFails(outcome)
  /\ Still
LayoutOnboarding ==
  /\ load.layout = "onboarding"
  /\ LayoutReads(OnboardingReads(Viewer(side.keys)), "bell")
LayoutBell ==
  /\ load.layout = "bell"
  /\ LayoutReads(BellReads(Viewer(side.keys)), "done")

\* Mutant: a page takes a redirect for a failure of its own.
PageFails_Caught(outcome) == load' = [load EXCEPT !.body = outcome] /\ UNCHANGED side
\* The page's failure; the customer's page takes any of getCustomer's for a missing customer.
PageFails(outcome) ==
  IF load.at = "/customers/id" /\ load.step = 1
  THEN load' = [load EXCEPT !.body = "not found"] /\ UNCHANGED side
  ELSE IF outcome \in Area THEN Redirected(outcome)
  ELSE load' = [load EXCEPT !.body = outcome] /\ UNCHANGED side
\* Once the last read is answered the page is drawn.
Advance(keys) ==
  LET page == Page(load.at, Viewer(keys))
  IN  /\ load' = [load EXCEPT !.keys = keys, !.step = @ + 1,
                    !.body = IF ~page.enter THEN "forbidden"
                             ELSE IF load.step = Len(page.reads) THEN "shown" ELSE @]
      /\ UNCHANGED side
LoginForms == {"/login", "/forgot-password", "/platform/login"}
\* isAuthenticated: who is signed in already sees no form.
PageAsks ==
  /\ load.body = "open" /\ load.step = 0
  /\ LET asks == Page(load.at, Viewer({})).asks
     IN  IF load.at \in LoginForms /\ Accepted THEN Redirected(HomePage)
         ELSE IF Failing(asks) # {} THEN \E outcome \in Failing(asks) : PageFails(outcome)
         ELSE Advance(IF "getViewerAccess" \in asks THEN row.keys ELSE {})
  /\ Still
PageReads ==
  /\ load.body = "open" /\ load.step > 0
  /\ LET calls == Page(load.at, Viewer(load.keys)).reads[load.step]
     IN  IF Failing(calls) # {} THEN \E outcome \in Failing(calls) : PageFails(outcome)
         ELSE Advance(load.keys)
  /\ Still
-----------------------------------------------------------------------------
(* The viewer.                                                              *)
Settled == load.layout = "done" /\ load.body \in Ends
Drawn == Page(load.at, Viewer(load.keys))
\* forbidden.tsx and error.tsx offer the dashboard; the sidebar stays beside them.
Offered ==
  (CASE load.body = "shown" -> Drawn.links
     [] load.body \in {"forbidden", "error"} /\ InLayout(load.at) -> {"/dashboard"}
     [] OTHER -> {})
  \cup (IF side.drawn THEN Sidebar(Viewer(side.keys)) \cup Searched(Viewer(side.keys)) ELSE {})

Go(p, how, via, c) == Arrive(p, how, via, 0, TRUE, c)
Visit ==
  /\ Settled
  /\ \E p \in Area : Go(p, "hard", "typed", cookie)
  /\ said' = "none" /\ UNCHANGED <<who, row, blocked, cookie, changes>>
\* Followed within the layout, which stays; or opened anew, as from outside it.
Follow ==
  /\ Settled
  /\ \E p \in Offered, how \in {"hard", "soft"} :
       (how = "soft" => InLayout(load.at) /\ InLayout(p)) /\ Go(p, how, "link", cookie)
  /\ said' = "none" /\ UNCHANGED <<who, row, blocked, cookie, changes>>
\* A failed call, by what the form's action does with it.
Refuses(call) == IF Answered(call) = 403 THEN "refused" ELSE "failed"
FormFails(form, outcome) ==
  CASE form.kind = "swallows" ->
         said' = Refuses(form.call) /\ Go(form.back, "hard", "form", cookie)
    [] form.kind = "in place" -> said' = Refuses(form.call) /\ UNCHANGED <<load, side>>
    [] form.kind = "rethrows" ->
         /\ said' = Refuses(form.call)
         /\ IF outcome \in Area THEN Go(outcome, "hard", "form", cookie)
            ELSE load' = [load EXCEPT !.body = outcome] /\ UNCHANGED side
Submit ==
  /\ Settled /\ load.body = "shown"
  /\ \E form \in Drawn.forms :
       IF Failing({form.call}) = {}
       THEN said' = "saved" /\ Go(form.to, "hard", "form", cookie)
       ELSE \E outcome \in Failing({form.call}) : FormFails(form, outcome)
  /\ UNCHANGED <<who, row, blocked, cookie, changes>>
\* A revoked user's password is no longer taken.
SignIn ==
  /\ Settled /\ load.body = "shown" /\ load.at = LoginPage
  /\ IF row.alive THEN cookie' = "live" /\ said' = "none" /\ Go(HomePage, "hard", "login", "live")
     ELSE said' = "failed" /\ UNCHANGED cookie /\ Go(LoginPage, "hard", "form", cookie)
  /\ UNCHANGED <<who, row, blocked, changes>>
\* The sidebar's button; the platform's layout draws its own by the cookie alone.
SignOut ==
  /\ Settled
  /\ side.drawn \/ (load.at \in PlatformPages /\ cookie # "none")
  /\ cookie' = "none" /\ said' = "none" /\ Go(LoginPage, "hard", "logout", "none")
  /\ UNCHANGED <<who, row, blocked, changes>>
-----------------------------------------------------------------------------
(* What changes under it.                                                   *)
Changed ==
  /\ changes < MaxChanges /\ changes' = changes + 1
  /\ load' = [load EXCEPT !.steady = FALSE]
EditKeys ==
  /\ Changed
  /\ \E keys \in KeysOf(who.scope) \ {row.keys} : row' = [row EXCEPT !.keys = keys]
  /\ UNCHANGED <<who, blocked, cookie, side, said>>
Revoke ==
  /\ Changed
  /\ row.alive /\ row' = [row EXCEPT !.alive = FALSE]
  /\ UNCHANGED <<who, blocked, cookie, side, said>>
SubscriptionTurns ==
  /\ Changed
  /\ who.scope # "operator" /\ blocked' = ~blocked
  /\ UNCHANGED <<who, row, cookie, side, said>>
\* The cookie runs out after 8 hours; its token earlier when the secret is rotated.
SessionEnds ==
  /\ Changed
  /\ cookie = "live" /\ cookie' \in {"none", "stale"}
  /\ UNCHANGED <<who, row, blocked, side, said>>
-----------------------------------------------------------------------------
PanelInit ==
  /\ who \in Audience
  /\ row \in [alive : {TRUE}, keys : KeysOf(who.scope)]
  /\ blocked \in (IF who.scope = "operator" THEN {FALSE} ELSE BOOLEAN)
  /\ cookie \in {"none", "live", "stale"}
  /\ side = NoSide /\ said = "none" /\ changes = 0
  /\ load = [at |-> IF who.scope = "operator" THEN LoginPage ELSE "/", how |-> "hard", via |-> "typed", hops |-> 0, steady |-> TRUE,
             layout |-> "done", step |-> 1, keys |-> {}, body |-> "shown"]
PanelNext ==
  \/ LayoutAccess \/ LayoutOnboarding \/ LayoutBell
  \/ PageAsks \/ PageReads
  \/ Visit \/ Follow \/ Submit \/ SignIn \/ SignOut
  \/ EditKeys \/ Revoke \/ SubscriptionTurns \/ SessionEnds
PanelSpec == PanelInit /\ [][PanelNext]_panelVars
-----------------------------------------------------------------------------
(* Redirects never chase each other: a session that was revoked, has run    *)
(* out or was rotated away ends at the login form, whatever the layout and  *)
(* the page still ask (getViewerAccessSafe, isAuthenticated); the one       *)
(* exception is a blocked tenant's /subscribe (SubscribeReachable).         *)
RedirectsEnd == load.body = "redirects" => load.at = "/subscribe"

Entitled ==
  CASE who.scope = "staff" -> row.keys = TenantKeys
    [] who.scope = "customer" -> row.keys = CustomerKeys \/ changes = 0
    [] who.scope = "operator" -> TRUE
(* Each page asks only for what its viewer holds: an administrator, a       *)
(* customer's login and the operator are refused nothing the panel offers   *)
(* them, no link and no form; and whatever permissions a user holds, the    *)
(* page "every session lands on right after login" is drawn for it          *)
(* (dashboard/page.tsx).                                                    *)
NeverWronglyRefused ==
  /\ load.steady /\ Entitled /\ load.via # "typed" => load.body # "forbidden" /\ said # "refused"
  /\ load.steady /\ load.via = "login" => load.body \notin {"forbidden", "error", "not found"}

(* "permissions ... read live from the DB on every backend request so       *)
(* editing a user's permissions takes effect immediately" (api.ts): no load *)
(* begun since shows a page to a revoked user or an old session, one whose  *)
(* permission was taken away, or a blocked tenant's data.                   *)
ShownIsCurrent ==
  load.steady /\ load.body = "shown" /\ load.at \notin PublicPages =>
    /\ cookie = "live" /\ row.alive
    /\ Page(load.at, Viewer(row.keys)).enter
    /\ blocked => load.at \in {"/subscribe", "/settings", "/settings/logo", "/users"}

(* "a blocked tenant's staff can still ... get here": /subscribe is drawn   *)
(* "even when every other endpoint 402s" (subscribe/page.tsx, api.ts).      *)
SubscribeReachable == load.at = "/subscribe" => load.body # "redirects"
=============================================================================
