----------------------------- MODULE PanelPages -----------------------------
(* The panel's pages (web/src/app): what each asks before it knows who its  *)
(* viewer is, whether it lets the viewer in, what it then reads, in order,  *)
(* and the links and forms it draws.                                        *)
(* A viewer v is [scope, keys, stock]: the session's scope, the permissions *)
(* getViewerAccess answered, and what its tenant has: "customers" (with a   *)
(* contract, invoices, tokens and users), "devices", "tickets" and "notices".*)
EXTENDS PanelRoutes, Sequences

TenantWide(v) == v.scope = "staff"
Has(v, key) == key \in v.keys
When(cond, set) == IF cond THEN set ELSE {}

Loads(asks, enter, reads, links, forms) ==
  [asks |-> asks, enter |-> enter, reads |-> reads, links |-> links, forms |-> forms]
Static(links, forms) == Loads({}, TRUE, <<>>, links, forms)
Download(calls) == Loads({}, TRUE, <<calls>>, {}, {})
\* Most pages begin with getViewerAccess and forbidden() without a permission.
Gated(v, key, reads, links, forms) ==
  Loads({"getViewerAccess"}, Has(v, key), reads, links, forms)

\* Server actions: `catch {}` around the call, Next's own redirects included; a
\* catch that rethrows those; or the failure handed back to the form in place.
Form(call, kind, back, to) == [call |-> call, kind |-> kind, back |-> back, to |-> to]
Swallows(calls, page) == {Form(c, "swallows", page, page) : c \in calls}
Rethrows(calls, page) == {Form(c, "rethrows", page, page) : c \in calls}
InPlace(calls, page) == {Form(c, "in place", page, page) : c \in calls}
-----------------------------------------------------------------------------
Landing == Static({"/login"}, {})
Login == Static({"/forgot-password"}, {})
ForgotPassword == Static({"/login"}, {})
ResetPassword == Static({"/login", "/forgot-password"}, {})

Dashboard(v) ==
  LET reports == Has(v, "reports")
      customers == "customers" \in v.stock
      devices == "devices" \in v.stock
      onboards == ~devices /\ TenantWide(v) /\ Has(v, "customers")
  IN  Loads({"getDevices", "getViewerAccess"}, TRUE,
        <<{"getActiveAlerts", "getFleetPageTrend", "getLowSupplyForecast",
           "getFleetCurrentMonthPages", "getSubscriptionStatus"}
            \cup When(reports, {"getBillingAlerts", "getPortfolioCurrentPeriod"})
            \cup When(onboards, {"getCustomers"})>>,
        {"/subscribe"}
          \cup When(reports /\ customers,
                    {"/reports", "/customers/id/contract", "/customers/id/invoices"})
          \cup When(reports /\ customers /\ devices /\ TenantWide(v), {"/customers/id"})
          \cup When(devices, {"/devices/id"})
          \cup When(onboards, IF customers THEN {"/agent-download"} ELSE {"/customers"}),
        {})

Customers(v) ==
  Gated(v, "customers", <<{"getCustomers"}>>, When("customers" \in v.stock, {"/customers/id"}),
        Swallows({"createCustomer"}, "/customers"))

CustomerForms == Swallows({"updateCustomer"}, "/customers/id")
CustomerUserForms == Swallows({"createUser", "revokeUser"}, "/customers/id")
CustomerAgentForms ==
  Swallows({"revokeCustomerToken", "requestAgentTokenLog", "revokeCustomerEnrollmentCode"}, "/customers/id")
    \cup Rethrows({"requestAgentCommand", "updateCustomerDiscoveryRanges"}, "/customers/id")
    \cup InPlace({"createCustomerEnrollmentCode"}, "/customers/id")
\* getCustomer's failure, a redirect among them, is caught: see PageFails in Panel.
Customer(v) ==
  Gated(v, "customers",
        <<{"getCustomer"},
          {"getDevices", "getLowSupplyForecast", "getCurrentPeriodBilling"}
            \cup When(Has(v, "agent"), {"getCustomerTokens", "getCustomerEnrollmentCodes"})
            \cup When(Has(v, "users"), {"getUsers"})>>,
        {"/customers", "/customers/id/contract", "/customers/id/invoices"}
          \cup When("devices" \in v.stock, {"/devices/id"})
          \cup When(Has(v, "agent"), {"/customers/id/log"}),
        CustomerForms \cup When(Has(v, "users"), CustomerUserForms)
          \cup When(Has(v, "agent"), CustomerAgentForms))
Contract(v) ==
  Gated(v, "contracts", <<{"getCustomer", "getActiveContract", "getContracts", "getBilling"}>>,
        {"/customers/id", "/customers/id/invoices"},
        Swallows({"createContract", "cancelContract"}, "/customers/id/contract"))
Invoices(v) ==
  Loads({"getViewerAccess"}, Has(v, "invoices") \/ Has(v, "invoices_view"),
        <<{"getInvoices"} \cup When(Has(v, "invoices"), {"getCustomer"})>>,
        {"/customers/id/invoices/export", "/customers/id/invoices/pdf"}
          \cup When(Has(v, "invoices"), {"/customers/id"}),
        When(Has(v, "invoices"),
             Rethrows({"generateInvoice"}, "/customers/id/invoices")
               \cup Swallows({"markInvoicePaid", "cancelInvoice"}, "/customers/id/invoices")))
AgentTokenLog(v) ==
  Gated(v, "agent", <<{"getCustomer", "getAgentTokenLog"}>>, {"/customers/id"}, {})
-----------------------------------------------------------------------------
Devices(v) ==
  Loads({"getViewerAccess"}, TRUE, <<{"getDevices"} \cup When(TenantWide(v), {"getCustomers"})>>,
        When("devices" \in v.stock, {"/devices/id"}),
        When("devices" \in v.stock /\ TenantWide(v) /\ Has(v, "devices"),
             InPlace({"assignDeviceCustomer"}, "/devices")))
\* Devices with a customer; the forms are drawn for all the staff.
DeviceForms ==
  Swallows({"updateDeviceLabel", "assignDeviceCustomer", "updateDeviceManualBaseline",
            "updateDeviceBillingExcluded", "updateDeviceBillingTerms"}, "/devices/id")
Device(v) ==
  Loads({}, TRUE,
        <<{"getDevices"},
          {"getDeviceMetrics", "getDevicePageTrend", "getDeviceSupplyTrend",
           "getDeviceSupplyForecast", "getDeviceCurrentMonthPages"},
          When(TenantWide(v), {"getCustomers"}),
          When(TenantWide(v) /\ "customers" \in v.stock, {"getCurrentPeriodBilling"})>>,
        {"/dashboard"}, When(TenantWide(v), DeviceForms))

Tickets(v) ==
  Loads({}, TRUE, <<{IF TenantWide(v) THEN "getAllTickets" ELSE "getCustomerTickets"}>>,
        {"/tickets/new"} \cup When("tickets" \in v.stock, {"/tickets/id"}), {})
CreateTicket == {Form("createTicket", "swallows", "/tickets/new?customer", "/tickets/id")}
\* The staff first choose the customer, by a GET form.
NewTicket(v) ==
  IF TenantWide(v) THEN Loads({}, TRUE, <<{"getCustomers"}>>,
                         When("customers" \in v.stock, {"/tickets/new?customer"}), {})
              ELSE Loads({}, TRUE, <<{"getDevices"}>>, {}, CreateTicket)
NewTicketOf(v) ==
  Loads({}, TRUE, <<{"getDevices"} \cup When(TenantWide(v), {"getCustomer"})>>, {}, CreateTicket)
\* Mutant: the list of staff is read for a customer's login too.
Ticket_StaffForAll(v) ==
  Loads({}, TRUE, <<{IF TenantWide(v) THEN "getAnyTicket" ELSE "getTicket"}, {"getUsers"}>>,
        {"/tickets/id/attachment"}, Swallows({"addTicketComment"}, "/tickets/id"))
Ticket(v) ==
  Loads({}, TRUE,
        <<{IF TenantWide(v) THEN "getAnyTicket" ELSE "getTicket"}, When(TenantWide(v), {"getUsers"})>>,
        {"/tickets/id/attachment"},
        Swallows({"addTicketComment"} \cup When(TenantWide(v), {"updateTicket"}), "/tickets/id"))
-----------------------------------------------------------------------------
Users(v) ==
  Gated(v, "users", <<{"getUsers"} \cup When(Has(v, "customers"), {"getCustomers"})>>, {},
        Swallows({"createUser", "revokeUser", "updateUserPermissions"}, "/users"))
AgentDownload(v) ==
  Gated(v, "agent", <<{"getAgentLatestRelease"}>>, {"/agent-download/installer", "/customers"}, {})
Logs(v) == Gated(v, "agent_logs", <<{"getAgentLogs", "getCustomers"}>>, {"/logs", "/logs/id"}, {})
LogEntry(v) == Gated(v, "agent_logs", <<{"getAgentLogEntry"}>>, {"/logs"}, {})
AuditLog(v) == Gated(v, "audit_log", <<{"getAuditLog"}>>, {"/audit-log"}, {})

NotificationForms ==
  Swallows({"syncNotificationsNow", "resolveNotification", "updateNotificationEmailPreferences",
            "updateTicketAutomationPreferences"}, "/notifications")
\* notifications.service.ts writes where a notification links to.
NoticeLinks == {"/customers/id/invoices", "/customers/id/contract", "/devices/id", "/tickets/id"}
\* Once rendered, it also marks what it showed as read.
Notifications(v) ==
  Gated(v, "notifications",
        <<{"getNotifications", "getNotificationEmailPreferences", "getTicketAutomationPreferences"},
          When("notices" \in v.stock, {"markAllNotificationsRead"})>>,
        When("notices" \in v.stock, NoticeLinks), NotificationForms)

Reports(v) ==
  Gated(v, "reports", <<{"getUsageRevenueReport"}>>, {"/reports/pages", "/reports/export"}, {})
PagesReport(v) ==
  Gated(v, "reports", <<{"getDevicePagesReport"} \cup When(TenantWide(v), {"getCustomers"})>>,
        {"/reports", "/reports/pages/export"} \cup When("devices" \in v.stock, {"/devices/id"}), {})
Settings(v) ==
  Gated(v, "settings", <<{"getTenant", "getApiKeys"}>>, {"/notifications", "/settings/logo"},
        Swallows({"updateTenant", "uploadTenantLogo", "removeTenantLogo", "revokeApiKey"}, "/settings")
          \cup InPlace({"createApiKey"}, "/settings"))

\* A checkout leaves for Stripe, which sends the browser back to this page.
SubscribeForms ==
  Swallows({"createCheckoutSession", "cancelSubscription", "reactivateSubscription"}, "/subscribe")
    \cup InPlace({"createSetupIntent", "confirmPaymentMethod"}, "/subscribe")
Subscribe(v) ==
  LET manages == TenantWide(v) /\ Has(v, "billing")
  IN  Loads({"getViewerAccess"}, TRUE,
            <<{"getSubscriptionStatus"}, When(manages, {"getSubscriptionInvoices"})>>,
            {}, When(manages, SubscribeForms))
-----------------------------------------------------------------------------
PlatformLinks ==
  {"/platform", "/platform/agent-releases", "/platform/agent-fleet", "/platform/audit-log"}
Platform ==
  Loads({}, TRUE, <<{"getTenants"}>>, PlatformLinks \cup {"/platform/tenants/id"},
        {Form("createTenant", "swallows", "/platform", "/platform/tenants/id")})
PlatformTenant ==
  Loads({}, TRUE, <<{"getPlatformTenant", "getTenantUsers"}>>, PlatformLinks,
        Swallows({"createTenantUser", "updateTenantPricing"}, "/platform/tenants/id"))
AgentFleet == Loads({}, TRUE, <<{"getAgentFleet", "getAgentReleases"}>>, PlatformLinks, {})
AgentReleases ==
  Loads({}, TRUE, <<{"getAgentReleases"}>>, PlatformLinks,
        Swallows({"publishAgentRelease", "deleteAgentRelease"}, "/platform/agent-releases"))
PlatformAuditLog == Loads({}, TRUE, <<{"getPlatformAuditLog"}>>, PlatformLinks, {})
-----------------------------------------------------------------------------
\* The pages, by their paths. Public ones need no session cookie.
PublicPages == {"/", "/login", "/forgot-password", "/reset-password", "/platform/login"}
PlatformPages ==
  {"/platform", "/platform/login", "/platform/tenants/id", "/platform/agent-fleet",
   "/platform/agent-releases", "/platform/audit-log"}
\* Route handlers answer a file or JSON, outside any layout.
Handlers ==
  {"/customers/id/invoices/export", "/customers/id/invoices/pdf", "/agent-download/installer",
   "/settings/logo", "/reports/export", "/reports/pages/export", "/tickets/id/attachment", "/search-index"}
InvoicesExport == Download({"getInvoices"})
InvoicePdf == Download({"fetchInvoicePdf"})
Installer == Download({"fetchAgentInstaller"})
TenantLogo == Download({"fetchTenantLogo"})
ReportsExport == Download({"getUsageRevenueReport"})
PagesExport == Download({"getDevicePagesReport"})
Attachment == Download({"fetchTicketAttachment"})
SearchIndex == Download({"getCustomers", "getDevices", "getAllTickets"})

Page(p, v) ==
  CASE p = "/" -> Landing
    [] p = "/login" -> Login
    [] p = "/forgot-password" -> ForgotPassword
    [] p = "/reset-password" -> ResetPassword
    [] p = "/dashboard" -> Dashboard(v)
    [] p = "/customers" -> Customers(v)
    [] p = "/customers/id" -> Customer(v)
    [] p = "/customers/id/contract" -> Contract(v)
    [] p = "/customers/id/invoices" -> Invoices(v)
    [] p = "/customers/id/invoices/export" -> InvoicesExport
    [] p = "/customers/id/invoices/pdf" -> InvoicePdf
    [] p = "/customers/id/log" -> AgentTokenLog(v)
    [] p = "/devices" -> Devices(v)
    [] p = "/devices/id" -> Device(v)
    [] p = "/tickets" -> Tickets(v)
    [] p = "/tickets/new" -> NewTicket(v)
    [] p = "/tickets/new?customer" -> NewTicketOf(v)
    [] p = "/tickets/id" -> Ticket(v)
    [] p = "/tickets/id/attachment" -> Attachment
    [] p = "/users" -> Users(v)
    [] p = "/agent-download" -> AgentDownload(v)
    [] p = "/agent-download/installer" -> Installer
    [] p = "/logs" -> Logs(v)
    [] p = "/logs/id" -> LogEntry(v)
    [] p = "/audit-log" -> AuditLog(v)
    [] p = "/notifications" -> Notifications(v)
    [] p = "/reports" -> Reports(v)
    [] p = "/reports/export" -> ReportsExport
    [] p = "/reports/pages" -> PagesReport(v)
    [] p = "/reports/pages/export" -> PagesExport
    [] p = "/settings" -> Settings(v)
    [] p = "/settings/logo" -> TenantLogo
    [] p = "/subscribe" -> Subscribe(v)
    [] p = "/search-index" -> SearchIndex
    [] p = "/platform" -> Platform
    [] p = "/platform/login" -> Static({}, {})
    [] p = "/platform/tenants/id" -> PlatformTenant
    [] p = "/platform/agent-fleet" -> AgentFleet
    [] p = "/platform/agent-releases" -> AgentReleases
    [] p = "/platform/audit-log" -> PlatformAuditLog
-----------------------------------------------------------------------------
(* The tenant layout's sidebar: what it draws for the permissions it read.  *)
\* The search box reads its index for the staff.
Sidebar(v) ==
  {"/dashboard", "/devices", "/tickets"} \cup When(TenantWide(v), {"/search-index"})
    \cup When(Has(v, "customers"), {"/customers"})
    \cup When(Has(v, "reports"), {"/reports", "/reports/pages"})
    \cup When(Has(v, "notifications"), {"/notifications"})
    \cup When(Has(v, "users"), {"/users"})
    \cup When(Has(v, "agent"), {"/agent-download"})
    \cup When(Has(v, "agent_logs"), {"/logs"})
    \cup When(Has(v, "audit_log"), {"/audit-log"})
    \cup When(Has(v, "settings"), {"/settings"})
    \cup When(Has(v, "billing"), {"/subscribe"})
\* What the search finds.
Searched(v) ==
  When(TenantWide(v) /\ "customers" \in v.stock, {"/customers/id"})
    \cup When(TenantWide(v) /\ "devices" \in v.stock, {"/devices/id"})
    \cup When(TenantWide(v) /\ "tickets" \in v.stock, {"/tickets/id"})
\* The layout's own reads, before its parts are drawn.
Onboards(v) == TenantWide(v) /\ (Has(v, "customers") \/ Has(v, "agent"))
OnboardingReads(v) == When(Onboards(v), {"getTenantOnboardingStatus"})
BellReads(v) == When(Has(v, "notifications"), {"getUnreadNotificationCount"})
=============================================================================
