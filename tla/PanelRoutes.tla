----------------------------- MODULE PanelRoutes -----------------------------
(* What the panel's client functions (web/src/lib/api.ts, platform-api.ts)  *)
(* ask of the API, by their names, and what the API's controllers and guards*)
(* answer: 401 without a live user, 402 while the tenant's subscription     *)
(* blocks it, 403 without the permission, else 200.                         *)

\* permissions.util.ts: of the outsourcing company's staff, and of a customer's login.
TenantKeys ==
  {"contracts", "invoices", "customers", "agent", "agent_logs", "users", "devices", "tickets",
   "reports", "audit_log", "settings", "notifications", "billing"}
CustomerKeys == {"invoices_view"}
\* permissions.ts: what the panel offers to tick at once.
Presets ==
  {TenantKeys, {"contracts", "invoices", "billing", "reports"},
   {"customers", "devices", "tickets", "agent", "agent_logs"}}
-----------------------------------------------------------------------------
(* The client's functions, by what they ask about.                          *)
CustomerCalls == {"getCustomers", "getCustomer", "createCustomer"}
CustomerEdits == {"updateCustomer"}
RangeEdits == {"updateCustomerDiscoveryRanges"}
TenantReads == {"getTenant", "getTenantOnboardingStatus", "fetchTenantLogo"}
TenantEdits == {"updateTenant", "uploadTenantLogo", "removeTenantLogo"}
ApiKeyCalls == {"getApiKeys", "createApiKey", "revokeApiKey"}
SubscriptionReads == {"getSubscriptionStatus"}
SubscriptionEdits ==
  {"getSubscriptionInvoices", "createCheckoutSession", "cancelSubscription", "reactivateSubscription",
   "createSetupIntent", "confirmPaymentMethod"}
NotificationCalls ==
  {"getNotifications", "getUnreadNotificationCount", "markAllNotificationsRead",
   "syncNotificationsNow", "resolveNotification", "getNotificationEmailPreferences",
   "getTicketAutomationPreferences", "updateTicketAutomationPreferences",
   "updateNotificationEmailPreferences"}
AuditCalls == {"getAuditLog"}
FleetReads ==
  {"getDevices", "getFleetPageTrend", "getDeviceCurrentMonthPages", "getFleetCurrentMonthPages",
   "getActiveAlerts", "getDevicePageTrend", "getDeviceSupplyTrend"}
ReportCalls == {"getUsageRevenueReport", "getDevicePagesReport"}
DeviceReads == {"getDeviceSupplyForecast", "getLowSupplyForecast", "getDeviceMetrics"}
SelfReads == {"getViewerAccess"}
UserCalls == {"getUsers", "createUser", "revokeUser", "updateUserPermissions"}
TokenCalls ==
  {"getCustomerTokens", "revokeCustomerToken", "requestAgentTokenLog", "requestAgentCommand",
   "getAgentTokenLog", "getCustomerEnrollmentCodes", "createCustomerEnrollmentCode",
   "revokeCustomerEnrollmentCode"}
LogCalls == {"getAgentLogs", "getAgentLogEntry"}
DeviceEdits == {"assignDeviceCustomer", "updateDeviceLabel", "updateDeviceManualBaseline"}
TermEdits == {"updateDeviceBillingTerms", "updateDeviceBillingExcluded"}
ContractCalls ==
  {"getContracts", "getActiveContract", "createContract", "cancelContract", "getBilling",
   "getCurrentPeriodBilling"}
PortfolioCalls == {"getPortfolioCurrentPeriod", "getBillingAlerts"}
InvoiceReads == {"getInvoices", "fetchInvoicePdf"}
InvoiceEdits == {"generateInvoice", "markInvoicePaid", "cancelInvoice"}
InstallerCalls == {"getAgentLatestRelease", "fetchAgentInstaller"}
OwnTicketCalls == {"getCustomerTickets", "getTicket", "createTicket", "addTicketComment", "fetchTicketAttachment"}
QueueCalls == {"getAllTickets", "getAnyTicket", "updateTicket"}
PlatformCalls ==
  {"getTenants", "getPlatformTenant", "createTenant", "updateTenantPricing", "getTenantUsers",
   "createTenantUser", "getAgentReleases", "publishAgentRelease", "deleteAgentRelease",
   "getPlatformAuditLog", "getAgentFleet"}
-----------------------------------------------------------------------------
(* The permissions each controller asserts.                                 *)
Asks(calls, keys) == [call : calls, keys : {keys}]
CustomersController == Asks(CustomerCalls \cup CustomerEdits, {"customers"}) \cup Asks(RangeEdits, {"agent"})
TokensController == Asks(TokenCalls, {"agent"})
TenantController == Asks(TenantReads, {}) \cup Asks(TenantEdits, {"settings"})
ApiKeysController == Asks(ApiKeyCalls, {"settings"})
\* requireBillingAccess also turns customers' logins away; they never hold the key.
SubscriptionController == Asks(SubscriptionReads, {}) \cup Asks(SubscriptionEdits, {"billing"})
NotificationsController == Asks(NotificationCalls, {"notifications"})
AuditLogController == Asks(AuditCalls, {"audit_log"})
DevicesController ==
  Asks(FleetReads \cup DeviceReads, {}) \cup Asks({"getDevicePagesReport"}, {"reports"})
    \cup Asks(DeviceEdits, {"devices"}) \cup Asks(TermEdits, {"devices", "contracts"})
ReportsControllers == Asks({"getUsageRevenueReport", "getBillingAlerts"}, {"reports"})
CurrentPeriodController == Asks({"getPortfolioCurrentPeriod"}, {"reports"})
UsersController == Asks(SelfReads, {}) \cup Asks(UserCalls, {"users"})
AgentLogsController == Asks(LogCalls, {"agent_logs"})
ContractsController == Asks(ContractCalls, {"contracts"})
AgentDownloadController == Asks(InstallerCalls, {"agent"})
TicketsController == Asks(OwnTicketCalls, {})
TicketsManagementController == Asks(QueueCalls, {"tickets"})
\* assertInvoiceReadAccess: customers' logins read their own; the panel's links ask for no other.
InvoicesController(scope) ==
  Asks(InvoiceReads, IF scope = "staff" THEN {"invoices"} ELSE {"invoices_view"})
    \cup Asks(InvoiceEdits, {"invoices"})

Asked(scope) ==
  CustomersController \cup TokensController \cup TenantController \cup ApiKeysController
    \cup SubscriptionController \cup NotificationsController \cup AuditLogController \cup DevicesController
    \cup ReportsControllers \cup CurrentPeriodController \cup UsersController \cup AgentLogsController
    \cup ContractsController \cup AgentDownloadController \cup TicketsController
    \cup TicketsManagementController \cup InvoicesController(scope)

Permits(scope, keys, call) == \A asks \in Asked(scope) : asks.call = call => asks.keys \subseteq keys

\* SubscriptionGuard: on every controller but those a blocked tenant needs.
Ungated ==
  TenantReads \cup TenantEdits \cup ApiKeyCalls \cup SubscriptionReads \cup SubscriptionEdits
    \cup SelfReads \cup UserCalls

\* What a request is answered, given who asks: its scope, whether its token and
\* row are alive, the row's permissions now and whether the tenant is blocked.
PlatformStatus(alive) == IF alive THEN 200 ELSE 401
TenantStatus(scope, alive, keys, blocked, call) ==
  CASE ~alive -> 401
    [] alive /\ blocked /\ call \notin Ungated -> 402
    [] alive /\ ~(blocked /\ call \notin Ungated) ->
         IF Permits(scope, keys, call) THEN 200 ELSE 403
Status(scope, alive, keys, blocked, call) ==
  IF scope = "operator" THEN PlatformStatus(alive) ELSE TenantStatus(scope, alive, keys, blocked, call)
=============================================================================
