---------------------------- MODULE StaffProofs ----------------------------
(* Proofs about what staff meet (MCStaff): the pages of the panel, and the  *)
(* invoices of a customer beside them, one subject at a time.               *)
EXTENDS MCStaff, InvoicingProofs

(* The panel: its types; that redirects end; that what is shown is allowed  *)
(* as things stand; and that no one is refused what it was offered. The     *)
(* bounds are those of PanelAssumption. First the pages, one by one, then   *)
(* what a step may do to the load under way (Moves), then one invariant for *)
(* each result.                                                             *)
\* All that a page asks of the API before it is drawn.
CallsOf(page) == page.asks \cup UNION {page.reads[i] : i \in DOMAIN page.reads}
Kinds == {"swallows", "rethrows", "in place"}
\* Forms and links stay within an area; a page has at most four groups of reads.
FormsWithin(forms, area) ==
  \A form \in forms : form.to \in area /\ form.back \in area /\ form.kind \in Kinds
WellFormed(page, area) ==
  /\ page.enter \in BOOLEAN
  /\ Len(page.reads) \in 0 .. 4 /\ DOMAIN page.reads = 1 .. Len(page.reads)
  /\ page.links \subseteq area
  /\ FormsWithin(page.forms, area)
\* What a blocked tenant still reaches; and how every other page is guarded.
Exempt == {"/subscribe", "/settings", "/settings/logo", "/users"}
Guarded(p, page) ==
  /\ page.enter \/ "getViewerAccess" \in page.asks
  /\ p \notin PublicPages => CallsOf(page) # {}
  /\ p \notin PublicPages \cup Exempt => \E call \in CallsOf(page) : call \notin Ungated
-----------------------------------------------------------------------------
\* The server actions of a page lead back to it.
LEMMA FormsOf ==
  ASSUME NEW calls, NEW area, NEW p \in area
  PROVE  FormsWithin(Swallows(calls, p), area) /\ FormsWithin(Rethrows(calls, p), area)
         /\ FormsWithin(InPlace(calls, p), area) /\ FormsWithin({}, area)
<1>1. ASSUME NEW c, NEW kind \in Kinds
      PROVE  Form(c, kind, p, p).to = p /\ Form(c, kind, p, p).back = p /\ Form(c, kind, p, p).kind = kind
  BY DEF Form
<1>2. "swallows" \in Kinds /\ "rethrows" \in Kinds /\ "in place" \in Kinds
  BY DEF Kinds
<1>3. \A f \in Swallows(calls, p) : \E c : f = Form(c, "swallows", p, p)
  BY DEF Swallows
<1>4. \A f \in Rethrows(calls, p) : \E c : f = Form(c, "rethrows", p, p)
  BY DEF Rethrows
<1>5. \A f \in InPlace(calls, p) : \E c : f = Form(c, "in place", p, p)
  BY DEF InPlace
<1>6. \A f, c : \A kind \in Kinds : f = Form(c, kind, p, p) => f.to \in area /\ f.back \in area /\ f.kind \in Kinds
  BY <1>1
<1>7. \A f \in Swallows(calls, p) : f.to \in area /\ f.back \in area /\ f.kind \in Kinds
  BY <1>2, <1>3, <1>6
<1>8. \A f \in Rethrows(calls, p) : f.to \in area /\ f.back \in area /\ f.kind \in Kinds
  BY <1>2, <1>4, <1>6
<1>9. \A f \in InPlace(calls, p) : f.to \in area /\ f.back \in area /\ f.kind \in Kinds
  BY <1>2, <1>5, <1>6
<1> QED BY <1>7, <1>8, <1>9 DEF FormsWithin

\* A ticket that is created leads to it, one that is not back to its form.
LEMMA CreateTicketForms == FormsWithin(CreateTicket, TenantPages)
<1>1. LET f == Form("createTicket", "swallows", "/tickets/new?customer", "/tickets/id")
      IN  f.to = "/tickets/id" /\ f.back = "/tickets/new?customer" /\ f.kind = "swallows"
  BY DEF Form
<1> QED BY <1>1 DEF CreateTicket, FormsWithin, Kinds, TenantPages

\* Forms within an area stay so when joined, or drawn on a condition.
LEMMA FormsJoin ==
  ASSUME NEW area, NEW f, NEW g, FormsWithin(f, area), FormsWithin(g, area), NEW cond
  PROVE  FormsWithin(f \cup g, area) /\ FormsWithin(When(cond, f), area)
  BY DEF FormsWithin, When

\* The subscription's guard stands before these calls.
LEMMA GatedCalls ==
  \A call \in {"getDevices", "getCustomers", "getCustomer", "getInvoices", "getAllTickets",
               "getCustomerTickets", "getAnyTicket", "getTicket", "getAgentLatestRelease", "getAgentLogs",
               "getAgentLogEntry", "getAuditLog", "getNotifications", "getUsageRevenueReport",
               "getDevicePagesReport", "fetchInvoicePdf", "fetchAgentInstaller", "fetchTicketAttachment"} :
    call \notin Ungated
  BY DEF Ungated, TenantReads, TenantEdits, ApiKeyCalls, SubscriptionReads, SubscriptionEdits, SelfReads,
         UserCalls

\* A page without reads is well formed; only a public page may be one.
LEMMA StaticSound ==
  ASSUME NEW links \in SUBSET TenantPages, NEW p \in PublicPages
  PROVE  WellFormed(Static(links, {}), TenantPages) /\ Guarded(p, Static(links, {}))
<1>1. /\ Static(links, {}).asks = {} /\ Static(links, {}).enter = TRUE /\ Static(links, {}).reads = <<>>
      /\ Static(links, {}).links = links /\ Static(links, {}).forms = {}
  BY DEF Static, Loads
<1>2. LET reads == Static(links, {}).reads IN Len(reads) \in 0 .. 4 /\ DOMAIN reads = 1 .. Len(reads)
  BY DEF Static, Loads
<1>3. WellFormed(Static(links, {}), TenantPages)
  <2>1. FormsWithin({}, TenantPages)
    BY DEF FormsWithin
  <2> QED BY <1>1, <1>2, <2>1 DEF WellFormed
<1> QED BY <1>1, <1>3 DEF Guarded

\* A route handler is well formed, and guarded by the one call it makes.
LEMMA DownloadSound ==
  ASSUME NEW calls, NEW p, calls # {}, p \in Exempt \/ \E c \in calls : c \notin Ungated
  PROVE  WellFormed(Download(calls), TenantPages) /\ Guarded(p, Download(calls))
<1>1. /\ Download(calls).asks = {} /\ Download(calls).enter = TRUE /\ Download(calls).reads = <<calls>>
      /\ Download(calls).links = {} /\ Download(calls).forms = {}
  BY DEF Download, Loads
<1>2. CallsOf(Download(calls)) = calls
  BY <1>1 DEF CallsOf
<1>3. LET reads == Download(calls).reads IN Len(reads) \in 0 .. 4 /\ DOMAIN reads = 1 .. Len(reads)
  BY DEF Download, Loads
<1>4. WellFormed(Download(calls), TenantPages)
  <2>1. FormsWithin({}, TenantPages)
    BY DEF FormsWithin
  <2> QED BY <1>1, <1>3, <2>1 DEF WellFormed
<1> QED BY <1>1, <1>2, <1>4 DEF Guarded

\* Every page of the tenant's panel is well formed and guarded, by its path.
LEMMA TenantPageSound ==
  ASSUME NEW p \in TenantPages, NEW v
  PROVE  WellFormed(Page(p, v), TenantPages) /\ Guarded(p, Page(p, v))
<1>1. CASE p = "/"
  BY <1>1, StaticSound DEF Page, Landing, PublicPages, TenantPages
<1>2. CASE p = "/login"
  BY <1>2, StaticSound DEF Page, Login, PublicPages, TenantPages
<1>3. CASE p = "/forgot-password"
  BY <1>3, StaticSound DEF Page, ForgotPassword, PublicPages, TenantPages
<1>4. CASE p = "/reset-password"
  BY <1>4, StaticSound DEF Page, ResetPassword, PublicPages, TenantPages
<1>5. CASE p = "/dashboard"
  <2>1. Page(p, v) = Dashboard(v)
    BY <1>5 DEF Page
  <2>2. FormsWithin(Dashboard(v).forms, TenantPages)
    BY FormsOf, FormsJoin DEF Dashboard, Loads, TenantPages
  <2>3. Dashboard(v).links \subseteq TenantPages
    BY DEF Dashboard, When, Loads, TenantPages, Handlers
  <2>4. /\ Dashboard(v).enter \in BOOLEAN /\ (Dashboard(v).enter \/ "getViewerAccess" \in Dashboard(v).asks)
        /\ Len(Dashboard(v).reads) \in 0 .. 4 /\ DOMAIN Dashboard(v).reads = 1 .. Len(Dashboard(v).reads)
    BY DEF Dashboard, Has, Loads
  <2>5. "getDevices" \in CallsOf(Dashboard(v))
    BY DEF Dashboard, Loads, CallsOf
  <2> QED BY <1>5, <2>1, <2>2, <2>3, <2>4, <2>5, GatedCalls DEF WellFormed, Guarded, Exempt
<1>6. CASE p = "/customers"
  <2>1. Page(p, v) = Customers(v)
    BY <1>6 DEF Page
  <2>2. FormsWithin(Customers(v).forms, TenantPages)
    BY FormsOf, FormsJoin DEF Customers, Gated, Loads, TenantPages
  <2>3. Customers(v).links \subseteq TenantPages
    BY DEF Customers, Gated, When, Loads, TenantPages, Handlers
  <2>4. /\ Customers(v).enter \in BOOLEAN /\ (Customers(v).enter \/ "getViewerAccess" \in Customers(v).asks)
        /\ Len(Customers(v).reads) \in 0 .. 4 /\ DOMAIN Customers(v).reads = 1 .. Len(Customers(v).reads)
    BY DEF Customers, Gated, Has, Loads
  <2>5. "getCustomers" \in CallsOf(Customers(v))
    BY DEF Customers, Gated, Loads, CallsOf
  <2> QED BY <1>6, <2>1, <2>2, <2>3, <2>4, <2>5, GatedCalls DEF WellFormed, Guarded, Exempt
<1>7. CASE p = "/customers/id"
  <2>1. Page(p, v) = Customer(v)
    BY <1>7 DEF Page
  <2>2. FormsWithin(Customer(v).forms, TenantPages)
    <3>1. FormsWithin(CustomerForms, TenantPages) /\ FormsWithin(CustomerUserForms, TenantPages)
      BY FormsOf DEF CustomerForms, CustomerUserForms, TenantPages
    <3>2. FormsWithin(CustomerAgentForms, TenantPages)
      BY FormsOf, FormsJoin DEF CustomerAgentForms, TenantPages
    <3> QED BY <3>1, <3>2, FormsJoin DEF Customer, Gated, Loads
  <2>3. Customer(v).links \subseteq TenantPages
    BY DEF Customer, Gated, When, Loads, TenantPages, Handlers
  <2>4. /\ Customer(v).enter \in BOOLEAN /\ (Customer(v).enter \/ "getViewerAccess" \in Customer(v).asks)
        /\ Len(Customer(v).reads) \in 0 .. 4 /\ DOMAIN Customer(v).reads = 1 .. Len(Customer(v).reads)
    BY DEF Customer, Gated, Has, Loads
  <2>5. "getCustomer" \in CallsOf(Customer(v))
    BY DEF Customer, Gated, Loads, CallsOf
  <2> QED BY <1>7, <2>1, <2>2, <2>3, <2>4, <2>5, GatedCalls DEF WellFormed, Guarded, Exempt
<1>8. CASE p = "/customers/id/contract"
  <2>1. Page(p, v) = Contract(v)
    BY <1>8 DEF Page
  <2>2. FormsWithin(Contract(v).forms, TenantPages)
    BY FormsOf, FormsJoin DEF Contract, Gated, Loads, TenantPages
  <2>3. Contract(v).links \subseteq TenantPages
    BY DEF Contract, Gated, Loads, TenantPages, Handlers
  <2>4. /\ Contract(v).enter \in BOOLEAN /\ (Contract(v).enter \/ "getViewerAccess" \in Contract(v).asks)
        /\ Len(Contract(v).reads) \in 0 .. 4 /\ DOMAIN Contract(v).reads = 1 .. Len(Contract(v).reads)
    BY DEF Contract, Gated, Has, Loads
  <2>5. "getCustomer" \in CallsOf(Contract(v))
    BY DEF Contract, Gated, Loads, CallsOf
  <2> QED BY <1>8, <2>1, <2>2, <2>3, <2>4, <2>5, GatedCalls DEF WellFormed, Guarded, Exempt
<1>9. CASE p = "/customers/id/invoices"
  <2>1. Page(p, v) = Invoices(v)
    BY <1>9 DEF Page
  <2>2. FormsWithin(Invoices(v).forms, TenantPages)
    BY FormsOf, FormsJoin DEF Invoices, Loads, TenantPages
  <2>3. Invoices(v).links \subseteq TenantPages
    BY DEF Invoices, When, Loads, TenantPages, Handlers
  <2>4. /\ Invoices(v).enter \in BOOLEAN /\ (Invoices(v).enter \/ "getViewerAccess" \in Invoices(v).asks)
        /\ Len(Invoices(v).reads) \in 0 .. 4 /\ DOMAIN Invoices(v).reads = 1 .. Len(Invoices(v).reads)
    BY DEF Invoices, Has, Loads
  <2>5. "getInvoices" \in CallsOf(Invoices(v))
    BY DEF Invoices, Loads, CallsOf
  <2> QED BY <1>9, <2>1, <2>2, <2>3, <2>4, <2>5, GatedCalls DEF WellFormed, Guarded, Exempt
<1>10. CASE p = "/customers/id/log"
  <2>1. Page(p, v) = AgentTokenLog(v)
    BY <1>10 DEF Page
  <2>2. FormsWithin(AgentTokenLog(v).forms, TenantPages)
    BY FormsOf, FormsJoin DEF AgentTokenLog, Gated, Loads, TenantPages
  <2>3. AgentTokenLog(v).links \subseteq TenantPages
    BY DEF AgentTokenLog, Gated, Loads, TenantPages, Handlers
  <2>4. /\ AgentTokenLog(v).enter \in BOOLEAN /\ (AgentTokenLog(v).enter \/ "getViewerAccess" \in AgentTokenLog(v).asks)
        /\ Len(AgentTokenLog(v).reads) \in 0 .. 4 /\ DOMAIN AgentTokenLog(v).reads = 1 .. Len(AgentTokenLog(v).reads)
    BY DEF AgentTokenLog, Gated, Has, Loads
  <2>5. "getCustomer" \in CallsOf(AgentTokenLog(v))
    BY DEF AgentTokenLog, Gated, Loads, CallsOf
  <2> QED BY <1>10, <2>1, <2>2, <2>3, <2>4, <2>5, GatedCalls DEF WellFormed, Guarded, Exempt
<1>11. CASE p = "/devices"
  <2>1. Page(p, v) = Devices(v)
    BY <1>11 DEF Page
  <2>2. FormsWithin(Devices(v).forms, TenantPages)
    BY FormsOf, FormsJoin DEF Devices, Loads, TenantPages
  <2>3. Devices(v).links \subseteq TenantPages
    BY DEF Devices, When, Loads, TenantPages, Handlers
  <2>4. /\ Devices(v).enter \in BOOLEAN /\ (Devices(v).enter \/ "getViewerAccess" \in Devices(v).asks)
        /\ Len(Devices(v).reads) \in 0 .. 4 /\ DOMAIN Devices(v).reads = 1 .. Len(Devices(v).reads)
    BY DEF Devices, Loads
  <2>5. "getDevices" \in CallsOf(Devices(v))
    BY DEF Devices, Loads, CallsOf
  <2> QED BY <1>11, <2>1, <2>2, <2>3, <2>4, <2>5, GatedCalls DEF WellFormed, Guarded, Exempt
<1>12. CASE p = "/devices/id"
  <2>1. Page(p, v) = Device(v)
    BY <1>12 DEF Page
  <2>2. FormsWithin(Device(v).forms, TenantPages)
    BY FormsOf, FormsJoin DEF Device, Loads, TenantPages, DeviceForms
  <2>3. Device(v).links \subseteq TenantPages
    BY DEF Device, When, Loads, TenantPages, Handlers
  <2>4. /\ Device(v).enter \in BOOLEAN /\ (Device(v).enter \/ "getViewerAccess" \in Device(v).asks)
        /\ Len(Device(v).reads) \in 0 .. 4 /\ DOMAIN Device(v).reads = 1 .. Len(Device(v).reads)
    BY DEF Device, Loads
  <2>5. "getDevices" \in CallsOf(Device(v))
    BY DEF Device, Loads, CallsOf
  <2> QED BY <1>12, <2>1, <2>2, <2>3, <2>4, <2>5, GatedCalls DEF WellFormed, Guarded, Exempt
<1>13. CASE p = "/tickets"
  <2>1. Page(p, v) = Tickets(v)
    BY <1>13 DEF Page
  <2>2. FormsWithin(Tickets(v).forms, TenantPages)
    BY FormsOf, FormsJoin DEF Tickets, Loads, TenantPages
  <2>3. Tickets(v).links \subseteq TenantPages
    BY DEF Tickets, When, Loads, TenantPages, Handlers
  <2>4. /\ Tickets(v).enter \in BOOLEAN /\ (Tickets(v).enter \/ "getViewerAccess" \in Tickets(v).asks)
        /\ Len(Tickets(v).reads) \in 0 .. 4 /\ DOMAIN Tickets(v).reads = 1 .. Len(Tickets(v).reads)
    BY DEF Tickets, Loads
  <2>5. "getAllTickets" \in CallsOf(Tickets(v)) \/ "getCustomerTickets" \in CallsOf(Tickets(v))
    BY DEF Tickets, Loads, CallsOf
  <2> QED BY <1>13, <2>1, <2>2, <2>3, <2>4, <2>5, GatedCalls DEF WellFormed, Guarded, Exempt
<1>14. CASE p = "/tickets/new"
  <2>1. Page(p, v) = NewTicket(v)
    BY <1>14 DEF Page
  <2>2. FormsWithin(NewTicket(v).forms, TenantPages)
    BY FormsOf, CreateTicketForms DEF NewTicket, Loads, TenantPages
  <2>3. NewTicket(v).links \subseteq TenantPages
    BY DEF NewTicket, When, Loads, TenantPages, Handlers
  <2>4. /\ NewTicket(v).enter \in BOOLEAN /\ (NewTicket(v).enter \/ "getViewerAccess" \in NewTicket(v).asks)
        /\ Len(NewTicket(v).reads) \in 0 .. 4 /\ DOMAIN NewTicket(v).reads = 1 .. Len(NewTicket(v).reads)
    BY DEF NewTicket, Loads
  <2>5. "getCustomers" \in CallsOf(NewTicket(v)) \/ "getDevices" \in CallsOf(NewTicket(v))
    BY DEF NewTicket, Loads, CallsOf
  <2> QED BY <1>14, <2>1, <2>2, <2>3, <2>4, <2>5, GatedCalls DEF WellFormed, Guarded, Exempt
<1>15. CASE p = "/tickets/new?customer"
  <2>1. Page(p, v) = NewTicketOf(v)
    BY <1>15 DEF Page
  <2>2. FormsWithin(NewTicketOf(v).forms, TenantPages)
    BY FormsOf, CreateTicketForms DEF NewTicketOf, Loads, TenantPages
  <2>3. NewTicketOf(v).links \subseteq TenantPages
    BY DEF NewTicketOf, When, Loads, TenantPages, Handlers
  <2>4. /\ NewTicketOf(v).enter \in BOOLEAN /\ (NewTicketOf(v).enter \/ "getViewerAccess" \in NewTicketOf(v).asks)
        /\ Len(NewTicketOf(v).reads) \in 0 .. 4 /\ DOMAIN NewTicketOf(v).reads = 1 .. Len(NewTicketOf(v).reads)
    BY DEF NewTicketOf, Loads
  <2>5. "getDevices" \in CallsOf(NewTicketOf(v))
    BY DEF NewTicketOf, Loads, CallsOf
  <2> QED BY <1>15, <2>1, <2>2, <2>3, <2>4, <2>5, GatedCalls DEF WellFormed, Guarded, Exempt
<1>16. CASE p = "/tickets/id"
  <2>1. Page(p, v) = Ticket(v)
    BY <1>16 DEF Page
  <2>2. FormsWithin(Ticket(v).forms, TenantPages)
    BY FormsOf, FormsJoin DEF Ticket, Loads, TenantPages
  <2>3. Ticket(v).links \subseteq TenantPages
    BY DEF Ticket, When, Loads, TenantPages, Handlers
  <2>4. /\ Ticket(v).enter \in BOOLEAN /\ (Ticket(v).enter \/ "getViewerAccess" \in Ticket(v).asks)
        /\ Len(Ticket(v).reads) \in 0 .. 4 /\ DOMAIN Ticket(v).reads = 1 .. Len(Ticket(v).reads)
    BY DEF Ticket, Loads
  <2>5. "getAnyTicket" \in CallsOf(Ticket(v)) \/ "getTicket" \in CallsOf(Ticket(v))
    BY DEF Ticket, Loads, CallsOf
  <2> QED BY <1>16, <2>1, <2>2, <2>3, <2>4, <2>5, GatedCalls DEF WellFormed, Guarded, Exempt
<1>17. CASE p = "/users"
  <2>1. Page(p, v) = Users(v)
    BY <1>17 DEF Page
  <2>2. FormsWithin(Users(v).forms, TenantPages)
    BY FormsOf, FormsJoin DEF Users, Gated, Loads, TenantPages
  <2>3. Users(v).links \subseteq TenantPages
    BY DEF Users, Gated, When, Loads, TenantPages, Handlers
  <2>4. /\ Users(v).enter \in BOOLEAN /\ (Users(v).enter \/ "getViewerAccess" \in Users(v).asks)
        /\ Len(Users(v).reads) \in 0 .. 4 /\ DOMAIN Users(v).reads = 1 .. Len(Users(v).reads)
    BY DEF Users, Gated, Has, Loads
  <2>5. "getViewerAccess" \in CallsOf(Users(v))
    BY DEF Users, Gated, Loads, CallsOf
  <2> QED BY <1>17, <2>1, <2>2, <2>3, <2>4, <2>5, GatedCalls DEF WellFormed, Guarded, Exempt
<1>18. CASE p = "/agent-download"
  <2>1. Page(p, v) = AgentDownload(v)
    BY <1>18 DEF Page
  <2>2. FormsWithin(AgentDownload(v).forms, TenantPages)
    BY FormsOf, FormsJoin DEF AgentDownload, Gated, Loads, TenantPages
  <2>3. AgentDownload(v).links \subseteq TenantPages
    BY DEF AgentDownload, Gated, Loads, TenantPages, Handlers
  <2>4. /\ AgentDownload(v).enter \in BOOLEAN /\ (AgentDownload(v).enter \/ "getViewerAccess" \in AgentDownload(v).asks)
        /\ Len(AgentDownload(v).reads) \in 0 .. 4 /\ DOMAIN AgentDownload(v).reads = 1 .. Len(AgentDownload(v).reads)
    BY DEF AgentDownload, Gated, Has, Loads
  <2>5. "getAgentLatestRelease" \in CallsOf(AgentDownload(v))
    BY DEF AgentDownload, Gated, Loads, CallsOf
  <2> QED BY <1>18, <2>1, <2>2, <2>3, <2>4, <2>5, GatedCalls DEF WellFormed, Guarded, Exempt
<1>19. CASE p = "/logs"
  <2>1. Page(p, v) = Logs(v)
    BY <1>19 DEF Page
  <2>2. FormsWithin(Logs(v).forms, TenantPages)
    BY FormsOf, FormsJoin DEF Logs, Gated, Loads, TenantPages
  <2>3. Logs(v).links \subseteq TenantPages
    BY DEF Logs, Gated, Loads, TenantPages, Handlers
  <2>4. /\ Logs(v).enter \in BOOLEAN /\ (Logs(v).enter \/ "getViewerAccess" \in Logs(v).asks)
        /\ Len(Logs(v).reads) \in 0 .. 4 /\ DOMAIN Logs(v).reads = 1 .. Len(Logs(v).reads)
    BY DEF Logs, Gated, Has, Loads
  <2>5. "getAgentLogs" \in CallsOf(Logs(v))
    BY DEF Logs, Gated, Loads, CallsOf
  <2> QED BY <1>19, <2>1, <2>2, <2>3, <2>4, <2>5, GatedCalls DEF WellFormed, Guarded, Exempt
<1>20. CASE p = "/logs/id"
  <2>1. Page(p, v) = LogEntry(v)
    BY <1>20 DEF Page
  <2>2. FormsWithin(LogEntry(v).forms, TenantPages)
    BY FormsOf, FormsJoin DEF LogEntry, Gated, Loads, TenantPages
  <2>3. LogEntry(v).links \subseteq TenantPages
    BY DEF LogEntry, Gated, Loads, TenantPages, Handlers
  <2>4. /\ LogEntry(v).enter \in BOOLEAN /\ (LogEntry(v).enter \/ "getViewerAccess" \in LogEntry(v).asks)
        /\ Len(LogEntry(v).reads) \in 0 .. 4 /\ DOMAIN LogEntry(v).reads = 1 .. Len(LogEntry(v).reads)
    BY DEF LogEntry, Gated, Has, Loads
  <2>5. "getAgentLogEntry" \in CallsOf(LogEntry(v))
    BY DEF LogEntry, Gated, Loads, CallsOf
  <2> QED BY <1>20, <2>1, <2>2, <2>3, <2>4, <2>5, GatedCalls DEF WellFormed, Guarded, Exempt
<1>21. CASE p = "/audit-log"
  <2>1. Page(p, v) = AuditLog(v)
    BY <1>21 DEF Page
  <2>2. FormsWithin(AuditLog(v).forms, TenantPages)
    BY FormsOf, FormsJoin DEF AuditLog, Gated, Loads, TenantPages
  <2>3. AuditLog(v).links \subseteq TenantPages
    BY DEF AuditLog, Gated, Loads, TenantPages, Handlers
  <2>4. /\ AuditLog(v).enter \in BOOLEAN /\ (AuditLog(v).enter \/ "getViewerAccess" \in AuditLog(v).asks)
        /\ Len(AuditLog(v).reads) \in 0 .. 4 /\ DOMAIN AuditLog(v).reads = 1 .. Len(AuditLog(v).reads)
    BY DEF AuditLog, Gated, Has, Loads
  <2>5. "getAuditLog" \in CallsOf(AuditLog(v))
    BY DEF AuditLog, Gated, Loads, CallsOf
  <2> QED BY <1>21, <2>1, <2>2, <2>3, <2>4, <2>5, GatedCalls DEF WellFormed, Guarded, Exempt
<1>22. CASE p = "/notifications"
  <2>1. Page(p, v) = Notifications(v)
    BY <1>22 DEF Page
  <2>2. FormsWithin(Notifications(v).forms, TenantPages)
    BY FormsOf, FormsJoin DEF Notifications, Gated, Loads, TenantPages, NotificationForms
  <2>3. Notifications(v).links \subseteq TenantPages
    BY DEF Notifications, Gated, When, Loads, TenantPages, Handlers, NoticeLinks
  <2>4. /\ Notifications(v).enter \in BOOLEAN /\ (Notifications(v).enter \/ "getViewerAccess" \in Notifications(v).asks)
        /\ Len(Notifications(v).reads) \in 0 .. 4 /\ DOMAIN Notifications(v).reads = 1 .. Len(Notifications(v).reads)
    BY DEF Notifications, Gated, Has, Loads
  <2>5. "getNotifications" \in CallsOf(Notifications(v))
    BY DEF Notifications, Gated, Loads, CallsOf
  <2> QED BY <1>22, <2>1, <2>2, <2>3, <2>4, <2>5, GatedCalls DEF WellFormed, Guarded, Exempt
<1>23. CASE p = "/reports"
  <2>1. Page(p, v) = Reports(v)
    BY <1>23 DEF Page
  <2>2. FormsWithin(Reports(v).forms, TenantPages)
    BY FormsOf, FormsJoin DEF Reports, Gated, Loads, TenantPages
  <2>3. Reports(v).links \subseteq TenantPages
    BY DEF Reports, Gated, Loads, TenantPages, Handlers
  <2>4. /\ Reports(v).enter \in BOOLEAN /\ (Reports(v).enter \/ "getViewerAccess" \in Reports(v).asks)
        /\ Len(Reports(v).reads) \in 0 .. 4 /\ DOMAIN Reports(v).reads = 1 .. Len(Reports(v).reads)
    BY DEF Reports, Gated, Has, Loads
  <2>5. "getUsageRevenueReport" \in CallsOf(Reports(v))
    BY DEF Reports, Gated, Loads, CallsOf
  <2> QED BY <1>23, <2>1, <2>2, <2>3, <2>4, <2>5, GatedCalls DEF WellFormed, Guarded, Exempt
<1>24. CASE p = "/reports/pages"
  <2>1. Page(p, v) = PagesReport(v)
    BY <1>24 DEF Page
  <2>2. FormsWithin(PagesReport(v).forms, TenantPages)
    BY FormsOf, FormsJoin DEF PagesReport, Gated, Loads, TenantPages
  <2>3. PagesReport(v).links \subseteq TenantPages
    BY DEF PagesReport, Gated, When, Loads, TenantPages, Handlers
  <2>4. /\ PagesReport(v).enter \in BOOLEAN /\ (PagesReport(v).enter \/ "getViewerAccess" \in PagesReport(v).asks)
        /\ Len(PagesReport(v).reads) \in 0 .. 4 /\ DOMAIN PagesReport(v).reads = 1 .. Len(PagesReport(v).reads)
    BY DEF PagesReport, Gated, Has, Loads
  <2>5. "getDevicePagesReport" \in CallsOf(PagesReport(v))
    BY DEF PagesReport, Gated, Loads, CallsOf
  <2> QED BY <1>24, <2>1, <2>2, <2>3, <2>4, <2>5, GatedCalls DEF WellFormed, Guarded, Exempt
<1>25. CASE p = "/settings"
  <2>1. Page(p, v) = Settings(v)
    BY <1>25 DEF Page
  <2>2. FormsWithin(Settings(v).forms, TenantPages)
    BY FormsOf, FormsJoin DEF Settings, Gated, Loads, TenantPages
  <2>3. Settings(v).links \subseteq TenantPages
    BY DEF Settings, Gated, Loads, TenantPages, Handlers
  <2>4. /\ Settings(v).enter \in BOOLEAN /\ (Settings(v).enter \/ "getViewerAccess" \in Settings(v).asks)
        /\ Len(Settings(v).reads) \in 0 .. 4 /\ DOMAIN Settings(v).reads = 1 .. Len(Settings(v).reads)
    BY DEF Settings, Gated, Has, Loads
  <2>5. "getViewerAccess" \in CallsOf(Settings(v))
    BY DEF Settings, Gated, Loads, CallsOf
  <2> QED BY <1>25, <2>1, <2>2, <2>3, <2>4, <2>5, GatedCalls DEF WellFormed, Guarded, Exempt
<1>26. CASE p = "/subscribe"
  <2>1. Page(p, v) = Subscribe(v)
    BY <1>26 DEF Page
  <2>2. FormsWithin(Subscribe(v).forms, TenantPages)
    <3>1. FormsWithin(SubscribeForms, TenantPages)
      BY FormsOf, FormsJoin DEF SubscribeForms, TenantPages
    <3> QED BY <3>1, FormsJoin DEF Subscribe, Loads
  <2>3. Subscribe(v).links \subseteq TenantPages
    BY DEF Subscribe, When, Loads, TenantPages, Handlers
  <2>4. /\ Subscribe(v).enter \in BOOLEAN /\ (Subscribe(v).enter \/ "getViewerAccess" \in Subscribe(v).asks)
        /\ Len(Subscribe(v).reads) \in 0 .. 4 /\ DOMAIN Subscribe(v).reads = 1 .. Len(Subscribe(v).reads)
    BY DEF Subscribe, Loads
  <2>5. "getViewerAccess" \in CallsOf(Subscribe(v))
    BY DEF Subscribe, Loads, CallsOf
  <2> QED BY <1>26, <2>1, <2>2, <2>3, <2>4, <2>5, GatedCalls DEF WellFormed, Guarded, Exempt
<1>27. CASE p = "/customers/id/invoices/export"
  BY <1>27, DownloadSound, GatedCalls DEF Page, InvoicesExport, Exempt
<1>28. CASE p = "/customers/id/invoices/pdf"
  BY <1>28, DownloadSound, GatedCalls DEF Page, InvoicePdf, Exempt
<1>29. CASE p = "/agent-download/installer"
  BY <1>29, DownloadSound, GatedCalls DEF Page, Installer, Exempt
<1>30. CASE p = "/settings/logo"
  BY <1>30, DownloadSound, GatedCalls DEF Page, TenantLogo, Exempt
<1>31. CASE p = "/reports/export"
  BY <1>31, DownloadSound, GatedCalls DEF Page, ReportsExport, Exempt
<1>32. CASE p = "/reports/pages/export"
  BY <1>32, DownloadSound, GatedCalls DEF Page, PagesExport, Exempt
<1>33. CASE p = "/tickets/id/attachment"
  BY <1>33, DownloadSound, GatedCalls DEF Page, Attachment, Exempt
<1>34. CASE p = "/search-index"
  BY <1>34, DownloadSound, GatedCalls DEF Page, SearchIndex, Exempt
<1> QED BY <1>1, <1>2, <1>3, <1>4, <1>5, <1>6, <1>7, <1>8, <1>9, <1>10, <1>11, <1>12,
           <1>13, <1>14, <1>15, <1>16, <1>17, <1>18, <1>19, <1>20, <1>21, <1>22, <1>23, <1>24,
           <1>25, <1>26, <1>27, <1>28, <1>29, <1>30, <1>31, <1>32, <1>33, <1>34 DEF TenantPages, Handlers

\* What a page asks for before it knows its viewer's permissions.
AsksFor(p) ==
  IF p = "/dashboard" THEN {"getDevices", "getViewerAccess"}
  ELSE IF p \in {"/customers", "/customers/id", "/customers/id/contract", "/customers/id/invoices",
                 "/customers/id/log", "/devices", "/users", "/agent-download", "/logs", "/logs/id",
                 "/audit-log", "/notifications", "/reports", "/reports/pages", "/settings", "/subscribe"}
       THEN {"getViewerAccess"} ELSE {}
\* What a page asks for first does not depend on its viewer.
LEMMA PageAsksFor ==
  ASSUME NEW p \in TenantPages \cup PlatformPages, NEW v
  PROVE  Page(p, v).asks = AsksFor(p)
  BY SMTT(120) DEF Page, AsksFor, Gated, Loads, Static, Download, TenantPages, PlatformPages,
     Handlers, AgentDownload, AgentFleet, AgentReleases, AgentTokenLog, Attachment, AuditLog,
     Contract, Customer, Customers, Dashboard, Device, Devices, ForgotPassword, Installer,
     InvoicePdf, Invoices, InvoicesExport, Landing, LogEntry, Login, Logs, NewTicket, NewTicketOf,
     Notifications, PagesExport, PagesReport, Platform, PlatformAuditLog, PlatformTenant, Reports,
     ReportsExport, ResetPassword, SearchIndex, Settings, Subscribe, TenantLogo, Ticket, Tickets,
     Users

\* Every page of the operator's panel is well formed and lets the operator in.
LEMMA PlatformPageSound ==
  ASSUME NEW p \in PlatformPages, NEW v
  PROVE  /\ WellFormed(Page(p, v), PlatformPages)
         /\ Page(p, v).enter
         /\ p # "/platform/login" => CallsOf(Page(p, v)) # {}
<1>1. CASE p = "/platform"
  <2>1. Page(p, v) = Platform
    BY <1>1 DEF Page
  <2>2. FormsWithin(Platform.forms, PlatformPages)
    <3>1. LET f == Form("createTenant", "swallows", "/platform", "/platform/tenants/id")
          IN  f.to = "/platform/tenants/id" /\ f.back = "/platform" /\ f.kind = "swallows"
      BY DEF Form
    <3> QED BY <3>1 DEF Platform, Loads, FormsWithin, Kinds, PlatformPages
  <2>3. /\ Platform.links \subseteq PlatformPages /\ Platform.enter = TRUE
        /\ Len(Platform.reads) \in 0 .. 4 /\ DOMAIN Platform.reads = 1 .. Len(Platform.reads)
    BY DEF Platform, Loads, PlatformPages, PlatformLinks
  <2>4. CallsOf(Platform) # {}
    BY DEF Platform, Loads, CallsOf
  <2> QED BY <2>1, <2>2, <2>3, <2>4 DEF WellFormed
<1>2. CASE p = "/platform/login"
  <2>1. Page(p, v) = Static({}, {})
    BY <1>2 DEF Page
  <2>2. FormsWithin(Static({}, {}).forms, PlatformPages)
    BY FormsOf DEF Static, Loads, PlatformPages
  <2>3. /\ Static({}, {}).links \subseteq PlatformPages /\ Static({}, {}).enter = TRUE
        /\ Len(Static({}, {}).reads) \in 0 .. 4 /\ DOMAIN Static({}, {}).reads = 1 .. Len(Static({}, {}).reads)
    BY DEF Static, Loads, PlatformPages, PlatformLinks
  <2> QED BY <1>2, <2>1, <2>2, <2>3 DEF WellFormed
<1>3. CASE p = "/platform/tenants/id"
  <2>1. Page(p, v) = PlatformTenant
    BY <1>3 DEF Page
  <2>2. FormsWithin(PlatformTenant.forms, PlatformPages)
    BY FormsOf DEF PlatformTenant, Loads, PlatformPages
  <2>3. /\ PlatformTenant.links \subseteq PlatformPages /\ PlatformTenant.enter = TRUE
        /\ Len(PlatformTenant.reads) \in 0 .. 4 /\ DOMAIN PlatformTenant.reads = 1 .. Len(PlatformTenant.reads)
    BY DEF PlatformTenant, Loads, PlatformPages, PlatformLinks
  <2>4. CallsOf(PlatformTenant) # {}
    BY DEF PlatformTenant, Loads, CallsOf
  <2> QED BY <2>1, <2>2, <2>3, <2>4 DEF WellFormed
<1>4. CASE p = "/platform/agent-fleet"
  <2>1. Page(p, v) = AgentFleet
    BY <1>4 DEF Page
  <2>2. FormsWithin(AgentFleet.forms, PlatformPages)
    BY FormsOf DEF AgentFleet, Loads, PlatformPages
  <2>3. /\ AgentFleet.links \subseteq PlatformPages /\ AgentFleet.enter = TRUE
        /\ Len(AgentFleet.reads) \in 0 .. 4 /\ DOMAIN AgentFleet.reads = 1 .. Len(AgentFleet.reads)
    BY DEF AgentFleet, Loads, PlatformPages, PlatformLinks
  <2>4. CallsOf(AgentFleet) # {}
    BY DEF AgentFleet, Loads, CallsOf
  <2> QED BY <2>1, <2>2, <2>3, <2>4 DEF WellFormed
<1>5. CASE p = "/platform/agent-releases"
  <2>1. Page(p, v) = AgentReleases
    BY <1>5 DEF Page
  <2>2. FormsWithin(AgentReleases.forms, PlatformPages)
    BY FormsOf DEF AgentReleases, Loads, PlatformPages
  <2>3. /\ AgentReleases.links \subseteq PlatformPages /\ AgentReleases.enter = TRUE
        /\ Len(AgentReleases.reads) \in 0 .. 4 /\ DOMAIN AgentReleases.reads = 1 .. Len(AgentReleases.reads)
    BY DEF AgentReleases, Loads, PlatformPages, PlatformLinks
  <2>4. CallsOf(AgentReleases) # {}
    BY DEF AgentReleases, Loads, CallsOf
  <2> QED BY <2>1, <2>2, <2>3, <2>4 DEF WellFormed
<1>6. CASE p = "/platform/audit-log"
  <2>1. Page(p, v) = PlatformAuditLog
    BY <1>6 DEF Page
  <2>2. FormsWithin(PlatformAuditLog.forms, PlatformPages)
    BY FormsOf DEF PlatformAuditLog, Loads, PlatformPages
  <2>3. /\ PlatformAuditLog.links \subseteq PlatformPages /\ PlatformAuditLog.enter = TRUE
        /\ Len(PlatformAuditLog.reads) \in 0 .. 4 /\ DOMAIN PlatformAuditLog.reads = 1 .. Len(PlatformAuditLog.reads)
    BY DEF PlatformAuditLog, Loads, PlatformPages, PlatformLinks
  <2>4. CallsOf(PlatformAuditLog) # {}
    BY DEF PlatformAuditLog, Loads, CallsOf
  <2> QED BY <2>1, <2>2, <2>3, <2>4 DEF WellFormed
<1> QED BY <1>1, <1>2, <1>3, <1>4, <1>5, <1>6 DEF PlatformPages
-----------------------------------------------------------------------------
(* Types.                                                                   *)
LoadRow ==
  [at : Area, how : {"hard", "soft"}, via : {"typed", "link", "form", "login", "logout"},
   hops : 0 .. MaxRedirects, steady : BOOLEAN,
   layout : {"access", "onboarding", "bell", "done"}, step : 0 .. 5,
   keys : KeysOf(who.scope) \cup {{}}, body : Ends \cup {"open"}]
SideRow == [drawn : BOOLEAN, keys : KeysOf(who.scope) \cup {{}}]
\* The page that is loading, as its viewer was when it was told.
Loading == Page(load.at, Viewer(load.keys))
PanelTyping ==
  /\ PanelTypeOK
  /\ who.scope = "operator" => ~blocked /\ side = NoSide /\ load.layout = "done"
  /\ load.body = "open" /\ load.step > 0 => load.step <= Len(Loading.reads)
  /\ load.body = "shown" => load.step > 0

\* The records of the state are of their types.
LEMMA Typed ==
  ASSUME PanelTyping
  PROVE  /\ load \in LoadRow /\ side \in SideRow /\ NoSide \in SideRow
         /\ row.keys \in KeysOf(who.scope) /\ row.alive \in BOOLEAN
         /\ who.scope \in {"staff", "customer", "operator"}
<1>1. who.scope \in {"staff", "customer", "operator"}
  BY PanelAssumption DEF PanelTyping, PanelTypeOK
<1>2. NoSide \in SideRow
  BY DEF NoSide, SideRow
<1> QED BY <1>1, <1>2 DEF PanelTyping, PanelTypeOK, LoadRow, SideRow

\* The pages of the viewer's area are well formed.
LEMMA PageFits ==
  ASSUME PanelTyping, NEW p \in Area, NEW v
  PROVE  WellFormed(Page(p, v), Area) /\ Page(p, v).asks = AsksFor(p)
<1>1. CASE who.scope = "operator"
  BY <1>1, PlatformPageSound, PageAsksFor DEF Area
<1>2. CASE who.scope # "operator"
  BY <1>2, TenantPageSound, PageAsksFor DEF Area
<1> QED BY <1>1, <1>2

\* The API's answers exclude each other, and each has its reason.
LEMMA Answers ==
  ASSUME NEW call
  PROVE  /\ Answered(call) \in {200, 401, 402, 403}
         /\ Answered(call) = 401 <=> ~Accepted
         /\ Answered(call) = 402 <=> who.scope # "operator" /\ Accepted /\ blocked /\ call \notin Ungated
         /\ Answered(call) = 403 <=> /\ who.scope # "operator" /\ Accepted /\ ~(blocked /\ call \notin Ungated)
                                     /\ ~Permits(who.scope, row.keys, call)
<1>1. CASE who.scope = "operator"
  BY <1>1 DEF Answered, Status, PlatformStatus
<1>2. CASE who.scope # "operator"
  BY <1>2 DEF Answered, Status, TenantStatus
<1> QED BY <1>1, <1>2

\* What a failed call comes to, and why.
LEMMA Outcomes ==
  ASSUME NEW call
  PROVE  /\ Outcome(call) \in {"ok", "forbidden", "error", "/login", "/subscribe", "/platform/login"}
         /\ Outcome(call) = "ok" <=> Answered(call) = 200
         /\ Outcome(call) = "forbidden" => Answered(call) = 403
         /\ Outcome(call) = "error" => Answered(call) = 402 /\ call \in OwnFetch
         /\ Outcome(call) \in {"/login", "/platform/login"} => ~Accepted
         /\ who.scope = "operator" => Outcome(call) \in {"ok", "/platform/login"}
         /\ who.scope # "operator" => Outcome(call) # "/platform/login"
         /\ Outcome(call) \in Area => Outcome(call) \in {"/login", "/subscribe", "/platform/login"}
         /\ Outcome(call) \in Area \cup {"ok", "forbidden", "error"}
<1>1. CASE who.scope = "operator"
  <2>1. Outcome(call) = IF Answered(call) = 200 THEN "ok" ELSE "/platform/login"
    BY <1>1 DEF Outcome, PlatformOutcome
  <2>2. Answered(call) \in {200, 401}
    BY <1>1, Answers
  <2> QED BY <1>1, <2>1, <2>2, Answers DEF Area, PlatformPages
<1>2. CASE who.scope # "operator"
  <2>1. Outcome(call) = TenantOutcome(call)
    BY <1>2 DEF Outcome
  <2>2. CASE Answered(call) = 200
    BY <1>2, <2>1, <2>2 DEF TenantOutcome, Area, TenantPages, Handlers
  <2>3. CASE Answered(call) = 401
    BY <1>2, <2>1, <2>3, Answers DEF TenantOutcome, Area, TenantPages, Handlers
  <2>4. CASE Answered(call) = 402
    BY <1>2, <2>1, <2>4, Answers DEF TenantOutcome, Area, TenantPages, Handlers
  <2>5. CASE Answered(call) = 403
    BY <1>2, <2>1, <2>5, Answers DEF TenantOutcome, Area, TenantPages, Handlers
  <2> QED BY <2>2, <2>3, <2>4, <2>5, Answers
<1> QED BY <1>1, <1>2

\* All of these calls are answered with what they asked for.
Passed(calls) == \A call \in calls : Outcome(call) = "ok"
\* No call fails when all have passed.
LEMMA FailingIs ==
  ASSUME NEW calls
  PROVE  /\ Failing(calls) = {} <=> Passed(calls)
         /\ \A outcome \in Failing(calls) : outcome # "ok" /\ \E call \in calls : outcome = Outcome(call)
  BY DEF Failing, Passed

(* A load begins.                                                           *)
Began(p, via, hops, steady, c) ==
  /\ load'.at = Proxied(p, c) /\ load'.via = via /\ load'.hops = hops /\ load'.steady = steady
  /\ load'.layout \in {"access", "done"} /\ load'.step = 0 /\ load'.keys = {} /\ load'.body = "open"

Cookies == {"none", "live", "stale"}
Vias == {"typed", "link", "form", "login", "logout"}

\* The proxy leaves a page or shows the login form, within the viewer's area.
LEMMA ProxiedIs ==
  ASSUME PanelTyping, NEW p \in Area, NEW c \in Cookies
  PROVE  /\ Proxied(p, c) \in Area
         /\ Proxied(p, c) = p \/ (c = "none" /\ Proxied(p, c) = LoginPage)
         /\ LoginPage \in Area /\ LoginPage \in LoginForms /\ HomePage \in Area /\ HomePage \notin LoginForms
  BY DEF Proxied, LoginPage, HomePage, LoginForms, Area, PlatformPages, TenantPages

\* A load that begins is of its type.
LEMMA Arrival ==
  ASSUME PanelTyping, NEW p \in Area, NEW how \in {"hard", "soft"}, NEW via \in Vias,
         NEW hops \in 0 .. MaxRedirects, NEW steady \in BOOLEAN, NEW c \in Cookies,
         Arrive(p, how, via, hops, steady, c)
  PROVE  /\ Began(p, via, hops, steady, c)
         /\ load' \in LoadRow /\ side' \in SideRow
         /\ side' \in {side, NoSide}
         /\ who.scope = "operator" => load'.layout = "done"
<1> DEFINE at == Proxied(p, c)
           layout == IF how = "soft" \/ c = "none" \/ ~InLayout(at) THEN "done" ELSE "access"
<1>1. load' = [at |-> at, how |-> how, via |-> via, hops |-> hops, steady |-> steady,
               layout |-> layout, step |-> 0, keys |-> {}, body |-> "open"]
      /\ side' = IF how = "soft" THEN side ELSE NoSide
  BY DEF Arrive
<1>2. at \in Area
  BY ProxiedIs
<1>3. layout \in {"access", "done"}
  OBVIOUS
<1>4. who.scope = "operator" => ~InLayout(at)
  BY <1>2 DEF InLayout, Area
<1> HIDE DEF at, layout
<1>5. load' \in LoadRow
  BY <1>1, <1>2, <1>3 DEF LoadRow, Vias
<1>6. side' \in SideRow /\ side' \in {side, NoSide}
  BY <1>1, Typed
<1>7. who.scope = "operator" => layout = "done"
  BY <1>4 DEF layout
<1>8. Began(p, via, hops, steady, c)
  BY <1>1, <1>3 DEF Began, at
<1> QED BY <1>1, <1>5, <1>6, <1>7, <1>8

(* The browser gives a chain of redirects up.                               *)
GaveUp ==
  /\ load.hops = MaxRedirects
  /\ load' = [load EXCEPT !.layout = "done", !.body = "redirects"] /\ side' = NoSide

\* A redirect begins a load, or gives up.
LEMMA Redirection ==
  ASSUME PanelTyping, NEW p \in Area, Redirected(p)
  PROVE  /\ load' \in LoadRow /\ side' \in SideRow /\ side' \in {side, NoSide}
         /\ who.scope = "operator" => load'.layout = "done"
         /\ GaveUp \/ (load.hops < MaxRedirects /\ Began(p, load.via, load.hops + 1, load.steady, cookie))
<1>1. load \in LoadRow /\ NoSide \in SideRow
  BY Typed
<1>2. CASE load.hops = MaxRedirects
  <2>1. load' = [load EXCEPT !.layout = "done", !.body = "redirects"] /\ side' = NoSide
    BY <1>2 DEF Redirected
  <2>2. load' \in LoadRow /\ load'.layout = "done"
    BY <1>1, <2>1 DEF LoadRow, Ends
  <2> QED BY <1>1, <1>2, <2>1, <2>2 DEF GaveUp
<1>3. CASE load.hops # MaxRedirects
  <2>1. Arrive(p, load.how, load.via, load.hops + 1, load.steady, cookie)
    BY <1>3 DEF Redirected
  <2>2. load.hops + 1 \in 0 .. MaxRedirects /\ load.hops < MaxRedirects
    BY <1>1, <1>3, PanelAssumption DEF LoadRow
  <2>3. load.how \in {"hard", "soft"} /\ load.via \in Vias /\ load.steady \in BOOLEAN
    BY <1>1 DEF LoadRow, Vias
  <2>4. cookie \in Cookies
    BY DEF PanelTyping, PanelTypeOK, Cookies
  <2> QED BY <2>1, <2>2, <2>3, <2>4, Arrival
<1> QED BY <1>2, <1>3

(* A step keeps the types when what it writes is of its type.               *)
LEMMA TypesKept ==
  ASSUME PanelTyping, who' = who,
         row' \in [alive : BOOLEAN, keys : KeysOf(who.scope)], blocked' \in BOOLEAN,
         who.scope = "operator" => ~blocked', changes' \in 0 .. MaxChanges, cookie' \in Cookies,
         said' \in {"none", "saved", "failed", "refused"}, side' \in SideRow, load' \in LoadRow,
         who.scope = "operator" => side' = NoSide /\ load'.layout = "done",
         load'.body = "open" /\ load'.step > 0 => load'.step <= Len(Page(load'.at, Viewer(load'.keys)).reads),
         load'.body = "shown" => load'.step > 0
  PROVE  PanelTyping'
<1>1. Loading' = Page(load'.at, Viewer(load'.keys))
  BY DEF Loading, Viewer
<1>2. LoadRow' = LoadRow /\ SideRow' = SideRow
  BY DEF LoadRow, SideRow, Area
<1>3. PanelTypeOK'
  BY <1>2 DEF PanelTyping, PanelTypeOK, LoadRow, SideRow, Cookies
<1> QED BY <1>1, <1>3 DEF PanelTyping, NoSide
-----------------------------------------------------------------------------
(* What a step does to the load under way.                                  *)
SameViewer == UNCHANGED <<who, row, blocked, cookie, changes>>
\* The calls the page and the layout now wait for.
PageDue == IF load.step = 0 THEN AsksFor(load.at) ELSE Loading.reads[load.step]
LayoutDue == OnboardingReads(Viewer(side.keys)) \cup BellReads(Viewer(side.keys))
\* Why a load begins at p, and what is said of the form before it.
Reason(p, via) ==
  \/ via = "typed" /\ said' = "none"
  \/ via = "link" /\ p \in Offered /\ said' = "none"
  \/ via = "login" /\ p = HomePage /\ said' = "none" /\ cookie' = "live"
  \/ via \in {"form", "logout"} /\ p = LoginPage /\ said' \in {"none", "failed"}
  \/ /\ via = "form" /\ load.body = "shown"
     /\ \E form \in Drawn.forms :
          /\ p \in {form.to, form.back, "/subscribe"} \cup LoginForms
          /\ said' \in {"saved", "failed"} \/ said' = Refuses(form.call)
Fresh ==
  /\ UNCHANGED <<who, row, blocked, changes>>
  /\ \E p \in Area, via \in Vias : Began(p, via, 0, TRUE, cookie') /\ Reason(p, via)
Redirects ==
  /\ SameViewer /\ UNCHANGED said
  /\ \E p \in Area :
       /\ GaveUp \/ (load.hops < MaxRedirects /\ Began(p, load.via, load.hops + 1, load.steady, cookie))
       /\ \/ p = HomePage /\ load.at \in LoginForms /\ Accepted
          \/ /\ p = "/subscribe" \/ (p \in {"/login", "/platform/login"} /\ ~Accepted)
             /\ load.at \in LoginForms => load.layout \in {"onboarding", "bell"}
LayoutMoves ==
  /\ SameViewer /\ UNCHANGED said
  /\ \E l \in {"onboarding", "bell", "done"} :
       /\ load' = [load EXCEPT !.layout = l]
       /\ l = "done" \/ Accepted \/ load.layout \in {"onboarding", "bell"}
       /\ CASE l = "onboarding" -> side'.keys = row.keys
            [] l = "bell" -> load.layout = "onboarding" /\ side' = side
            [] l = "done" -> TRUE
\* What ends a load or its page, if not that it was shown.
Cause(b) ==
  \/ load.body = "open" /\ said' = said /\ b = "not found" /\ load.at = "/customers/id"
  \/ load.body = "open" /\ said' = said /\ \E call \in PageDue : b = Outcome(call)
  \/ load.layout \in {"onboarding", "bell"} /\ said' = said /\ \E call \in LayoutDue : b = Outcome(call)
  \/ /\ load.body = "shown"
     /\ \E form \in Drawn.forms : form.kind = "rethrows" /\ b = Outcome(form.call) /\ said' = Refuses(form.call)
Stops ==
  /\ SameViewer
  /\ \E l \in {load.layout, "done"}, b \in {"forbidden", "error", "not found"} :
       /\ load' = [load EXCEPT !.layout = l, !.body = b]
       /\ l # "done" => side' = side
       /\ Cause(b)
Advances ==
  /\ SameViewer /\ UNCHANGED <<said, side>>
  /\ load.body = "open"
  /\ \E keys \in KeysOf(who.scope) \cup {{}} :
       /\ Advance(keys)
       /\ \/ load.step = 0 /\ Passed(AsksFor(load.at))
               /\ keys = (IF "getViewerAccess" \in AsksFor(load.at) THEN row.keys ELSE {})
          \/ load.step > 0 /\ load.step <= Len(Loading.reads) /\ Passed(Loading.reads[load.step])
               /\ keys = load.keys
Disturbed ==
  /\ UNCHANGED who /\ load' = [load EXCEPT !.steady = FALSE] /\ changes' = changes + 1
  /\ (Accepted' => Accepted)
\* A form that reports a failure in place, or no step at all.
Rests ==
  /\ SameViewer /\ UNCHANGED <<load, side>>
  /\ \/ said' = said
     \/ load.body = "shown" /\ \E form \in Drawn.forms : said' = Refuses(form.call)
Moves == Fresh \/ Redirects \/ LayoutMoves \/ Stops \/ Advances \/ Disturbed \/ Rests

\* A load that goes on with the same page keeps to its reads.
LEMMA SamePage ==
  ASSUME PanelTyping, NEW l \in {"access", "onboarding", "bell", "done"}, NEW s \in BOOLEAN,
         NEW b \in {load.body} \cup (Ends \ {"shown"}),
         load' = [load EXCEPT !.layout = l, !.steady = s, !.body = b]
  PROVE  /\ load' \in LoadRow /\ load'.layout = l
         /\ load'.body = "open" /\ load'.step > 0 => load'.step <= Len(Page(load'.at, Viewer(load'.keys)).reads)
         /\ load'.body = "shown" => load'.step > 0
<1>1. load \in LoadRow
  BY Typed
<1>2. load' \in LoadRow /\ load'.layout = l /\ load'.body = b
      /\ load'.at = load.at /\ load'.keys = load.keys /\ load'.step = load.step
  BY <1>1 DEF LoadRow, Ends
<1>3. load'.body = "open" /\ load'.step > 0 => load'.step <= Len(Page(load'.at, Viewer(load'.keys)).reads)
  BY <1>2 DEF PanelTyping, Loading, Ends
<1>4. load'.body = "shown" => load'.step > 0
  BY <1>2 DEF PanelTyping, Ends
<1> QED BY <1>2, <1>3, <1>4

\* A step that begins a load, redirects one or gives up keeps the types.
LEMMA BeginningKeepsTypes ==
  ASSUME PanelTyping, who' = who, row' = row, blocked' = blocked, changes' = changes,
         cookie' \in Cookies, said' \in {"none", "saved", "failed", "refused"},
         load' \in LoadRow, side' \in {side, NoSide},
         who.scope = "operator" => load'.layout = "done",
         load'.step = 0 \/ load'.body \notin {"open", "shown"},
         load'.body # "shown"
  PROVE  PanelTyping'
<1>1. row' \in [alive : BOOLEAN, keys : KeysOf(who.scope)] /\ blocked' \in BOOLEAN
      /\ changes' \in 0 .. MaxChanges /\ (who.scope = "operator" => ~blocked' /\ side' = NoSide)
  BY DEF PanelTyping, PanelTypeOK
<1>2. side' \in SideRow
  BY Typed
<1> QED BY <1>1, <1>2, TypesKept

\* A step of the viewer that begins a load.
LEMMA FreshKeepsTypes ==
  ASSUME PanelTyping, who' = who, row' = row, blocked' = blocked, changes' = changes,
         cookie' \in Cookies, said' \in {"none", "saved", "failed", "refused"},
         NEW p \in Area, NEW how \in {"hard", "soft"}, NEW via \in Vias, Go(p, how, via, cookie'),
         Reason(p, via)
  PROVE  PanelTyping' /\ Moves
<1>1. /\ Began(p, via, 0, TRUE, cookie') /\ load' \in LoadRow /\ side' \in {side, NoSide}
      /\ who.scope = "operator" => load'.layout = "done"
  <2>1. Arrive(p, how, via, 0, TRUE, cookie')
    BY DEF Go
  <2>2. 0 \in 0 .. MaxRedirects
    BY PanelAssumption
  <2> QED BY <2>1, <2>2, Arrival
<1>2. PanelTyping'
  BY <1>1, BeginningKeepsTypes DEF Began
<1>3. Fresh
  BY <1>1 DEF Fresh
<1> QED BY <1>2, <1>3 DEF Moves

\* A redirect of the load under way.
LEMMA RedirectKeepsTypes ==
  ASSUME PanelTyping, Still, NEW p \in Area, Redirected(p),
         \/ p = HomePage /\ load.at \in LoginForms /\ Accepted
         \/ /\ p = "/subscribe" \/ (p \in {"/login", "/platform/login"} /\ ~Accepted)
            /\ load.at \in LoginForms => load.layout \in {"onboarding", "bell"}
  PROVE  PanelTyping' /\ Moves
<1>1. /\ load' \in LoadRow /\ side' \in {side, NoSide} /\ (who.scope = "operator" => load'.layout = "done")
      /\ GaveUp \/ (load.hops < MaxRedirects /\ Began(p, load.via, load.hops + 1, load.steady, cookie))
  BY Redirection
<1>2. load \in LoadRow
  BY Typed
<1>3. (load'.step = 0 /\ load'.body = "open") \/ load'.body = "redirects"
  BY <1>1, <1>2 DEF GaveUp, Began, LoadRow
<1>4. cookie' \in Cookies /\ said' \in {"none", "saved", "failed", "refused"}
  BY DEF Still, PanelTyping, PanelTypeOK, Cookies
<1>5. PanelTyping'
  BY <1>1, <1>3, <1>4, BeginningKeepsTypes DEF Still
<1>6. Redirects
  BY <1>1 DEF Redirects, SameViewer, Still
<1> QED BY <1>5, <1>6 DEF Moves

\* A step that leaves the page where it is, its layout moved on or its body at an end.
LEMMA StayingKeepsTypes ==
  ASSUME PanelTyping, SameViewer, changes' = changes,
         said' \in {"none", "saved", "failed", "refused"},
         NEW l \in {"access", "onboarding", "bell", "done"}, NEW b \in {load.body} \cup (Ends \ {"shown"}),
         load' = [load EXCEPT !.layout = l, !.body = b], side' \in SideRow,
         who.scope = "operator" => side' = NoSide /\ l = "done"
  PROVE  PanelTyping'
<1>1. load \in LoadRow
  BY Typed
<1>2. load.steady \in BOOLEAN /\ load' = [load EXCEPT !.layout = l, !.steady = load.steady, !.body = b]
  BY <1>1 DEF LoadRow
<1>3. /\ load' \in LoadRow /\ load'.layout = l
      /\ load'.body = "open" /\ load'.step > 0 => load'.step <= Len(Page(load'.at, Viewer(load'.keys)).reads)
      /\ load'.body = "shown" => load'.step > 0
  BY <1>2, SamePage
<1>4. row' \in [alive : BOOLEAN, keys : KeysOf(who.scope)] /\ blocked' \in BOOLEAN /\ who' = who
      /\ changes' \in 0 .. MaxChanges /\ (who.scope = "operator" => ~blocked') /\ cookie' \in Cookies
  BY DEF PanelTyping, PanelTypeOK, SameViewer, Cookies
<1> QED BY <1>3, <1>4, TypesKept

\* What a change under the load leaves of it.
LEMMA DisturbanceKeepsTypes ==
  ASSUME PanelTyping, Changed, who' = who, side' = side, said' = said,
         row' \in [alive : BOOLEAN, keys : KeysOf(who.scope)], blocked' \in BOOLEAN,
         who.scope = "operator" => ~blocked', cookie' \in Cookies, Accepted' => Accepted
  PROVE  PanelTyping' /\ Moves
<1>1. load \in LoadRow /\ side' \in SideRow
  BY Typed
<1>2. load' = [load EXCEPT !.steady = FALSE] /\ changes' \in 0 .. MaxChanges
  BY PanelAssumption DEF Changed, PanelTyping, PanelTypeOK
<1>3. load' = [load EXCEPT !.layout = load.layout, !.steady = FALSE, !.body = load.body]
      /\ load.layout \in {"access", "onboarding", "bell", "done"}
  BY <1>1, <1>2 DEF LoadRow
<1>4. /\ load' \in LoadRow /\ load'.layout = load.layout
      /\ load'.body = "open" /\ load'.step > 0 => load'.step <= Len(Page(load'.at, Viewer(load'.keys)).reads)
      /\ load'.body = "shown" => load'.step > 0
  BY <1>3, SamePage
<1>5. said' \in {"none", "saved", "failed", "refused"}
      /\ (who.scope = "operator" => side' = NoSide /\ load'.layout = "done")
  BY <1>4 DEF PanelTyping, PanelTypeOK
<1>6. PanelTyping'
  BY <1>1, <1>2, <1>4, <1>5, TypesKept
<1>7. Disturbed
  BY <1>2 DEF Disturbed, Changed
<1> QED BY <1>6, <1>7 DEF Moves

\* Where a failed call leads.
LEMMA Failures ==
  ASSUME NEW calls, NEW outcome \in Failing(calls)
  PROVE  /\ outcome \in Area => outcome = "/subscribe" \/ (outcome \in {"/login", "/platform/login"} /\ ~Accepted)
         /\ outcome \notin Area => outcome \in {"forbidden", "error"}
         /\ \E call \in calls : outcome = Outcome(call)
<1>1. PICK call \in calls : outcome = Outcome(call) /\ outcome # "ok"
  BY FailingIs
<1> QED BY <1>1, Outcomes

\* A login form asks the API for nothing.
LEMMA FormsAskNothing ==
  ASSUME NEW p \in LoginForms, NEW v
  PROVE  AsksFor(p) = {} /\ Page(p, v).reads = <<>>
  BY DEF LoginForms, AsksFor, Page, Login, ForgotPassword, Static, Loads

\* A failed read of the layout.
LEMMA LayoutFailureKeepsTypes ==
  ASSUME PanelTyping, Still, load.layout \in {"onboarding", "bell"},
         NEW calls \in SUBSET LayoutDue, NEW outcome \in Failing(calls), LayoutFails(outcome)
  PROVE  PanelTyping' /\ Moves
<1>1. CASE outcome \in Area
  <2>1. Redirected(outcome)
    BY <1>1 DEF LayoutFails
  <2> QED BY <1>1, <2>1, Failures, RedirectKeepsTypes
<1>2. CASE outcome \notin Area
  <2>1. load' = [load EXCEPT !.layout = "done", !.body = outcome] /\ side' = NoSide
    BY <1>2 DEF LayoutFails
  <2>2. outcome \in {"forbidden", "error"}
    BY <1>2, Failures
  <2>3. SameViewer /\ changes' = changes /\ said' \in {"none", "saved", "failed", "refused"}
    BY DEF Still, SameViewer, PanelTyping, PanelTypeOK
  <2>4. PanelTyping'
    BY <2>1, <2>2, <2>3, Typed, StayingKeepsTypes DEF Ends
  <2>5. Cause(outcome)
    BY Failures DEF Cause, Still
  <2>6. Stops
    BY <2>1, <2>2, <2>3, <2>5 DEF Stops
  <2> QED BY <2>4, <2>6 DEF Moves
<1> QED BY <1>1, <1>2

\* A failed read of the page.
LEMMA PageFailureKeepsTypes ==
  ASSUME PanelTyping, Still, load.at \notin LoginForms, load.body = "open",
         NEW outcome \in Failing(PageDue), PageFails(outcome)
  PROVE  PanelTyping' /\ Moves
<1>1. CASE Redirected(outcome) /\ outcome \in Area
  BY <1>1, Failures, RedirectKeepsTypes
<1>2. CASE \E b \in {"forbidden", "error", "not found"} :
             load' = [load EXCEPT !.body = b] /\ UNCHANGED side /\ Cause(b)
  <2>1. PICK b \in {"forbidden", "error", "not found"} :
          load' = [load EXCEPT !.body = b] /\ UNCHANGED side /\ Cause(b)
    BY <1>2
  <2>2. load.layout \in {"access", "onboarding", "bell", "done"} /\ load \in LoadRow
        /\ load' = [load EXCEPT !.layout = load.layout, !.body = b]
    BY <2>1, Typed DEF LoadRow
  <2>3. SameViewer /\ changes' = changes /\ said' \in {"none", "saved", "failed", "refused"}
    BY DEF Still, SameViewer, PanelTyping, PanelTypeOK
  <2>4. side' \in SideRow /\ (who.scope = "operator" => side' = NoSide /\ load.layout = "done")
    BY <2>1, Typed DEF PanelTyping
  <2>5. PanelTyping'
    BY <2>2, <2>3, <2>4, StayingKeepsTypes DEF Ends
  <2>6. Stops
    BY <2>1, <2>2, <2>3 DEF Stops
  <2> QED BY <2>5, <2>6 DEF Moves
<1>3. (outcome \notin Area => outcome \in {"forbidden", "error"}) /\ \E call \in PageDue : outcome = Outcome(call)
  BY Failures
<1>4. Cause(outcome) /\ (load.at = "/customers/id" => Cause("not found"))
  BY <1>3 DEF Cause, Still
<1> QED BY <1>1, <1>2, <1>3, <1>4 DEF PageFails

\* An answered read of the page.
LEMMA AdvanceKeepsTypes ==
  ASSUME PanelTyping, Still, load.body = "open", load.step <= Len(Loading.reads),
         NEW keys \in KeysOf(who.scope) \cup {{}}, Advance(keys),
         \/ load.step = 0
         \/ load.step > 0 /\ keys = load.keys
  PROVE  PanelTyping'
<1> DEFINE page == Page(load.at, Viewer(keys))
           body == IF ~page.enter THEN "forbidden" ELSE IF load.step = Len(page.reads) THEN "shown" ELSE load.body
<1>1. load \in LoadRow /\ load.at \in Area
  BY Typed DEF LoadRow
<1>2. load' = [load EXCEPT !.keys = keys, !.step = @ + 1, !.body = body] /\ UNCHANGED side
  BY DEF Advance
<1>3. Len(page.reads) \in 0 .. 4
  BY <1>1, PageFits DEF WellFormed
<1>4. load.step <= Len(page.reads) /\ load.step \in 0 .. 4
  <2>1. CASE load.step = 0
    BY <2>1, <1>3
  <2>2. CASE keys = load.keys
    <3>1. load.step \in Nat
      BY <1>1 DEF LoadRow
    <3>2. Len(Loading.reads) = Len(page.reads)
      BY <2>2 DEF Loading
    <3>3. \A n \in Nat, m \in 0 .. 4 : n <= m => n \in 0 .. 4
      OBVIOUS
    <3> QED BY <1>3, <3>1, <3>2, <3>3
  <2> QED BY <2>1, <2>2
<1>5. body \in {"forbidden", "shown", "open"} /\ (body = "open" => load.step # Len(page.reads))
  OBVIOUS
<1> HIDE DEF body, page
<1>6. load' \in LoadRow
  <2>1. load.step + 1 \in 0 .. 5 /\ body \in Ends \cup {"open"}
    <3>1. \A n \in 0 .. 4 : n + 1 \in 0 .. 5
      OBVIOUS
    <3>2. load.step \in 0 .. 4
      BY <1>4
    <3>3. load.step + 1 \in 0 .. 5
      BY <3>1, <3>2
    <3>4. body \in Ends \cup {"open"}
      BY <1>5 DEF Ends
    <3> QED BY <3>3, <3>4
  <2> QED BY <1>1, <1>2, <2>1 DEF LoadRow
<1>7. load'.at = load.at /\ load'.keys = keys /\ load'.step = load.step + 1 /\ load'.body = body
      /\ load'.layout = load.layout
  BY <1>1, <1>2 DEF LoadRow
<1>8. load'.body = "open" => load'.step <= Len(Page(load'.at, Viewer(load'.keys)).reads)
  BY <1>3, <1>4, <1>5, <1>7 DEF page
<1>9. load'.body = "shown" => load'.step > 0
  BY <1>4, <1>7
<1>10. /\ row' \in [alive : BOOLEAN, keys : KeysOf(who.scope)] /\ blocked' \in BOOLEAN /\ who' = who
       /\ changes' \in 0 .. MaxChanges /\ (who.scope = "operator" => ~blocked') /\ cookie' \in Cookies
       /\ said' \in {"none", "saved", "failed", "refused"}
  BY DEF PanelTyping, PanelTypeOK, Still, Cookies
<1>11. side' \in SideRow /\ (who.scope = "operator" => side' = NoSide /\ load'.layout = "done")
  BY <1>2, <1>7, Typed DEF PanelTyping
<1> QED BY <1>6, <1>8, <1>9, <1>10, <1>11, TypesKept
-----------------------------------------------------------------------------
\* The layout's steps (LayoutAccess, LayoutOnboarding, LayoutBell).
LEMMA LayoutSteps ==
  ASSUME PanelTyping, LayoutAccess \/ LayoutOnboarding \/ LayoutBell
  PROVE  PanelTyping' /\ Moves
<1>1. Still /\ SameViewer /\ changes' = changes /\ said' \in {"none", "saved", "failed", "refused"}
  BY DEF LayoutAccess, LayoutOnboarding, LayoutBell, LayoutReads, Still, SameViewer, PanelTyping, PanelTypeOK
<1>2. load \in LoadRow /\ side \in SideRow /\ NoSide \in SideRow /\ row.keys \in KeysOf(who.scope)
  BY Typed
<1>3. load.layout \in {"access", "onboarding", "bell"} /\ who.scope # "operator"
  BY DEF LayoutAccess, LayoutOnboarding, LayoutBell, PanelTyping
<1>4. ASSUME NEW l \in {"onboarding", "bell", "done"}, load' = [load EXCEPT !.layout = l], side' \in SideRow,
             l = "done" \/ Accepted \/ load.layout \in {"onboarding", "bell"},
             CASE l = "onboarding" -> side'.keys = row.keys
               [] l = "bell" -> load.layout = "onboarding" /\ side' = side
               [] l = "done" -> TRUE
      PROVE  PanelTyping' /\ Moves
  <2>1. load' = [load EXCEPT !.layout = l, !.body = load.body]
    BY <1>2, <1>4 DEF LoadRow
  <2>2. PanelTyping'
    BY <1>1, <1>3, <1>4, <2>1, StayingKeepsTypes
  <2>3. LayoutMoves
    BY <1>1, <1>4 DEF LayoutMoves, Still
  <2> QED BY <2>2, <2>3 DEF Moves
<1>5. CASE LayoutAccess
  <2>1. CASE Failing({"getViewerAccess"}) = {}
    <3>1. Accepted
      BY <2>1, FailingIs, Outcomes, Answers DEF Passed
    <3>2. [drawn |-> TRUE, keys |-> row.keys] \in SideRow
      BY <1>2 DEF SideRow
    <3>3. side' = [drawn |-> TRUE, keys |-> row.keys] /\ load' = [load EXCEPT !.layout = "onboarding"]
      BY <1>5, <2>1 DEF LayoutAccess
    <3>4. side'.keys = row.keys
      BY <3>3
    <3> QED BY <1>4, <3>1, <3>2, <3>3, <3>4
  <2>2. CASE Failing({"getViewerAccess"}) # {}
    BY <1>2, <1>4, <1>5, <2>2 DEF LayoutAccess
  <2> QED BY <2>1, <2>2
<1>6. ASSUME NEW calls \in SUBSET LayoutDue, NEW next \in {"bell", "done"}, LayoutReads(calls, next),
             load.layout = "onboarding" \/ (load.layout = "bell" /\ next = "done")
      PROVE  PanelTyping' /\ Moves
  <2>1. CASE Failing(calls) = {}
    BY <1>2, <1>4, <1>6, <2>1 DEF LayoutReads
  <2>2. CASE Failing(calls) # {}
    BY <1>1, <1>6, <2>2, LayoutFailureKeepsTypes DEF LayoutReads
  <2> QED BY <2>1, <2>2
<1>7. CASE LayoutOnboarding
  BY <1>6, <1>7 DEF LayoutOnboarding, LayoutDue
<1>8. CASE LayoutBell
  BY <1>6, <1>8 DEF LayoutBell, LayoutDue
<1> QED BY <1>5, <1>7, <1>8

\* The page's steps (PageAsks, PageReads).
LEMMA PageSteps ==
  ASSUME PanelTyping, PageAsks \/ PageReads
  PROVE  PanelTyping' /\ Moves
<1>1. load \in LoadRow /\ load.at \in Area /\ row.keys \in KeysOf(who.scope) /\ load.body = "open" /\ Still
  BY Typed DEF LoadRow, PageAsks, PageReads
<1>2. SameViewer
  BY <1>1 DEF Still, SameViewer
<1>3. CASE PageAsks
  <2> DEFINE keys == IF "getViewerAccess" \in AsksFor(load.at) THEN row.keys ELSE {}
  <2>1. Page(load.at, Viewer({})).asks = AsksFor(load.at)
    BY <1>1, PageFits
  <2>2. load.step = 0
    BY <1>3 DEF PageAsks
  <2>3. CASE load.at \in LoginForms /\ Accepted
    <3>1. Redirected(HomePage)
      BY <1>3, <2>3 DEF PageAsks
    <3>2. HomePage \in Area
      BY <1>1, ProxiedIs DEF Cookies
    <3> QED BY <1>1, <2>3, <3>1, <3>2, RedirectKeepsTypes
  <2>4. CASE ~(load.at \in LoginForms /\ Accepted) /\ Failing(AsksFor(load.at)) # {}
    <3>1. PICK outcome \in Failing(PageDue) : PageFails(outcome)
      BY <1>3, <2>1, <2>2, <2>4 DEF PageAsks, PageDue
    <3>2. load.at \notin LoginForms
      BY <2>4, FormsAskNothing DEF Failing
    <3> QED BY <1>1, <3>1, <3>2, PageFailureKeepsTypes
  <2>5. CASE ~(load.at \in LoginForms /\ Accepted) /\ Failing(AsksFor(load.at)) = {}
    <3>1. Advance(keys)
      BY <1>3, <2>1, <2>5 DEF PageAsks
    <3>2. keys \in KeysOf(who.scope) \cup {{}} /\ Passed(AsksFor(load.at))
      BY <1>1, <2>5, FailingIs
    <3>3. Len(Loading.reads) \in 0 .. 4
      BY <1>1, PageFits DEF Loading, WellFormed
    <3>4. PanelTyping'
      BY <1>1, <2>2, <3>1, <3>2, <3>3, AdvanceKeepsTypes
    <3>5. Advances
      BY <1>1, <1>2, <2>2, <3>1, <3>2 DEF Advances, Advance, Still
    <3> QED BY <3>4, <3>5 DEF Moves
  <2> QED BY <2>3, <2>4, <2>5
<1>4. CASE PageReads
  <2>1. load.step > 0 /\ load.step <= Len(Loading.reads)
    BY <1>1, <1>4 DEF PageReads, PanelTyping
  <2>2. load.at \notin LoginForms
    BY <1>1, <2>1, FormsAskNothing DEF Loading, LoadRow
  <2>3. CASE Failing(Loading.reads[load.step]) # {}
    <3>1. PICK outcome \in Failing(PageDue) : PageFails(outcome)
      BY <1>1, <1>4, <2>1, <2>3 DEF PageReads, Loading, PageDue, LoadRow
    <3> QED BY <1>1, <2>2, <3>1, PageFailureKeepsTypes
  <2>4. CASE Failing(Loading.reads[load.step]) = {}
    <3>1. Advance(load.keys) /\ load.keys \in KeysOf(who.scope) \cup {{}}
      BY <1>1, <1>4, <2>4 DEF PageReads, Loading, LoadRow
    <3>2. Passed(Loading.reads[load.step])
      BY <2>4, FailingIs
    <3>3. PanelTyping'
      BY <1>1, <2>1, <3>1, AdvanceKeepsTypes
    <3>4. Advances
      BY <1>1, <1>2, <2>1, <3>1, <3>2 DEF Advances, Advance, Still
    <3> QED BY <3>3, <3>4 DEF Moves
  <2> QED BY <2>3, <2>4
<1> QED BY <1>3, <1>4

\* What is offered stays within the viewer's area.
LEMMA OfferedWithin ==
  ASSUME PanelTyping
  PROVE  Offered \subseteq Area
<1>1. load \in LoadRow /\ load.at \in Area
  BY Typed DEF LoadRow
<1>2. Drawn.links \subseteq Area
  BY <1>1, PageFits DEF Drawn, WellFormed
<1>3. InLayout(load.at) => "/dashboard" \in Area
  BY <1>1 DEF InLayout, Area, TenantPages
<1>4. side.drawn => who.scope # "operator"
  BY DEF PanelTyping, NoSide
<1>5. ASSUME NEW v PROVE Sidebar(v) \cup Searched(v) \subseteq TenantPages
  <2>1. Searched(v) \subseteq TenantPages
    BY DEF Searched, When, TenantPages
  <2>2. Sidebar(v) \subseteq TenantPages
    BY DEF Sidebar, When, TenantPages, Handlers
  <2> QED BY <2>1, <2>2
<1>6. side.drawn => Sidebar(Viewer(side.keys)) \cup Searched(Viewer(side.keys)) \subseteq Area
  BY <1>4, <1>5 DEF Area
<1>7. (CASE load.body = "shown" -> Drawn.links
         [] load.body \in {"forbidden", "error"} /\ InLayout(load.at) -> {"/dashboard"}
         [] OTHER -> {}) \subseteq Area
  BY <1>2, <1>3
<1> QED BY <1>6, <1>7 DEF Offered

\* A form is sent (Submit).
LEMMA SubmitStep ==
  ASSUME PanelTyping, Submit
  PROVE  PanelTyping' /\ Moves
<1>1. /\ who' = who /\ row' = row /\ blocked' = blocked /\ changes' = changes /\ cookie' = cookie
      /\ cookie' \in Cookies /\ SameViewer /\ load.body = "shown"
  BY DEF Submit, PanelTyping, PanelTypeOK, Cookies, SameViewer
<1>2. load \in LoadRow /\ load.at \in Area
  BY Typed DEF LoadRow
<1>3. PICK form \in Drawn.forms :
        IF Failing({form.call}) = {}
        THEN said' = "saved" /\ Go(form.to, "hard", "form", cookie)
        ELSE \E outcome \in Failing({form.call}) : FormFails(form, outcome)
  BY DEF Submit
<1>4. form.to \in Area /\ form.back \in Area /\ form.kind \in Kinds
  BY <1>2, <1>3, PageFits DEF Drawn, WellFormed, FormsWithin
<1>5. Refuses(form.call) \in {"failed", "refused"}
  BY DEF Refuses
<1>6. ASSUME NEW p \in Area, Go(p, "hard", "form", cookie),
             p \in {form.to, form.back, "/subscribe"} \cup LoginForms,
             said' \in {"saved", "failed"} \/ said' = Refuses(form.call)
      PROVE  PanelTyping' /\ Moves
  <2>1. Reason(p, "form")
    BY <1>1, <1>3, <1>6 DEF Reason
  <2>2. said' \in {"none", "saved", "failed", "refused"}
    BY <1>5, <1>6
  <2> QED BY <1>1, <1>6, <2>1, <2>2, FreshKeepsTypes DEF Vias
<1>7. CASE Failing({form.call}) = {}
  BY <1>3, <1>4, <1>6, <1>7
<1>8. CASE Failing({form.call}) # {}
  <2>1. PICK outcome \in Failing({form.call}) : FormFails(form, outcome)
    BY <1>3, <1>8
  <2>2. CASE form.kind = "swallows"
    <3>1. said' = Refuses(form.call) /\ Go(form.back, "hard", "form", cookie)
      BY <2>1, <2>2 DEF FormFails
    <3> QED BY <1>4, <1>5, <1>6, <3>1
  <2>3. CASE form.kind = "in place"
    <3>1. said' = Refuses(form.call) /\ UNCHANGED <<load, side>>
      BY <2>1, <2>3 DEF FormFails
    <3>2. load' = [load EXCEPT !.layout = load.layout, !.body = load.body]
          /\ load.layout \in {"access", "onboarding", "bell", "done"}
      BY <1>2, <3>1 DEF LoadRow
    <3>3. side' \in SideRow /\ (who.scope = "operator" => side' = NoSide /\ load.layout = "done")
      BY <3>1, Typed DEF PanelTyping
    <3>4. PanelTyping'
      BY <1>1, <1>5, <3>1, <3>2, <3>3, StayingKeepsTypes
    <3> QED BY <1>1, <1>3, <3>1, <3>4 DEF Moves, Rests
  <2>4. CASE form.kind = "rethrows"
    <3>1. /\ said' = Refuses(form.call)
          /\ IF outcome \in Area THEN Go(outcome, "hard", "form", cookie)
             ELSE load' = [load EXCEPT !.body = outcome] /\ UNCHANGED side
      BY <2>1, <2>4 DEF FormFails
    <3>2. CASE outcome \in Area
      <4>1. outcome \in {"/subscribe"} \cup LoginForms
        BY <3>2, Failures DEF LoginForms
      <4> QED BY <1>6, <3>1, <3>2, <4>1
    <3>3. CASE outcome \notin Area
      <4>1. outcome \in {"forbidden", "error"}
        BY <3>3, Failures
      <4>2. load' = [load EXCEPT !.layout = load.layout, !.body = outcome]
            /\ load.layout \in {"access", "onboarding", "bell", "done"}
        BY <1>2, <3>1, <3>3 DEF LoadRow
      <4>3. side' \in SideRow /\ (who.scope = "operator" => side' = NoSide /\ load.layout = "done")
        BY <3>1, <3>3, Typed DEF PanelTyping
      <4>4. said' \in {"none", "saved", "failed", "refused"}
        BY <1>5, <3>1
      <4>5. PanelTyping'
        BY <1>1, <4>1, <4>2, <4>3, <4>4, StayingKeepsTypes DEF Ends
      <4>6. outcome = Outcome(form.call)
        BY Failures
      <4>7. Cause(outcome)
        BY <1>1, <1>3, <2>4, <3>1, <4>6 DEF Cause
      <4>8. Stops
        BY <1>1, <3>1, <3>3, <4>1, <4>2, <4>7 DEF Stops
      <4> QED BY <4>5, <4>8 DEF Moves
    <3> QED BY <3>2, <3>3
  <2> QED BY <1>4, <2>2, <2>3, <2>4 DEF Kinds
<1> QED BY <1>7, <1>8

\* The viewer's other steps (Visit, Follow, SignIn, SignOut).
LEMMA ViewerSteps ==
  ASSUME PanelTyping, Visit \/ Follow \/ SignIn \/ SignOut
  PROVE  PanelTyping' /\ Moves
<1>1. who' = who /\ row' = row /\ blocked' = blocked /\ changes' = changes
  BY DEF Visit, Follow, SignIn, SignOut
<1>2. cookie \in Cookies /\ LoginPage \in Area /\ HomePage \in Area
  <2>1. cookie \in Cookies
    BY DEF PanelTyping, PanelTypeOK, Cookies
  <2>2. load.at \in Area
    BY Typed DEF LoadRow
  <2> QED BY <2>1, <2>2, ProxiedIs
<1>3. ASSUME NEW p \in Area, NEW how \in {"hard", "soft"}, NEW via \in Vias, Go(p, how, via, cookie'),
             cookie' \in Cookies, said' \in {"none", "failed"}, Reason(p, via)
      PROVE  PanelTyping' /\ Moves
  BY <1>1, <1>3, FreshKeepsTypes
<1>4. CASE Visit
  <2>1. PICK p \in Area : Go(p, "hard", "typed", cookie)
    BY <1>4 DEF Visit
  <2>2. Reason(p, "typed")
    BY <1>4 DEF Visit, Reason
  <2> QED BY <1>2, <1>3, <1>4, <2>1, <2>2 DEF Visit, Vias
<1>5. CASE Follow
  <2>1. PICK p \in Offered, how \in {"hard", "soft"} : Go(p, how, "link", cookie)
    BY <1>5 DEF Follow
  <2>2. p \in Area
    BY <2>1, OfferedWithin
  <2>3. Reason(p, "link")
    BY <1>5, <2>1 DEF Follow, Reason
  <2> QED BY <1>2, <1>3, <1>5, <2>1, <2>2, <2>3 DEF Follow, Vias
<1>6. CASE SignIn
  <2>1. CASE row.alive
    <3>1. Reason(HomePage, "login")
      BY <1>6, <2>1 DEF SignIn, Reason
    <3> QED BY <1>2, <1>3, <1>6, <2>1, <3>1 DEF SignIn, Vias, Cookies
  <2>2. CASE ~row.alive
    <3>1. Reason(LoginPage, "form")
      BY <1>6, <2>2 DEF SignIn, Reason
    <3> QED BY <1>2, <1>3, <1>6, <2>2, <3>1 DEF SignIn, Vias, Cookies
  <2> QED BY <2>1, <2>2
<1>7. CASE SignOut
  <2>1. Reason(LoginPage, "logout")
    BY <1>7 DEF SignOut, Reason
  <2> QED BY <1>2, <1>3, <1>7, <2>1 DEF SignOut, Vias, Cookies
<1> QED BY <1>4, <1>5, <1>6, <1>7

\* What changes under a load (EditKeys, Revoke, SubscriptionTurns, SessionEnds).
LEMMA Disturbances ==
  ASSUME PanelTyping, EditKeys \/ Revoke \/ SubscriptionTurns \/ SessionEnds
  PROVE  PanelTyping' /\ Moves
<1>1. Changed /\ who' = who /\ side' = side /\ said' = said
  BY DEF EditKeys, Revoke, SubscriptionTurns, SessionEnds
<1>2. /\ row \in [alive : BOOLEAN, keys : KeysOf(who.scope)] /\ blocked \in BOOLEAN /\ cookie \in Cookies
      /\ who.scope = "operator" => ~blocked
  BY DEF PanelTyping, PanelTypeOK, Cookies
<1>3. CASE EditKeys
  BY <1>1, <1>2, <1>3, DisturbanceKeepsTypes DEF EditKeys, Accepted
<1>4. CASE Revoke
  BY <1>1, <1>2, <1>4, DisturbanceKeepsTypes DEF Revoke, Accepted
<1>5. CASE SubscriptionTurns
  BY <1>1, <1>2, <1>5, DisturbanceKeepsTypes DEF SubscriptionTurns, Accepted
<1>6. CASE SessionEnds
  BY <1>1, <1>2, <1>6, DisturbanceKeepsTypes DEF SessionEnds, Accepted, Cookies
<1> QED BY <1>3, <1>4, <1>5, <1>6

\* Every step keeps the types, and moves the load in one of the ways above.
LEMMA Steps ==
  ASSUME PanelTyping, [PanelNext]_panelVars
  PROVE  PanelTyping' /\ Moves
<1>1. CASE UNCHANGED panelVars
  <2>1. PanelTyping'
    BY <1>1 DEF panelVars, PanelTyping, PanelTypeOK, Area, Loading, Viewer
  <2>2. Rests
    BY <1>1 DEF panelVars, Rests, SameViewer
  <2> QED BY <2>1, <2>2 DEF Moves
<1> QED BY <1>1, LayoutSteps, PageSteps, SubmitStep, ViewerSteps, Disturbances DEF PanelNext

\* The panel opens on a public page.
LEMMA Initially ==
  ASSUME PanelInit
  PROVE  PanelTyping /\ load.at \in PublicPages /\ load.hops = 0 /\ load.body = "shown"
<1>1. who.scope \in {"staff", "customer", "operator"}
  BY PanelAssumption DEF PanelInit
<1>2. /\ load.at = (IF who.scope = "operator" THEN LoginPage ELSE "/") /\ load.how = "hard"
      /\ load.via = "typed" /\ load.hops = 0 /\ load.steady = TRUE /\ load.layout = "done"
      /\ load.step = 1 /\ load.keys = {} /\ load.body = "shown"
  BY DEF PanelInit
<1>3. load.at \in Area /\ load.at \in PublicPages
  BY <1>2 DEF Area, LoginPage, PlatformPages, TenantPages, PublicPages
<1>4. load \in LoadRow
  BY <1>2, <1>3, PanelAssumption DEF LoadRow, Ends, PanelInit
<1>5. side \in SideRow
  BY DEF PanelInit, NoSide, SideRow
<1>6. row \in [alive : BOOLEAN, keys : KeysOf(who.scope)]
  BY DEF PanelInit
<1>7. blocked \in BOOLEAN /\ (who.scope = "operator" => ~blocked)
  BY DEF PanelInit
<1>8. who \in Audience /\ changes \in 0 .. MaxChanges /\ cookie \in {"none", "live", "stale"}
      /\ said \in {"none", "saved", "failed", "refused"} /\ side = NoSide
  BY PanelAssumption DEF PanelInit
<1>9. PanelTypeOK
  BY <1>4, <1>5, <1>6, <1>7, <1>8 DEF PanelTypeOK, LoadRow, SideRow
<1> QED BY <1>2, <1>3, <1>7, <1>8, <1>9 DEF PanelTyping

(* Whatever the panel does, its state stays of its type.                    *)
THEOREM PanelTyped ==
  PanelSpec => []PanelTypeOK
<1>1. PanelInit => PanelTyping
  BY Initially
<1>2. PanelTyping /\ [PanelNext]_panelVars => PanelTyping'
  BY Steps
<1>3. PanelTyping => PanelTypeOK
  BY DEF PanelTyping
<1> QED BY <1>1, <1>2, <1>3, PTL DEF PanelSpec
-----------------------------------------------------------------------------
(* Redirects end. A load redirected to a login form has no live session, so *)
(* the form is drawn and nothing in the layout redirects either; one that   *)
(* was redirected twice is at a login form or at /subscribe.                *)
RedirectsInv ==
  /\ load.hops > 0 /\ load.at \in LoginForms => ~Accepted /\ load.layout \in {"access", "done"}
  /\ load.at \notin LoginForms \cup {"/subscribe"} => load.hops <= 1
  /\ load.body = "redirects" => load.at = "/subscribe"

\* Every move keeps it.
LEMMA RedirectsInvKept ==
  ASSUME PanelTyping, RedirectsInv, Moves
  PROVE  RedirectsInv'
<1>1. load \in LoadRow /\ load.at \in Area /\ load.hops \in 0 .. MaxRedirects /\ cookie \in Cookies
  BY Typed DEF LoadRow, PanelTyping, PanelTypeOK, Cookies
<1>2. LoginForms' = LoginForms
  BY DEF LoginForms
<1>3. CASE Fresh
  <2>1. load'.hops = 0 /\ load'.body = "open"
    BY <1>3 DEF Fresh, Began
  <2> QED BY <2>1, <1>2 DEF RedirectsInv
<1>4. CASE Redirects
  <2>1. Accepted' <=> Accepted
    BY <1>4 DEF Redirects, SameViewer, Accepted
  <2>2. PICK p \in Area :
       /\ GaveUp \/ (load.hops < MaxRedirects /\ Began(p, load.via, load.hops + 1, load.steady, cookie))
       /\ \/ p = HomePage /\ load.at \in LoginForms /\ Accepted
          \/ /\ p = "/subscribe" \/ (p \in {"/login", "/platform/login"} /\ ~Accepted)
             /\ load.at \in LoginForms => load.layout \in {"onboarding", "bell"}
    BY <1>4 DEF Redirects
  <2>3. load.at \in LoginForms => load.hops = 0
    BY <1>1, <2>2 DEF RedirectsInv
  <2>4. CASE GaveUp
    <3>1. load'.at = load.at /\ load'.hops = load.hops /\ load'.layout = "done" /\ load.hops = MaxRedirects
      BY <1>1, <2>4 DEF GaveUp, LoadRow
    <3>2. load.hops >= 2
      BY <3>1, PanelAssumption
    <3>3. load.at = "/subscribe"
      BY <1>1, <2>3, <3>2 DEF RedirectsInv
    <3> QED BY <3>1, <3>3, <1>2 DEF RedirectsInv, LoginForms
  <2>5. CASE Began(p, load.via, load.hops + 1, load.steady, cookie)
    <3>1. load'.at = Proxied(p, cookie) /\ load'.hops = load.hops + 1 /\ load'.body = "open"
          /\ load'.layout \in {"access", "done"}
      BY <2>5 DEF Began
    <3>2. load'.at = p \/ (~Accepted /\ load'.at \in LoginForms)
      BY <1>1, <3>1, ProxiedIs DEF Accepted
    <3>3. HomePage \notin LoginForms
      BY <1>1, ProxiedIs
    <3>4. load'.at \in LoginForms => ~Accepted'
      BY <2>1, <2>2, <3>2, <3>3 DEF LoginForms
    <3>5. load'.at \notin LoginForms \cup {"/subscribe"} => load'.hops <= 1
      BY <1>1, <2>2, <2>3, <3>1, <3>2 DEF LoginForms
    <3> QED BY <1>2, <3>1, <3>4, <3>5 DEF RedirectsInv
  <2> QED BY <2>2, <2>4, <2>5
<1>5. CASE LayoutMoves
  <2>1. PICK l \in {"onboarding", "bell", "done"} :
          load' = [load EXCEPT !.layout = l] /\ (l = "done" \/ Accepted \/ load.layout \in {"onboarding", "bell"})
    BY <1>5 DEF LayoutMoves
  <2>2. load'.at = load.at /\ load'.hops = load.hops /\ load'.body = load.body /\ load'.layout = l
    BY <1>1, <2>1 DEF LoadRow
  <2>3. Accepted' <=> Accepted
    BY <1>5 DEF LayoutMoves, SameViewer, Accepted
  <2> QED BY <1>2, <2>1, <2>2, <2>3 DEF RedirectsInv
<1>6. CASE Stops
  <2>1. PICK l \in {load.layout, "done"}, b \in {"forbidden", "error", "not found"} :
          load' = [load EXCEPT !.layout = l, !.body = b]
    BY <1>6 DEF Stops
  <2>2. load'.at = load.at /\ load'.hops = load.hops /\ load'.body # "redirects"
        /\ load'.layout \in {load.layout, "done"}
    BY <1>1, <2>1 DEF LoadRow
  <2>3. Accepted' <=> Accepted
    BY <1>6 DEF Stops, SameViewer, Accepted
  <2> QED BY <1>2, <2>2, <2>3 DEF RedirectsInv
<1>7. CASE Advances
  <2>1. load'.at = load.at /\ load'.hops = load.hops /\ load'.layout = load.layout
        /\ load'.body \in {"forbidden", "shown", "open"}
    <3>1. PICK keys \in KeysOf(who.scope) \cup {{}} : Advance(keys)
      BY <1>7 DEF Advances
    <3>2. load.body = "open"
      BY <1>7 DEF Advances
    <3> QED BY <1>1, <3>1, <3>2 DEF Advance, LoadRow
  <2>2. Accepted' <=> Accepted
    BY <1>7 DEF Advances, SameViewer, Accepted
  <2> QED BY <1>2, <2>1, <2>2 DEF RedirectsInv
<1>8. CASE Disturbed
  <2>1. load'.at = load.at /\ load'.hops = load.hops /\ load'.body = load.body /\ load'.layout = load.layout
    BY <1>1, <1>8 DEF Disturbed, LoadRow
  <2> QED BY <1>2, <1>8, <2>1 DEF Disturbed, RedirectsInv
<1>9. CASE Rests
  BY <1>2, <1>9 DEF Rests, SameViewer, RedirectsInv, Accepted
<1> QED BY <1>3, <1>4, <1>5, <1>6, <1>7, <1>8, <1>9 DEF Moves

(* Redirects never chase each other, /subscribe's own excepted.             *)
THEOREM RedirectsAlwaysEnd ==
  PanelSpec => []RedirectsEnd
<1>1. PanelInit => PanelTyping /\ RedirectsInv
  BY Initially DEF RedirectsInv
<1>2. PanelTyping /\ RedirectsInv /\ [PanelNext]_panelVars => (PanelTyping /\ RedirectsInv)'
  BY Steps, RedirectsInvKept
<1>3. RedirectsInv => RedirectsEnd
  BY DEF RedirectsInv, RedirectsEnd
<1> QED BY <1>1, <1>2, <1>3, PTL DEF PanelSpec
-----------------------------------------------------------------------------
(* What is shown is current. As long as nothing changed under a load, each  *)
(* read it has behind it was answered by the API as it would be now, and    *)
(* the permissions it was told are the row's.                               *)
Current ==
  load.steady /\ load.at \notin PublicPages /\ load.step > 0 /\ load.body \in {"open", "shown"} =>
    /\ Passed(AsksFor(load.at))
    /\ load.keys = (IF "getViewerAccess" \in AsksFor(load.at) THEN row.keys ELSE {})
    /\ load.body = "shown" => Loading.enter /\ load.step > Len(Loading.reads)
    /\ \A i \in DOMAIN Loading.reads : i < load.step => Passed(Loading.reads[i])

\* An answer stays what it is as long as the viewer, its row and the session do.
LEMMA PassedKept ==
  ASSUME SameViewer, NEW calls, Passed(calls)
  PROVE  Passed(calls)'
<1>1. ASSUME NEW call PROVE Outcome(call)' = Outcome(call)
  <2>1. Accepted' = Accepted
    BY DEF SameViewer, Accepted
  <2>2. Answered(call)' = Answered(call)
    BY <2>1 DEF SameViewer, Answered
  <2> QED BY <2>2 DEF SameViewer, Outcome, TenantOutcome, PlatformOutcome
<1> QED BY <1>1 DEF Passed

\* A step of the layout changes nothing of it.
LEMMA CurrentStays ==
  ASSUME PanelTyping, Current, SameViewer,
         load'.at = load.at, load'.keys = load.keys, load'.step = load.step, load'.steady = load.steady,
         load'.body = load.body
  PROVE  Current'
<1>1. Loading' = Loading
  BY DEF Loading, Viewer, SameViewer
<1>2. AsksFor(load.at)' = AsksFor(load.at) /\ PublicPages' = PublicPages
  BY DEF AsksFor, PublicPages
<1>3. row' = row
  BY DEF SameViewer
<1>4. ASSUME load'.steady, load'.at \notin PublicPages', load'.step > 0, load'.body \in {"open", "shown"}
      PROVE  /\ Passed(AsksFor(load.at))'
             /\ load'.keys = (IF "getViewerAccess" \in AsksFor(load.at)' THEN row'.keys ELSE {})
             /\ load'.body = "shown" => Loading'.enter /\ load'.step > Len(Loading'.reads)
             /\ \A i \in DOMAIN Loading'.reads : i < load'.step => Passed(Loading.reads[i])'
  <2>1. /\ Passed(AsksFor(load.at))
        /\ load.keys = (IF "getViewerAccess" \in AsksFor(load.at) THEN row.keys ELSE {})
        /\ load.body = "shown" => Loading.enter /\ load.step > Len(Loading.reads)
        /\ \A i \in DOMAIN Loading.reads : i < load.step => Passed(Loading.reads[i])
    BY <1>2, <1>4 DEF Current
  <2>2. Passed(AsksFor(load.at))'
    BY <2>1, PassedKept
  <2>3. \A i \in DOMAIN Loading'.reads : i < load'.step => Passed(Loading.reads[i])'
    BY <1>1, <2>1, PassedKept
  <2> QED BY <1>1, <1>2, <1>3, <2>1, <2>2, <2>3
<1> QED BY <1>4 DEF Current

\* An answered read joins those behind.
LEMMA CurrentAdvances ==
  ASSUME PanelTyping, Current, Advances
  PROVE  Current'
<1>1. load \in LoadRow /\ load.at \in Area /\ load.step \in 0 .. 5
  BY Typed DEF LoadRow
<1>2. SameViewer /\ load.body = "open"
  BY DEF Advances
<1>3. PICK keys \in KeysOf(who.scope) \cup {{}} :
       /\ Advance(keys)
       /\ \/ load.step = 0 /\ Passed(AsksFor(load.at))
               /\ keys = (IF "getViewerAccess" \in AsksFor(load.at) THEN row.keys ELSE {})
          \/ load.step > 0 /\ load.step <= Len(Loading.reads) /\ Passed(Loading.reads[load.step])
               /\ keys = load.keys
  BY DEF Advances
<1> DEFINE page == Page(load.at, Viewer(keys))
<1>4. page.enter \in BOOLEAN /\ Len(page.reads) \in 0 .. 4 /\ DOMAIN page.reads = 1 .. Len(page.reads)
  BY <1>1, PageFits DEF WellFormed
<1>5. load'.at = load.at /\ load'.keys = keys /\ load'.step = load.step + 1 /\ load'.steady = load.steady
      /\ load'.body = (IF ~page.enter THEN "forbidden" ELSE IF load.step = Len(page.reads) THEN "shown" ELSE load.body)
  BY <1>1, <1>3 DEF Advance, LoadRow
<1>6. Loading' = page
  BY <1>2, <1>5 DEF Loading, Viewer, SameViewer
<1> HIDE DEF page
<1>7. AsksFor(load.at)' = AsksFor(load.at) /\ PublicPages' = PublicPages /\ row' = row
  BY <1>2, <1>5 DEF AsksFor, PublicPages, SameViewer
<1>8. ASSUME load'.steady, load'.at \notin PublicPages', load'.body \in {"open", "shown"}
      PROVE  /\ Passed(AsksFor(load.at))'
             /\ load'.keys = (IF "getViewerAccess" \in AsksFor(load.at)' THEN row'.keys ELSE {})
             /\ load'.body = "shown" => Loading'.enter /\ load'.step > Len(Loading'.reads)
             /\ \A i \in DOMAIN Loading'.reads : i < load'.step => Passed(Loading.reads[i])'
  <2>1. load'.body = "shown" => Loading'.enter /\ load'.step > Len(Loading'.reads)
    BY <1>1, <1>2, <1>4, <1>5, <1>6
  <2>2. CASE load.step = 0
    <3>1. Passed(AsksFor(load.at)) /\ keys = (IF "getViewerAccess" \in AsksFor(load.at) THEN row.keys ELSE {})
      BY <1>3, <2>2
    <3>2. Passed(AsksFor(load.at))'
      BY <1>2, <1>5, <1>7, <3>1, PassedKept
    <3>3. \A i \in DOMAIN Loading'.reads : ~ (i < load'.step)
      BY <1>4, <1>5, <1>6, <2>2
    <3> QED BY <1>5, <1>7, <2>1, <3>1, <3>2, <3>3
  <2>3. CASE load.step > 0
    <3>1. /\ Passed(AsksFor(load.at))
          /\ load.keys = (IF "getViewerAccess" \in AsksFor(load.at) THEN row.keys ELSE {})
          /\ \A i \in DOMAIN Loading.reads : i < load.step => Passed(Loading.reads[i])
      BY <1>2, <1>5, <1>7, <1>8, <2>3 DEF Current
    <3>2. keys = load.keys /\ Passed(Loading.reads[load.step])
      BY <1>3, <2>3
    <3>3. Loading = page
      BY <3>2 DEF Loading, page
    <3>4. \A i \in 1 .. Len(page.reads) : i < load.step + 1 => i < load.step \/ i = load.step
      BY <1>1, <1>4
    <3>5. \A i \in DOMAIN Loading'.reads : i < load'.step => Passed(Loading.reads[i])
      BY <1>4, <1>5, <1>6, <3>1, <3>2, <3>3, <3>4
    <3>6. \A i \in DOMAIN Loading'.reads : i < load'.step => Passed(Loading.reads[i])'
      BY <1>2, <1>6, <3>3, <3>5, PassedKept
    <3>7. Passed(AsksFor(load.at))'
      BY <1>2, <1>5, <1>7, <3>1, PassedKept
    <3> QED BY <1>5, <1>7, <2>1, <3>1, <3>2, <3>6, <3>7
  <2> QED BY <1>1, <2>2, <2>3
<1> QED BY <1>8 DEF Current

\* Every move keeps it.
LEMMA CurrentKept ==
  ASSUME PanelTyping, Current, Moves
  PROVE  Current'
<1>1. load \in LoadRow
  BY Typed
<1>2. CASE Fresh
  <2>1. load'.step = 0
    BY <1>2 DEF Fresh, Began
  <2> QED BY <2>1 DEF Current
<1>3. CASE Redirects
  <2>1. load'.step = 0 \/ load'.body = "redirects"
    BY <1>1, <1>3 DEF Redirects, GaveUp, Began, LoadRow
  <2> QED BY <2>1 DEF Current
<1>4. CASE LayoutMoves
  <2>1. PICK l \in {"onboarding", "bell", "done"} : load' = [load EXCEPT !.layout = l]
    BY <1>4 DEF LayoutMoves
  <2>2. load'.at = load.at /\ load'.keys = load.keys /\ load'.step = load.step /\ load'.steady = load.steady
        /\ load'.body = load.body
    BY <1>1, <2>1 DEF LoadRow
  <2> QED BY <1>4, <2>2, CurrentStays DEF LayoutMoves
<1>5. CASE Stops
  <2>1. load'.body \notin {"open", "shown"}
    BY <1>1, <1>5 DEF Stops, LoadRow
  <2> QED BY <2>1 DEF Current
<1>6. CASE Advances
  BY <1>6, CurrentAdvances
<1>7. CASE Disturbed
  <2>1. load'.steady = FALSE
    BY <1>1, <1>7 DEF Disturbed, LoadRow
  <2> QED BY <2>1 DEF Current
<1>8. CASE Rests
  BY <1>8, CurrentStays DEF Rests
<1> QED BY <1>2, <1>3, <1>4, <1>5, <1>6, <1>7, <1>8 DEF Moves

\* What a page with every read behind it shows is allowed.
LEMMA CurrentShows ==
  ASSUME PanelTyping, Current
  PROVE  ShownIsCurrent
<1> SUFFICES ASSUME load.steady, load.body = "shown", load.at \notin PublicPages
             PROVE  /\ cookie = "live" /\ row.alive
                    /\ Page(load.at, Viewer(row.keys)).enter
                    /\ blocked => load.at \in Exempt
  BY DEF ShownIsCurrent, Exempt
<1>1. load \in LoadRow /\ load.at \in Area /\ load.step > 0
  BY Typed DEF LoadRow, PanelTyping
<1>2. /\ Passed(AsksFor(load.at)) /\ Loading.enter /\ load.step > Len(Loading.reads)
      /\ load.keys = (IF "getViewerAccess" \in AsksFor(load.at) THEN row.keys ELSE {})
      /\ \A i \in DOMAIN Loading.reads : i < load.step => Passed(Loading.reads[i])
  BY <1>1 DEF Current
<1>3. Len(Loading.reads) \in 0 .. 4 /\ DOMAIN Loading.reads = 1 .. Len(Loading.reads)
      /\ Loading.asks = AsksFor(load.at)
  BY <1>1, PageFits DEF Loading, WellFormed
<1>4. ASSUME NEW call \in CallsOf(Loading) PROVE Outcome(call) = "ok"
  <2>1. load.step \in Nat
    BY <1>1 DEF LoadRow
  <2>2. \A i \in DOMAIN Loading.reads : i < load.step
    BY <1>2, <1>3, <2>1
  <2>3. \A i \in DOMAIN Loading.reads : Passed(Loading.reads[i])
    BY <1>2, <2>2
  <2> QED BY <1>2, <1>3, <1>4, <2>3 DEF CallsOf, Passed
<1>5. \A call \in CallsOf(Loading) : Answered(call) = 200
  BY <1>4, Outcomes
<1>6. CASE who.scope = "operator"
  <2>1. /\ \A v : Page(load.at, v).enter
        /\ load.at # "/platform/login" => CallsOf(Loading) # {}
    BY <1>1, <1>6, PlatformPageSound DEF Area, Loading
  <2>2. CallsOf(Loading) # {} /\ ~blocked
    BY <1>6, <2>1 DEF PublicPages, PanelTyping
  <2>3. Accepted
    BY <1>5, <2>2, Answers
  <2> QED BY <2>1, <2>2, <2>3 DEF Accepted
<1>7. CASE who.scope # "operator"
  <2>1. load.at \in TenantPages
    BY <1>1, <1>7 DEF Area
  <2>2. Guarded(load.at, Loading) /\ Guarded(load.at, Page(load.at, Viewer(row.keys)))
    BY <2>1, TenantPageSound DEF Loading
  <2>3. CallsOf(Loading) # {} /\ (load.at \notin Exempt => \E call \in CallsOf(Loading) : call \notin Ungated)
    BY <2>2 DEF Guarded
  <2>4. Accepted
    BY <1>5, <2>3, Answers
  <2>5. blocked => load.at \in Exempt
    BY <1>5, <1>7, <2>3, <2>4, Answers
  <2>6. Page(load.at, Viewer(row.keys)).enter
    <3>1. CASE "getViewerAccess" \in AsksFor(load.at)
      BY <1>2, <3>1 DEF Loading
    <3>2. CASE "getViewerAccess" \notin AsksFor(load.at)
      <4>1. Page(load.at, Viewer(row.keys)).asks = AsksFor(load.at)
        BY <1>1, PageFits
      <4> QED BY <2>2, <3>2, <4>1 DEF Guarded
    <3> QED BY <3>1, <3>2
  <2> QED BY <2>4, <2>5, <2>6 DEF Accepted
<1> QED BY <1>6, <1>7

(* What a load shows, its viewer may see as things now stand, if nothing    *)
(* changed since the load began.                                            *)
THEOREM ShownIsAllowed ==
  PanelSpec => []ShownIsCurrent
<1>1. PanelInit => PanelTyping /\ Current
  BY Initially DEF Current
<1>2. PanelTyping /\ Current /\ [PanelNext]_panelVars => (PanelTyping /\ Current)'
  BY Steps, CurrentKept
<1>3. PanelTyping /\ Current => ShownIsCurrent
  BY CurrentShows
<1> QED BY <1>1, <1>2, <1>3, PTL DEF PanelSpec
-----------------------------------------------------------------------------
(* What a viewer is entitled to.                                            *)
\* The calls that ask for no permission.
FreeCalls == FleetReads \cup DeviceReads \cup TenantReads \cup SubscriptionReads \cup SelfReads \cup OwnTicketCalls
Demands(ask, scope) ==
  /\ scope = "staff" => ask.keys \subseteq TenantKeys
  /\ ask.call \in FreeCalls => ask.keys = {}
  /\ ask.call \in InvoiceReads /\ scope # "staff" => ask.keys = CustomerKeys
  /\ ask.call \in {"getBillingAlerts", "getPortfolioCurrentPeriod"} => ask.keys = {"reports"}
  /\ ask.call = "getCustomers" => ask.keys = {"customers"}
  /\ ask.call = "getUnreadNotificationCount" => ask.keys = {"notifications"}
  /\ ask.call = "getSubscriptionInvoices" => ask.keys = {"billing"}

\* What each controller demands, by the calls it serves.
LEMMA AskDemands ==
  ASSUME NEW scope, NEW ask \in Asked(scope)
  PROVE  Demands(ask, scope)
<1>1. ASSUME NEW calls, NEW keys, ask \in Asks(calls, keys) PROVE ask.call \in calls /\ ask.keys = keys
  BY <1>1 DEF Asks
<1>2. CASE ask \in CustomersController
  BY <1>1, <1>2 DEF CustomersController, Demands, TenantKeys, CustomerCalls, CustomerEdits, RangeEdits,
     FreeCalls, FleetReads, DeviceReads, TenantReads, SubscriptionReads, SelfReads, OwnTicketCalls, InvoiceReads
<1>3. CASE ask \in TokensController
  BY <1>1, <1>3 DEF TokensController, Demands, TenantKeys, TokenCalls,
     FreeCalls, FleetReads, DeviceReads, TenantReads, SubscriptionReads, SelfReads, OwnTicketCalls, InvoiceReads
<1>4. CASE ask \in TenantController
  BY <1>1, <1>4 DEF TenantController, Demands, TenantKeys, TenantEdits,
     FreeCalls, FleetReads, DeviceReads, TenantReads, SubscriptionReads, SelfReads, OwnTicketCalls, InvoiceReads
<1>5. CASE ask \in ApiKeysController
  BY <1>1, <1>5 DEF ApiKeysController, Demands, TenantKeys, ApiKeyCalls,
     FreeCalls, FleetReads, DeviceReads, TenantReads, SubscriptionReads, SelfReads, OwnTicketCalls, InvoiceReads
<1>6. CASE ask \in SubscriptionController
  BY <1>1, <1>6 DEF SubscriptionController, Demands, TenantKeys, SubscriptionEdits,
     FreeCalls, FleetReads, DeviceReads, TenantReads, SubscriptionReads, SelfReads, OwnTicketCalls, InvoiceReads
<1>7. CASE ask \in NotificationsController
  BY <1>1, <1>7 DEF NotificationsController, Demands, TenantKeys, NotificationCalls,
     FreeCalls, FleetReads, DeviceReads, TenantReads, SubscriptionReads, SelfReads, OwnTicketCalls, InvoiceReads
<1>8. CASE ask \in AuditLogController
  BY <1>1, <1>8 DEF AuditLogController, Demands, TenantKeys, AuditCalls,
     FreeCalls, FleetReads, DeviceReads, TenantReads, SubscriptionReads, SelfReads, OwnTicketCalls, InvoiceReads
<1>9. CASE ask \in DevicesController
  <2>1. CASE ask \in Asks(FleetReads \cup DeviceReads, {})
    BY <1>1, <2>1 DEF Demands, TenantKeys, FleetReads, DeviceReads, InvoiceReads
  <2>2. CASE ask \notin Asks(FleetReads \cup DeviceReads, {})
    BY <1>1, <1>9, <2>2 DEF DevicesController, Demands, TenantKeys, DeviceEdits, TermEdits,
       FreeCalls, FleetReads, DeviceReads, TenantReads, SubscriptionReads, SelfReads, OwnTicketCalls, InvoiceReads
  <2> QED BY <2>1, <2>2
<1>10. CASE ask \in ReportsControllers \cup CurrentPeriodController
  BY <1>1, <1>10 DEF ReportsControllers, CurrentPeriodController, Demands, TenantKeys,
     FreeCalls, FleetReads, DeviceReads, TenantReads, SubscriptionReads, SelfReads, OwnTicketCalls, InvoiceReads
<1>11. CASE ask \in UsersController
  BY <1>1, <1>11 DEF UsersController, Demands, TenantKeys, UserCalls,
     FreeCalls, FleetReads, DeviceReads, TenantReads, SubscriptionReads, SelfReads, OwnTicketCalls, InvoiceReads
<1>12. CASE ask \in AgentLogsController
  BY <1>1, <1>12 DEF AgentLogsController, Demands, TenantKeys, LogCalls,
     FreeCalls, FleetReads, DeviceReads, TenantReads, SubscriptionReads, SelfReads, OwnTicketCalls, InvoiceReads
<1>13. CASE ask \in ContractsController
  BY <1>1, <1>13 DEF ContractsController, Demands, TenantKeys, ContractCalls,
     FreeCalls, FleetReads, DeviceReads, TenantReads, SubscriptionReads, SelfReads, OwnTicketCalls, InvoiceReads
<1>14. CASE ask \in AgentDownloadController
  BY <1>1, <1>14 DEF AgentDownloadController, Demands, TenantKeys, InstallerCalls,
     FreeCalls, FleetReads, DeviceReads, TenantReads, SubscriptionReads, SelfReads, OwnTicketCalls, InvoiceReads
<1>15. CASE ask \in TicketsController
  BY <1>1, <1>15 DEF TicketsController, Demands, OwnTicketCalls, InvoiceReads
<1>16. CASE ask \in TicketsManagementController
  BY <1>1, <1>16 DEF TicketsManagementController, Demands, TenantKeys, QueueCalls,
     FreeCalls, FleetReads, DeviceReads, TenantReads, SubscriptionReads, SelfReads, OwnTicketCalls, InvoiceReads
<1>17. CASE ask \in InvoicesController(scope)
  BY <1>1, <1>17 DEF InvoicesController, Demands, TenantKeys, CustomerKeys, InvoiceEdits,
     FreeCalls, FleetReads, DeviceReads, TenantReads, SubscriptionReads, SelfReads, OwnTicketCalls, InvoiceReads
<1> QED BY <1>2, <1>3, <1>4, <1>5, <1>6, <1>7, <1>8, <1>9, <1>10, <1>11, <1>12, <1>13, <1>14, <1>15, <1>16,
           <1>17 DEF Asked

\* The permissions that are enough for a call.
LEMMA Permitted ==
  ASSUME NEW scope, NEW keys, NEW call
  PROVE  /\ scope = "staff" /\ TenantKeys \subseteq keys => Permits(scope, keys, call)
         /\ call \in FreeCalls => Permits(scope, keys, call)
         /\ call \in InvoiceReads /\ scope # "staff" /\ CustomerKeys \subseteq keys => Permits(scope, keys, call)
         /\ call \in {"getBillingAlerts", "getPortfolioCurrentPeriod"} /\ "reports" \in keys
            => Permits(scope, keys, call)
         /\ call = "getCustomers" /\ "customers" \in keys => Permits(scope, keys, call)
         /\ call = "getUnreadNotificationCount" /\ "notifications" \in keys => Permits(scope, keys, call)
         /\ call = "getSubscriptionInvoices" /\ "billing" \in keys => Permits(scope, keys, call)
  BY AskDemands DEF Permits, Demands
-----------------------------------------------------------------------------
CustomerReach ==
  {"/", "/login", "/forgot-password", "/reset-password", "/dashboard", "/devices", "/devices/id", "/tickets",
   "/tickets/new", "/tickets/new?customer", "/tickets/id", "/tickets/id/attachment", "/subscribe"}
InvoiceFiles == {"/customers/id/invoices/export", "/customers/id/invoices/pdf"}

\* A page's calls are those of its reads.
LEMMA CallsWithin ==
  ASSUME NEW page, NEW calls, page.asks \subseteq calls,
         \A i \in DOMAIN page.reads : page.reads[i] \subseteq calls
  PROVE  CallsOf(page) \subseteq calls
  BY DEF CallsOf

\* A route handler makes its call and lets everyone in.
LEMMA DownloadCalls ==
  ASSUME NEW calls
  PROVE  Download(calls).enter /\ CallsOf(Download(calls)) = calls
<1>1. Download(calls).asks = {} /\ Download(calls).reads = <<calls>> /\ Download(calls).enter = TRUE
  BY DEF Download, Loads
<1> QED BY <1>1 DEF CallsOf

\* The pages made for customers ask for no permission at all.
LEMMA CustomerWelcome ==
  ASSUME NEW v, v.scope = "customer", v.keys \subseteq CustomerKeys, NEW p \in CustomerReach
  PROVE  Page(p, v).enter /\ CallsOf(Page(p, v)) \subseteq FreeCalls
<1>1. ~TenantWide(v) /\ ~Has(v, "reports") /\ ~Has(v, "billing")
  BY DEF TenantWide, Has, CustomerKeys
<1>2. CASE p \in {"/", "/login", "/forgot-password", "/reset-password"}
  <2>1. ASSUME NEW links PROVE Static(links, {}).enter /\ CallsOf(Static(links, {})) = {}
    <3>1. Static(links, {}).enter = TRUE /\ Static(links, {}).asks = {} /\ Static(links, {}).reads = <<>>
      BY DEF Static, Loads
    <3> QED BY <3>1 DEF CallsOf
  <2>2. \E links : Page(p, v) = Static(links, {})
    BY <1>2 DEF Page, Landing, Login, ForgotPassword, ResetPassword
  <2> QED BY <2>1, <2>2
<1>3. CASE p = "/dashboard"
  <2>1. Page(p, v) = Dashboard(v)
    BY <1>3 DEF Page
  <2>2. Dashboard(v).enter
    BY DEF Dashboard, Loads
  <2>3. Dashboard(v).asks \subseteq FreeCalls
    BY DEF Dashboard, Loads, FreeCalls, FleetReads, DeviceReads, SelfReads, SubscriptionReads, OwnTicketCalls
  <2>4. \A i \in DOMAIN Dashboard(v).reads : Dashboard(v).reads[i] \subseteq FreeCalls
    BY <1>1 DEF Dashboard, Loads, When, FreeCalls, FleetReads, DeviceReads, SelfReads, SubscriptionReads, OwnTicketCalls
  <2>5. CallsOf(Dashboard(v)) \subseteq FreeCalls
    BY <2>3, <2>4, CallsWithin
  <2> QED BY <2>1, <2>2, <2>5
<1>4. CASE p = "/devices"
  <2>1. Page(p, v) = Devices(v)
    BY <1>4 DEF Page
  <2>2. Devices(v).enter
    BY DEF Devices, Loads
  <2>3. Devices(v).asks \subseteq FreeCalls
    BY DEF Devices, Loads, FreeCalls, FleetReads, DeviceReads, SelfReads, SubscriptionReads, OwnTicketCalls
  <2>4. \A i \in DOMAIN Devices(v).reads : Devices(v).reads[i] \subseteq FreeCalls
    BY <1>1 DEF Devices, Loads, When, FreeCalls, FleetReads, DeviceReads, SelfReads, SubscriptionReads, OwnTicketCalls
  <2>5. CallsOf(Devices(v)) \subseteq FreeCalls
    BY <2>3, <2>4, CallsWithin
  <2> QED BY <2>1, <2>2, <2>5
<1>5. CASE p = "/devices/id"
  <2>1. Page(p, v) = Device(v)
    BY <1>5 DEF Page
  <2>2. Device(v).enter
    BY DEF Device, Loads
  <2>3. Device(v).asks \subseteq FreeCalls
    BY DEF Device, Loads, FreeCalls, FleetReads, DeviceReads, SelfReads, SubscriptionReads, OwnTicketCalls
  <2>4. \A i \in DOMAIN Device(v).reads : Device(v).reads[i] \subseteq FreeCalls
    BY <1>1 DEF Device, Loads, When, FreeCalls, FleetReads, DeviceReads, SelfReads, SubscriptionReads, OwnTicketCalls
  <2>5. CallsOf(Device(v)) \subseteq FreeCalls
    BY <2>3, <2>4, CallsWithin
  <2> QED BY <2>1, <2>2, <2>5
<1>6. CASE p = "/tickets"
  <2>1. Page(p, v) = Tickets(v)
    BY <1>6 DEF Page
  <2>2. Tickets(v).enter
    BY DEF Tickets, Loads
  <2>3. Tickets(v).asks \subseteq FreeCalls
    BY DEF Tickets, Loads, FreeCalls, FleetReads, DeviceReads, SelfReads, SubscriptionReads, OwnTicketCalls
  <2>4. \A i \in DOMAIN Tickets(v).reads : Tickets(v).reads[i] \subseteq FreeCalls
    BY <1>1 DEF Tickets, Loads, When, FreeCalls, FleetReads, DeviceReads, SelfReads, SubscriptionReads, OwnTicketCalls
  <2>5. CallsOf(Tickets(v)) \subseteq FreeCalls
    BY <2>3, <2>4, CallsWithin
  <2> QED BY <2>1, <2>2, <2>5
<1>7. CASE p = "/tickets/new"
  <2>1. Page(p, v) = NewTicket(v)
    BY <1>7 DEF Page
  <2>2. NewTicket(v).enter
    BY DEF NewTicket, Loads
  <2>3. NewTicket(v).asks \subseteq FreeCalls
    BY DEF NewTicket, Loads, FreeCalls, FleetReads, DeviceReads, SelfReads, SubscriptionReads, OwnTicketCalls
  <2>4. \A i \in DOMAIN NewTicket(v).reads : NewTicket(v).reads[i] \subseteq FreeCalls
    BY <1>1 DEF NewTicket, Loads, When, FreeCalls, FleetReads, DeviceReads, SelfReads, SubscriptionReads, OwnTicketCalls
  <2>5. CallsOf(NewTicket(v)) \subseteq FreeCalls
    BY <2>3, <2>4, CallsWithin
  <2> QED BY <2>1, <2>2, <2>5
<1>8. CASE p = "/tickets/new?customer"
  <2>1. Page(p, v) = NewTicketOf(v)
    BY <1>8 DEF Page
  <2>2. NewTicketOf(v).enter
    BY DEF NewTicketOf, Loads
  <2>3. NewTicketOf(v).asks \subseteq FreeCalls
    BY DEF NewTicketOf, Loads, FreeCalls, FleetReads, DeviceReads, SelfReads, SubscriptionReads, OwnTicketCalls
  <2>4. \A i \in DOMAIN NewTicketOf(v).reads : NewTicketOf(v).reads[i] \subseteq FreeCalls
    BY <1>1 DEF NewTicketOf, Loads, When, FreeCalls, FleetReads, DeviceReads, SelfReads, SubscriptionReads, OwnTicketCalls
  <2>5. CallsOf(NewTicketOf(v)) \subseteq FreeCalls
    BY <2>3, <2>4, CallsWithin
  <2> QED BY <2>1, <2>2, <2>5
<1>9. CASE p = "/tickets/id"
  <2>1. Page(p, v) = Ticket(v)
    BY <1>9 DEF Page
  <2>2. Ticket(v).enter
    BY DEF Ticket, Loads
  <2>3. Ticket(v).asks \subseteq FreeCalls
    BY DEF Ticket, Loads, FreeCalls, FleetReads, DeviceReads, SelfReads, SubscriptionReads, OwnTicketCalls
  <2>4. \A i \in DOMAIN Ticket(v).reads : Ticket(v).reads[i] \subseteq FreeCalls
    BY <1>1 DEF Ticket, Loads, When, FreeCalls, FleetReads, DeviceReads, SelfReads, SubscriptionReads, OwnTicketCalls
  <2>5. CallsOf(Ticket(v)) \subseteq FreeCalls
    BY <2>3, <2>4, CallsWithin
  <2> QED BY <2>1, <2>2, <2>5
<1>10. CASE p = "/tickets/id/attachment"
  <2>1. Page(p, v) = Download({"fetchTicketAttachment"})
    BY <1>10 DEF Page, Attachment
  <2> QED BY <2>1, DownloadCalls DEF FreeCalls, OwnTicketCalls
<1>11. CASE p = "/subscribe"
  <2>1. Page(p, v) = Subscribe(v)
    BY <1>11 DEF Page
  <2>2. Subscribe(v).enter
    BY DEF Subscribe, Loads
  <2>3. Subscribe(v).asks \subseteq FreeCalls
    BY DEF Subscribe, Loads, FreeCalls, FleetReads, DeviceReads, SelfReads, SubscriptionReads, OwnTicketCalls
  <2>4. \A i \in DOMAIN Subscribe(v).reads : Subscribe(v).reads[i] \subseteq FreeCalls
    BY <1>1 DEF Subscribe, Loads, When, FreeCalls, FleetReads, DeviceReads, SelfReads, SubscriptionReads, OwnTicketCalls
  <2>5. CallsOf(Subscribe(v)) \subseteq FreeCalls
    BY <2>3, <2>4, CallsWithin
  <2> QED BY <2>1, <2>2, <2>5
<1> QED BY <1>2, <1>3, <1>4, <1>5, <1>6, <1>7, <1>8, <1>9, <1>10, <1>11 DEF CustomerReach

\* After a login, the page asks for no more than its viewer holds.
LoginReach == {"/dashboard", "/subscribe", "/login"}
\* The pages a sign-in can end at.
LEMMA LoginWelcome ==
  ASSUME NEW v, NEW p \in LoginReach
  PROVE  /\ Page(p, v).enter
         /\ \A call \in CallsOf(Page(p, v)) : Permits(v.scope, v.keys, call) /\ call \notin OwnFetch
         /\ \A form \in Page(p, v).forms : form.kind # "rethrows"
<1>1. CASE p = "/login"
  <2>1. Page(p, v) = Static({"/forgot-password"}, {})
    BY <1>1 DEF Page, Login
  <2>2. Static({"/forgot-password"}, {}).enter = TRUE /\ Static({"/forgot-password"}, {}).forms = {}
        /\ Static({"/forgot-password"}, {}).asks = {} /\ Static({"/forgot-password"}, {}).reads = <<>>
    BY DEF Static, Loads
  <2> QED BY <2>1, <2>2 DEF CallsOf
<1>2. CASE p = "/dashboard"
  <2>1. Page(p, v) = Dashboard(v)
    BY <1>2 DEF Page
  <2>2. Dashboard(v).enter /\ Dashboard(v).forms = {}
    BY DEF Dashboard, Loads
  <2> DEFINE calls ==
         {"getDevices", "getViewerAccess", "getActiveAlerts", "getFleetPageTrend", "getLowSupplyForecast",
          "getFleetCurrentMonthPages", "getSubscriptionStatus"}
           \cup When(Has(v, "reports"), {"getBillingAlerts", "getPortfolioCurrentPeriod"})
           \cup When(Has(v, "customers"), {"getCustomers"})
  <2>3. CallsOf(Dashboard(v)) \subseteq calls
    <3>1. Dashboard(v).asks \subseteq calls
      BY DEF Dashboard, Loads
    <3>2. \A i \in DOMAIN Dashboard(v).reads : Dashboard(v).reads[i] \subseteq calls
      BY DEF Dashboard, Loads, When
    <3> QED BY <3>1, <3>2, CallsWithin
  <2>4. \A call \in calls :
          \/ call \in FreeCalls
          \/ call \in {"getBillingAlerts", "getPortfolioCurrentPeriod"} /\ "reports" \in v.keys
          \/ call = "getCustomers" /\ "customers" \in v.keys
    BY DEF When, Has, FreeCalls, FleetReads, DeviceReads, SelfReads, SubscriptionReads
  <2>5. \A call \in calls : call \notin OwnFetch
    BY DEF When, OwnFetch
  <2>6. \A call \in CallsOf(Dashboard(v)) : call \notin OwnFetch
    BY <2>3, <2>5
  <2>7. \A call \in CallsOf(Dashboard(v)) : Permits(v.scope, v.keys, call)
    BY <2>3, <2>4, Permitted
  <2> QED BY <2>1, <2>2, <2>6, <2>7
<1>3. CASE p = "/subscribe"
  <2>1. Page(p, v) = Subscribe(v)
    BY <1>3 DEF Page
  <2>2. Subscribe(v).enter
    BY DEF Subscribe, Loads
  <2> DEFINE calls ==
         {"getViewerAccess", "getSubscriptionStatus"} \cup When(Has(v, "billing"), {"getSubscriptionInvoices"})
  <2>3. CallsOf(Subscribe(v)) \subseteq calls
    <3>1. Subscribe(v).asks \subseteq calls
      BY DEF Subscribe, Loads
    <3>2. \A i \in DOMAIN Subscribe(v).reads : Subscribe(v).reads[i] \subseteq calls
      BY DEF Subscribe, Loads, When
    <3> QED BY <3>1, <3>2, CallsWithin
  <2>4. \A call \in CallsOf(Subscribe(v)) : Permits(v.scope, v.keys, call) /\ call \notin OwnFetch
    BY <2>3, Permitted DEF When, Has, OwnFetch, FreeCalls, SelfReads, SubscriptionReads
  <2>5. \A form \in SubscribeForms : form.kind # "rethrows"
    <3>1. \A c, q : Form(c, "swallows", q, q).kind = "swallows" /\ Form(c, "in place", q, q).kind = "in place"
      BY DEF Form
    <3> QED BY <3>1 DEF SubscribeForms, Swallows, InPlace
  <2>6. \A form \in Subscribe(v).forms : form \in SubscribeForms
    BY DEF Subscribe, Loads, When
  <2> QED BY <2>1, <2>2, <2>4, <2>5, <2>6
<1> QED BY <1>1, <1>2, <1>3 DEF LoginReach

\* Every page lets in who holds every permission.
LEMMA StaffWelcome ==
  ASSUME NEW v, TenantKeys \subseteq v.keys, NEW p \in TenantPages
  PROVE  Page(p, v).enter
<1>1. \A key \in TenantKeys : Has(v, key)
  BY DEF Has
<1>2. CASE p \in Handlers
  BY <1>2, DownloadCalls DEF Page, Handlers, InvoicesExport, InvoicePdf, Installer, TenantLogo, ReportsExport,
     PagesExport, Attachment, SearchIndex
<1>3. CASE p \in {"/", "/login", "/forgot-password", "/reset-password"}
  BY <1>3 DEF Page, Landing, Login, ForgotPassword, ResetPassword, Static, Loads
<1>4. Dashboard(v).enter
  BY <1>1 DEF Dashboard, Gated, Loads, TenantKeys
<1>5. Customers(v).enter
  BY <1>1 DEF Customers, Gated, Loads, TenantKeys
<1>6. Customer(v).enter
  BY <1>1 DEF Customer, Gated, Loads, TenantKeys
<1>7. Contract(v).enter
  BY <1>1 DEF Contract, Gated, Loads, TenantKeys
<1>8. Invoices(v).enter
  BY <1>1 DEF Invoices, Gated, Loads, TenantKeys
<1>9. AgentTokenLog(v).enter
  BY <1>1 DEF AgentTokenLog, Gated, Loads, TenantKeys
<1>10. Devices(v).enter
  BY <1>1 DEF Devices, Gated, Loads, TenantKeys
<1>11. Device(v).enter
  BY <1>1 DEF Device, Gated, Loads, TenantKeys
<1>12. Tickets(v).enter
  BY <1>1 DEF Tickets, Gated, Loads, TenantKeys
<1>13. NewTicket(v).enter
  BY <1>1 DEF NewTicket, Gated, Loads, TenantKeys
<1>14. NewTicketOf(v).enter
  BY <1>1 DEF NewTicketOf, Gated, Loads, TenantKeys
<1>15. Ticket(v).enter
  BY <1>1 DEF Ticket, Gated, Loads, TenantKeys
<1>16. Users(v).enter
  BY <1>1 DEF Users, Gated, Loads, TenantKeys
<1>17. AgentDownload(v).enter
  BY <1>1 DEF AgentDownload, Gated, Loads, TenantKeys
<1>18. Logs(v).enter
  BY <1>1 DEF Logs, Gated, Loads, TenantKeys
<1>19. LogEntry(v).enter
  BY <1>1 DEF LogEntry, Gated, Loads, TenantKeys
<1>20. AuditLog(v).enter
  BY <1>1 DEF AuditLog, Gated, Loads, TenantKeys
<1>21. Notifications(v).enter
  BY <1>1 DEF Notifications, Gated, Loads, TenantKeys
<1>22. Reports(v).enter
  BY <1>1 DEF Reports, Gated, Loads, TenantKeys
<1>23. PagesReport(v).enter
  BY <1>1 DEF PagesReport, Gated, Loads, TenantKeys
<1>24. Settings(v).enter
  BY <1>1 DEF Settings, Gated, Loads, TenantKeys
<1>25. Subscribe(v).enter
  BY <1>1 DEF Subscribe, Gated, Loads, TenantKeys
<1> QED BY <1>2, <1>3, <1>4, <1>5, <1>6, <1>7, <1>8, <1>9, <1>10, <1>11, <1>12, <1>13, <1>14, <1>15, <1>16,
           <1>17, <1>18, <1>19, <1>20, <1>21, <1>22, <1>23, <1>24, <1>25 DEF Page, TenantPages

\* The files of the invoices, for a customer's login.
LEMMA FilesWelcome ==
  ASSUME NEW v, NEW p \in InvoiceFiles
  PROVE  Page(p, v).enter /\ CallsOf(Page(p, v)) \subseteq InvoiceReads
<1>1. Page(p, v) \in {Download({"getInvoices"}), Download({"fetchInvoicePdf"})}
  BY DEF Page, InvoiceFiles, InvoicesExport, InvoicePdf
<1> QED BY <1>1, DownloadCalls DEF InvoiceReads
-----------------------------------------------------------------------------
\* What a page that lets a customer's login in offers it.
OffersCustomer(page, v) ==
  /\ page.links \subseteq CustomerReach \cup When(Has(v, "invoices_view"), InvoiceFiles)
  /\ \A form \in page.forms : form.to \in CustomerReach /\ form.back \in CustomerReach /\ form.call \in FreeCalls

\* What the tenant's pages offer a customer's login.
LEMMA CustomerLinks ==
  ASSUME NEW v, v.scope = "customer", v.keys \subseteq CustomerKeys, NEW p \in TenantPages, Page(p, v).enter
  PROVE  OffersCustomer(Page(p, v), v)
<1>1. ~TenantWide(v) /\ \A key \in TenantKeys : ~Has(v, key)
  BY DEF TenantWide, Has, CustomerKeys, TenantKeys
<1>2. CASE p \in Handlers
  <2>1. ASSUME NEW calls PROVE OffersCustomer(Download(calls), v)
    <3>1. Download(calls).links = {} /\ Download(calls).forms = {}
      BY DEF Download, Loads
    <3> QED BY <3>1 DEF OffersCustomer
  <2> QED BY <1>2, <2>1 DEF Page, Handlers, InvoicesExport, InvoicePdf, Installer, TenantLogo, ReportsExport,
     PagesExport, Attachment, SearchIndex
<1>3. CASE p \in {"/", "/login", "/forgot-password", "/reset-password"}
  <2>1. ASSUME NEW links \in SUBSET CustomerReach PROVE OffersCustomer(Static(links, {}), v)
    <3>1. Static(links, {}).links = links /\ Static(links, {}).forms = {}
      BY DEF Static, Loads
    <3> QED BY <3>1 DEF OffersCustomer
  <2>2. \E links \in SUBSET CustomerReach : Page(p, v) = Static(links, {})
    BY <1>3 DEF Page, Landing, Login, ForgotPassword, ResetPassword, CustomerReach
  <2> QED BY <2>1, <2>2
<1>4. CASE p \in {"/customers", "/customers/id", "/customers/id/contract", "/customers/id/log", "/users",
             "/agent-download", "/logs", "/logs/id", "/audit-log", "/notifications", "/reports",
             "/reports/pages", "/settings"}
  <2>1. ~Customers(v).enter
    BY <1>1 DEF Customers, Gated, Loads, TenantKeys
  <2>2. ~Customer(v).enter
    BY <1>1 DEF Customer, Gated, Loads, TenantKeys
  <2>3. ~Contract(v).enter
    BY <1>1 DEF Contract, Gated, Loads, TenantKeys
  <2>4. ~AgentTokenLog(v).enter
    BY <1>1 DEF AgentTokenLog, Gated, Loads, TenantKeys
  <2>5. ~Users(v).enter
    BY <1>1 DEF Users, Gated, Loads, TenantKeys
  <2>6. ~AgentDownload(v).enter
    BY <1>1 DEF AgentDownload, Gated, Loads, TenantKeys
  <2>7. ~Logs(v).enter
    BY <1>1 DEF Logs, Gated, Loads, TenantKeys
  <2>8. ~LogEntry(v).enter
    BY <1>1 DEF LogEntry, Gated, Loads, TenantKeys
  <2>9. ~AuditLog(v).enter
    BY <1>1 DEF AuditLog, Gated, Loads, TenantKeys
  <2>10. ~Notifications(v).enter
    BY <1>1 DEF Notifications, Gated, Loads, TenantKeys
  <2>11. ~Reports(v).enter
    BY <1>1 DEF Reports, Gated, Loads, TenantKeys
  <2>12. ~PagesReport(v).enter
    BY <1>1 DEF PagesReport, Gated, Loads, TenantKeys
  <2>13. ~Settings(v).enter
    BY <1>1 DEF Settings, Gated, Loads, TenantKeys
  <2> QED BY <1>4, <2>1, <2>2, <2>3, <2>4, <2>5, <2>6, <2>7, <2>8, <2>9, <2>10, <2>11, <2>12, <2>13 DEF Page
<1>5. CASE p = "/dashboard"
  <2>1. Page(p, v) = Dashboard(v)
    BY <1>5 DEF Page
  <2>2. Dashboard(v).links \subseteq CustomerReach \cup When(Has(v, "invoices_view"), InvoiceFiles)
    BY <1>1, <1>5 DEF Dashboard, Loads, When, CustomerReach, InvoiceFiles, TenantKeys
  <2>3. Dashboard(v).forms = {}
    BY <1>1 DEF Dashboard, Loads, When, TenantKeys
  <2> QED BY <2>1, <2>2, <2>3 DEF OffersCustomer
<1>6. CASE p = "/customers/id/invoices"
  <2>1. Page(p, v) = Invoices(v)
    BY <1>6 DEF Page
  <2>2. Invoices(v).links \subseteq CustomerReach \cup When(Has(v, "invoices_view"), InvoiceFiles)
    <3>1. ~Has(v, "invoices")
      BY <1>1 DEF TenantKeys
    <3>2. Invoices(v).enter = (Has(v, "invoices") \/ Has(v, "invoices_view"))
      BY DEF Invoices, Loads
    <3>3. Invoices(v).links = InvoiceFiles \cup {}
      BY <3>1 DEF Invoices, Loads, When, InvoiceFiles
    <3> QED BY <2>1, <3>1, <3>2, <3>3 DEF When
  <2>3. Invoices(v).forms = {}
    BY <1>1 DEF Invoices, Loads, When, TenantKeys
  <2> QED BY <2>1, <2>2, <2>3 DEF OffersCustomer
<1>7. CASE p = "/devices"
  <2>1. Page(p, v) = Devices(v)
    BY <1>7 DEF Page
  <2>2. Devices(v).links \subseteq CustomerReach \cup When(Has(v, "invoices_view"), InvoiceFiles)
    BY <1>1, <1>7 DEF Devices, Loads, When, CustomerReach, InvoiceFiles, TenantKeys
  <2>3. Devices(v).forms = {}
    BY <1>1 DEF Devices, Loads, When, TenantKeys
  <2> QED BY <2>1, <2>2, <2>3 DEF OffersCustomer
<1>8. CASE p = "/devices/id"
  <2>1. Page(p, v) = Device(v)
    BY <1>8 DEF Page
  <2>2. Device(v).links \subseteq CustomerReach \cup When(Has(v, "invoices_view"), InvoiceFiles)
    BY <1>1, <1>8 DEF Device, Loads, When, CustomerReach, InvoiceFiles, TenantKeys
  <2>3. Device(v).forms = {}
    BY <1>1 DEF Device, Loads, When, TenantKeys
  <2> QED BY <2>1, <2>2, <2>3 DEF OffersCustomer
<1>9. CASE p = "/tickets"
  <2>1. Page(p, v) = Tickets(v)
    BY <1>9 DEF Page
  <2>2. Tickets(v).links \subseteq CustomerReach \cup When(Has(v, "invoices_view"), InvoiceFiles)
    BY <1>1, <1>9 DEF Tickets, Loads, When, CustomerReach, InvoiceFiles, TenantKeys
  <2>3. Tickets(v).forms = {}
    BY <1>1 DEF Tickets, Loads, When, TenantKeys
  <2> QED BY <2>1, <2>2, <2>3 DEF OffersCustomer
<1>10. CASE p = "/tickets/new"
  <2>1. Page(p, v) = NewTicket(v)
    BY <1>10 DEF Page
  <2>2. NewTicket(v).links \subseteq CustomerReach \cup When(Has(v, "invoices_view"), InvoiceFiles)
    BY <1>1, <1>10 DEF NewTicket, Loads, When, CustomerReach, InvoiceFiles, TenantKeys
  <2>3. NewTicket(v).forms = CreateTicket
    BY <1>1 DEF NewTicket, Loads
  <2>4. LET f == Form("createTicket", "swallows", "/tickets/new?customer", "/tickets/id")
        IN  f.to = "/tickets/id" /\ f.back = "/tickets/new?customer" /\ f.call = "createTicket"
    BY DEF Form
  <2>5. \A form \in CreateTicket : form.to \in CustomerReach /\ form.back \in CustomerReach /\ form.call \in FreeCalls
    BY <2>4 DEF CreateTicket, CustomerReach, FreeCalls, OwnTicketCalls
  <2> QED BY <2>1, <2>2, <2>3, <2>5 DEF OffersCustomer
<1>11. CASE p = "/tickets/new?customer"
  <2>1. Page(p, v) = NewTicketOf(v)
    BY <1>11 DEF Page
  <2>2. NewTicketOf(v).links \subseteq CustomerReach \cup When(Has(v, "invoices_view"), InvoiceFiles)
    BY <1>1, <1>11 DEF NewTicketOf, Loads, When, CustomerReach, InvoiceFiles, TenantKeys
  <2>3. NewTicketOf(v).forms = CreateTicket
    BY <1>1 DEF NewTicketOf, Loads
  <2>4. LET f == Form("createTicket", "swallows", "/tickets/new?customer", "/tickets/id")
        IN  f.to = "/tickets/id" /\ f.back = "/tickets/new?customer" /\ f.call = "createTicket"
    BY DEF Form
  <2>5. \A form \in CreateTicket : form.to \in CustomerReach /\ form.back \in CustomerReach /\ form.call \in FreeCalls
    BY <2>4 DEF CreateTicket, CustomerReach, FreeCalls, OwnTicketCalls
  <2> QED BY <2>1, <2>2, <2>3, <2>5 DEF OffersCustomer
<1>12. CASE p = "/tickets/id"
  <2>1. Page(p, v) = Ticket(v)
    BY <1>12 DEF Page
  <2>2. Ticket(v).links \subseteq CustomerReach \cup When(Has(v, "invoices_view"), InvoiceFiles)
    BY <1>1, <1>12 DEF Ticket, Loads, When, CustomerReach, InvoiceFiles, TenantKeys
  <2>3. Ticket(v).forms = Swallows({"addTicketComment"}, "/tickets/id")
    BY <1>1 DEF Ticket, Loads, When
  <2>4. LET f == Form("addTicketComment", "swallows", "/tickets/id", "/tickets/id")
        IN  f.to = "/tickets/id" /\ f.back = "/tickets/id" /\ f.call = "addTicketComment"
    BY DEF Form
  <2>5. \A form \in Ticket(v).forms : form.to \in CustomerReach /\ form.back \in CustomerReach /\ form.call \in FreeCalls
    BY <2>3, <2>4 DEF Swallows, CustomerReach, FreeCalls, OwnTicketCalls
  <2> QED BY <2>1, <2>2, <2>5 DEF OffersCustomer
<1>13. CASE p = "/subscribe"
  <2>1. Page(p, v) = Subscribe(v)
    BY <1>13 DEF Page
  <2>2. Subscribe(v).links \subseteq CustomerReach \cup When(Has(v, "invoices_view"), InvoiceFiles)
    BY <1>1, <1>13 DEF Subscribe, Loads, When, CustomerReach, InvoiceFiles, TenantKeys
  <2>3. Subscribe(v).forms = {}
    BY <1>1 DEF Subscribe, Loads, When, TenantKeys
  <2> QED BY <2>1, <2>2, <2>3 DEF OffersCustomer
<1> QED BY <1>2, <1>3, <1>4, <1>5, <1>6, <1>7, <1>8, <1>9, <1>10, <1>11, <1>12, <1>13 DEF TenantPages

\* The layout asks for no more than the permissions it was told.
LEMMA LayoutWelcome ==
  ASSUME NEW v
  PROVE  /\ v.scope = "customer" /\ v.keys \subseteq CustomerKeys
              => /\ Sidebar(v) \cup Searched(v) \subseteq CustomerReach
                 /\ OnboardingReads(v) = {} /\ BellReads(v) = {}
         /\ \A call \in OnboardingReads(v) \cup BellReads(v) :
              Permits(v.scope, v.keys, call) /\ call \notin OwnFetch
<1>1. ASSUME v.scope = "customer", v.keys \subseteq CustomerKeys
      PROVE  /\ Sidebar(v) \cup Searched(v) \subseteq CustomerReach
             /\ OnboardingReads(v) = {} /\ BellReads(v) = {}
  <2>1. ~TenantWide(v) /\ \A key \in TenantKeys : ~Has(v, key)
    BY <1>1 DEF TenantWide, Has, CustomerKeys, TenantKeys
  <2>2. Sidebar(v) \subseteq CustomerReach
    BY <2>1 DEF Sidebar, When, TenantKeys, CustomerReach
  <2>3. Searched(v) = {} /\ OnboardingReads(v) = {} /\ BellReads(v) = {}
    BY <2>1 DEF Searched, OnboardingReads, Onboards, BellReads, When, TenantKeys
  <2> QED BY <2>2, <2>3
<1>2. \A call \in OnboardingReads(v) : call = "getTenantOnboardingStatus"
  BY DEF OnboardingReads, When
<1>3. \A call \in BellReads(v) : call = "getUnreadNotificationCount" /\ "notifications" \in v.keys
  BY DEF BellReads, When, Has
<1>4. \A call \in OnboardingReads(v) \cup BellReads(v) : Permits(v.scope, v.keys, call)
  BY <1>2, <1>3, Permitted DEF FreeCalls, TenantReads
<1>5. \A call \in OnboardingReads(v) \cup BellReads(v) : call \notin OwnFetch
  BY <1>2, <1>3 DEF OwnFetch
<1> QED BY <1>1, <1>4, <1>5

\* A public page asks the API for nothing.
LEMMA PublicAsksNothing ==
  ASSUME NEW p \in PublicPages, NEW v
  PROVE  AsksFor(p) = {} /\ Page(p, v).reads = <<>>
  BY DEF PublicPages, AsksFor, Page, Landing, Login, ForgotPassword, ResetPassword, Static, Loads
-----------------------------------------------------------------------------
(* No one is refused what the panel offers. What a page was drawn with let  *)
(* its viewer in; a sidebar that is being drawn holds the row's permissions;*)
(* a sign-in leads to the dashboard, /subscribe or the form; and a customer *)
(* who follows links stays among the pages made for customers.              *)
KeysAsked == IF "getViewerAccess" \in AsksFor(load.at) THEN row.keys ELSE {}
Welcome == load.steady /\ ((Entitled /\ load.via # "typed") \/ load.via = "login")
Unrefused ==
  /\ load.body = "shown" => Loading.enter
  /\ who.scope = "customer" /\ changes = 0 => load.keys \subseteq row.keys
  /\ load.steady /\ load.layout \in {"onboarding", "bell"} => side.keys = row.keys
  /\ load.steady /\ load.via = "login" => load.at \in LoginReach \cup PlatformPages
  /\ who.scope = "customer" /\ load.steady /\ Entitled /\ load.via # "typed"
       => load.at \in CustomerReach \/ (load.at \in InvoiceFiles /\ "invoices_view" \in row.keys)
  /\ NeverWronglyRefused

\* More permissions permit no less.
LEMMA PermitsGrow ==
  ASSUME NEW scope, NEW keys, NEW more, keys \subseteq more, NEW call, Permits(scope, keys, call)
  PROVE  Permits(scope, more, call)
  BY DEF Permits

\* A permitted call is neither refused nor takes a page for forbidden.
LEMMA AnsweredFor ==
  ASSUME NEW call, who.scope = "operator" \/ Permits(who.scope, row.keys, call)
  PROVE  Answered(call) # 403 /\ Outcome(call) # "forbidden" /\ Refuses(call) # "refused"
         /\ (call \notin OwnFetch => Outcome(call) # "error")
  BY Answers, Outcomes DEF Refuses

\* A customer's permissions are a customer's wherever they were read.
LEMMA CustomerKeysAre ==
  ASSUME PanelTyping, who.scope = "customer"
  PROVE  row.keys \subseteq CustomerKeys /\ load.keys \subseteq CustomerKeys /\ side.keys \subseteq CustomerKeys
<1>1. KeysOf(who.scope) = SUBSET CustomerKeys
  BY DEF KeysOf
<1> QED BY <1>1, Typed DEF LoadRow, SideRow

\* The page that loads for a welcome viewer.
LEMMA PageGreets ==
  ASSUME PanelTyping, Unrefused, Welcome
  PROVE  LET page == Page(load.at, Viewer(KeysAsked))
         IN  /\ page.enter
             /\ \A call \in CallsOf(page) :
                  /\ Outcome(call) # "forbidden"
                  /\ load.via = "login" => Outcome(call) # "error"
             /\ load.via = "login" => load.at # "/customers/id"
<1> DEFINE v == Viewer(KeysAsked)
           page == Page(load.at, v)
<1>1. load \in LoadRow /\ load.at \in Area /\ row.keys \in KeysOf(who.scope)
      /\ who.scope \in {"staff", "customer", "operator"}
  BY Typed DEF LoadRow
<1>2. v.scope = who.scope /\ v.keys = KeysAsked /\ KeysAsked \subseteq row.keys
  BY DEF Viewer, KeysAsked
<1>3. CASE who.scope = "operator"
  <2>1. load.at \in PlatformPages /\ page.enter
    BY <1>1, <1>3, PlatformPageSound DEF Area
  <2>2. \A call : Outcome(call) \notin {"forbidden", "error"}
    BY <1>3, Outcomes
  <2> QED BY <2>1, <2>2 DEF PlatformPages
<1>4. CASE who.scope # "operator" /\ load.via = "login"
  <2>1. load.at \in LoginReach
    <3>1. load.at \in LoginReach \cup PlatformPages
      BY <1>4 DEF Welcome, Unrefused
    <3>2. load.at \in TenantPages
      BY <1>1, <1>4 DEF Area
    <3> QED BY <3>1, <3>2 DEF TenantPages, PlatformPages, Handlers
  <2>2. page.enter /\ \A call \in CallsOf(page) : Permits(v.scope, v.keys, call) /\ call \notin OwnFetch
    BY <2>1, LoginWelcome
  <2>3. \A call \in CallsOf(page) : Outcome(call) # "forbidden" /\ Outcome(call) # "error"
    BY <1>2, <2>2, PermitsGrow, AnsweredFor
  <2> QED BY <2>1, <2>2, <2>3 DEF LoginReach
<1>5. CASE who.scope = "staff" /\ load.via # "login"
  <2>1. row.keys = TenantKeys
    BY <1>5 DEF Welcome, Entitled
  <2>2. \A call : Outcome(call) # "forbidden"
    BY <1>5, <2>1, Permitted, AnsweredFor
  <2>3. load.at \in TenantPages
    BY <1>1, <1>5 DEF Area
  <2>4. page.enter
    <3>1. CASE "getViewerAccess" \in AsksFor(load.at)
      <4>1. v.keys = TenantKeys
        BY <1>2, <2>1, <3>1 DEF KeysAsked
      <4> QED BY <2>3, <4>1, StaffWelcome
    <3>2. CASE "getViewerAccess" \notin AsksFor(load.at)
      <4>1. Guarded(load.at, page)
        BY <2>3, TenantPageSound
      <4>2. page.asks = AsksFor(load.at)
        BY <1>1, PageFits
      <4> QED BY <3>2, <4>1, <4>2 DEF Guarded
    <3> QED BY <3>1, <3>2
  <2> QED BY <1>5, <2>2, <2>4
<1>6. CASE who.scope = "customer" /\ load.via # "login"
  <2>1. load.at \in CustomerReach \/ (load.at \in InvoiceFiles /\ "invoices_view" \in row.keys)
    BY <1>6 DEF Welcome, Unrefused
  <2>2. v.scope = "customer" /\ v.keys \subseteq CustomerKeys
    BY <1>2, <1>6, CustomerKeysAre
  <2>3. CASE load.at \in CustomerReach
    <3>1. page.enter /\ CallsOf(page) \subseteq FreeCalls
      BY <2>2, <2>3, CustomerWelcome
    <3>2. \A call \in CallsOf(page) : Outcome(call) # "forbidden"
      BY <3>1, Permitted, AnsweredFor
    <3> QED BY <1>6, <3>1, <3>2
  <2>4. CASE load.at \in InvoiceFiles /\ "invoices_view" \in row.keys
    <3>1. page.enter /\ CallsOf(page) \subseteq InvoiceReads
      BY <2>4, FilesWelcome
    <3>2. CustomerKeys \subseteq row.keys
      BY <2>4 DEF CustomerKeys
    <3>3. \A call \in CallsOf(page) : Outcome(call) # "forbidden"
      BY <1>6, <3>1, <3>2, Permitted, AnsweredFor
    <3> QED BY <1>6, <3>1, <3>3
  <2> QED BY <2>1, <2>3, <2>4
<1> QED BY <1>1, <1>3, <1>4, <1>5, <1>6

\* The layout that is drawn for a welcome viewer.
LEMMA LayoutGreets ==
  ASSUME PanelTyping, Unrefused, load.steady, load.layout \in {"onboarding", "bell"},
         NEW call \in LayoutDue
  PROVE  Outcome(call) # "forbidden" /\ Outcome(call) # "error"
<1>1. side.keys = row.keys
  BY DEF Unrefused
<1>2. Viewer(side.keys).scope = who.scope /\ Viewer(side.keys).keys = row.keys
  BY <1>1 DEF Viewer
<1>3. Permits(who.scope, row.keys, call) /\ call \notin OwnFetch
  BY <1>2, LayoutWelcome DEF LayoutDue
<1> QED BY <1>3, AnsweredFor

\* A page that reads on was told the row's permissions.
LEMMA KeysAre ==
  ASSUME PanelTyping, Current, load.steady, load.body = "open", load.step > 0
  PROVE  load.keys = KeysAsked
<1>1. load \in LoadRow /\ load.at \in Area /\ load.step \in 0 .. 5
  BY Typed DEF LoadRow
<1>2. load.step <= Len(Loading.reads)
  BY DEF PanelTyping
<1>3. load.at \notin PublicPages
  <2>1. SUFFICES ASSUME load.at \in PublicPages PROVE FALSE
    OBVIOUS
  <2>2. Loading.reads = <<>>
    BY <2>1, PublicAsksNothing DEF Loading
  <2>3. Len(Loading.reads) = 0
    BY <2>2
  <2>4. \A n \in 0 .. 5 : n > 0 => ~ (n <= 0)
    OBVIOUS
  <2> QED BY <1>1, <1>2, <2>3, <2>4
<1> QED BY <1>3 DEF Current, KeysAsked

\* What the page waits for is among its calls.
LEMMA DueOfPage ==
  ASSUME PanelTyping, Current, load.steady, load.body = "open"
  PROVE  \A call \in PageDue : call \in CallsOf(Page(load.at, Viewer(KeysAsked)))
<1>1. load \in LoadRow /\ load.at \in Area /\ load.step \in 0 .. 5
  BY Typed DEF LoadRow
<1>2. CASE load.step = 0
  <2>1. Page(load.at, Viewer(KeysAsked)).asks = AsksFor(load.at)
    BY <1>1, PageFits
  <2> QED BY <1>2, <2>1 DEF PageDue, CallsOf
<1>3. CASE load.step > 0
  <2>1. load.step <= Len(Loading.reads) /\ DOMAIN Loading.reads = 1 .. Len(Loading.reads)
        /\ Len(Loading.reads) \in 0 .. 4
    BY <1>1, <1>3, PageFits DEF PanelTyping, Loading, WellFormed
  <2>2. load.keys = KeysAsked
    BY <1>3, KeysAre
  <2>3. load.step \in DOMAIN Loading.reads
    BY <1>1, <1>3, <2>1
  <2> QED BY <1>3, <2>2, <2>3 DEF PageDue, CallsOf, Loading
<1> QED BY <1>1, <1>2, <1>3

\* What an entitled viewer is offered on a page it was let in to.
LEMMA CustomerIsOffered ==
  ASSUME PanelTyping, Unrefused, who.scope = "customer", load.body = "shown"
  PROVE  /\ Drawn.links \subseteq CustomerReach \cup When("invoices_view" \in load.keys, InvoiceFiles)
         /\ \A form \in Drawn.forms :
              form.to \in CustomerReach /\ form.back \in CustomerReach /\ form.call \in FreeCalls
<1>1. Viewer(load.keys).scope = "customer" /\ Viewer(load.keys).keys = load.keys /\ load.keys \subseteq CustomerKeys
  BY CustomerKeysAre DEF Viewer
<1>2. load.at \in TenantPages
  BY Typed DEF LoadRow, Area
<1>3. Drawn.enter
  BY DEF Unrefused, Loading, Drawn
<1>4. OffersCustomer(Drawn, Viewer(load.keys))
  BY <1>1, <1>2, <1>3, CustomerLinks DEF Drawn
<1> QED BY <1>1, <1>4 DEF OffersCustomer, Has

\* The forms drawn for an entitled viewer.
LEMMA FormsGreet ==
  ASSUME PanelTyping, Unrefused, Entitled, load.body = "shown", NEW form \in Drawn.forms
  PROVE  Refuses(form.call) # "refused" /\ Outcome(form.call) # "forbidden"
<1>1. CASE who.scope = "operator"
  BY <1>1, AnsweredFor
<1>2. CASE who.scope = "staff"
  BY <1>2, Permitted, AnsweredFor DEF Entitled
<1>3. CASE who.scope = "customer"
  BY <1>3, CustomerIsOffered, Permitted, AnsweredFor
<1> QED BY <1>1, <1>2, <1>3, Typed

\* Where an entitled customer's links and forms lead.
LEMMA CustomerGoes ==
  ASSUME PanelTyping, Unrefused, who.scope = "customer", Entitled,
         NEW p \in Area, NEW via \in Vias, via # "typed", Reason(p, via)
  PROVE  p \in CustomerReach \/ (p \in InvoiceFiles /\ "invoices_view" \in row.keys)
<1>1. p \in TenantPages /\ HomePage = "/dashboard" /\ LoginPage = "/login"
  BY DEF Area, HomePage, LoginPage
<1>2. load.keys \subseteq CustomerKeys /\ (changes = 0 => load.keys \subseteq row.keys)
  BY CustomerKeysAre DEF Unrefused
<1>3. "invoices_view" \in load.keys => "invoices_view" \in row.keys
  BY <1>2 DEF Entitled
<1>4. CASE via = "link" /\ p \in Offered
  <2>1. ASSUME load.body = "shown", p \in Drawn.links
        PROVE  p \in CustomerReach \/ (p \in InvoiceFiles /\ "invoices_view" \in row.keys)
    <3>1. p \in CustomerReach \cup When("invoices_view" \in load.keys, InvoiceFiles)
      BY <2>1, CustomerIsOffered
    <3> QED BY <1>3, <3>1 DEF When
  <2>2. Viewer(side.keys).scope = "customer" /\ Viewer(side.keys).keys \subseteq CustomerKeys
    BY CustomerKeysAre DEF Viewer
  <2>3. Sidebar(Viewer(side.keys)) \cup Searched(Viewer(side.keys)) \subseteq CustomerReach
    BY <2>2, LayoutWelcome
  <2>4. "/dashboard" \in CustomerReach
    BY DEF CustomerReach
  <2>5. \/ load.body = "shown" /\ p \in Drawn.links
        \/ p = "/dashboard"
        \/ p \in Sidebar(Viewer(side.keys)) \cup Searched(Viewer(side.keys))
    BY <1>4 DEF Offered
  <2> QED BY <2>1, <2>3, <2>4, <2>5
<1>5. CASE p \in {HomePage, LoginPage}
  BY <1>1, <1>5 DEF CustomerReach
<1>6. CASE load.body = "shown" /\ \E form \in Drawn.forms : p \in {form.to, form.back, "/subscribe"} \cup LoginForms
  <2>1. PICK form \in Drawn.forms : p \in {form.to, form.back, "/subscribe"} \cup LoginForms
    BY <1>6
  <2>2. form.to \in CustomerReach /\ form.back \in CustomerReach
    BY <1>6, CustomerIsOffered
  <2>3. CASE p \in {form.to, form.back}
    BY <2>2, <2>3
  <2>4. CASE p \in {"/subscribe"} \cup LoginForms
    BY <1>1, <2>4 DEF LoginForms, TenantPages, Handlers, CustomerReach
  <2> QED BY <2>1, <2>3, <2>4
<1> QED BY <1>4, <1>5, <1>6 DEF Reason

\* A load begins.
LEMMA FreshUnrefused ==
  ASSUME PanelTyping, Unrefused, Fresh
  PROVE  Unrefused'
<1>1. who' = who /\ row' = row /\ changes' = changes
  BY DEF Fresh
<1>2. PICK p \in Area, via \in Vias : Began(p, via, 0, TRUE, cookie') /\ Reason(p, via)
  BY DEF Fresh
<1>3. load'.at = Proxied(p, cookie') /\ load'.via = via /\ load'.layout \in {"access", "done"}
      /\ load'.keys = {} /\ load'.body = "open"
  BY <1>2 DEF Began
<1>4. load'.at \in {p, LoginPage}
  BY <1>3 DEF Proxied
<1>5. Entitled' <=> Entitled
  BY <1>1 DEF Entitled
<1>6. via = "login" => load'.at \in LoginReach \cup PlatformPages
  BY <1>2, <1>4 DEF Reason, HomePage, LoginPage, LoginReach, PlatformPages
<1>7. who.scope = "customer" /\ Entitled /\ via # "typed"
        => load'.at \in CustomerReach \/ (load'.at \in InvoiceFiles /\ "invoices_view" \in row.keys)
  <2>1. who.scope = "customer" => LoginPage \in CustomerReach
    BY DEF LoginPage, CustomerReach
  <2> QED BY <1>2, <1>4, <2>1, CustomerGoes
<1>8. Entitled => said' # "refused"
  BY <1>2, FormsGreet DEF Reason
<1> QED BY <1>1, <1>3, <1>5, <1>6, <1>7, <1>8 DEF Unrefused, NeverWronglyRefused

\* A load is redirected.
LEMMA RedirectUnrefused ==
  ASSUME PanelTyping, Unrefused, Redirects
  PROVE  Unrefused'
<1>1. who' = who /\ row' = row /\ changes' = changes /\ said' = said
  BY DEF Redirects, SameViewer
<1>2. Entitled' <=> Entitled
  BY <1>1 DEF Entitled
<1>3. load \in LoadRow
  BY Typed
<1>4. PICK p \in Area :
       /\ GaveUp \/ (load.hops < MaxRedirects /\ Began(p, load.via, load.hops + 1, load.steady, cookie))
       /\ p \in {HomePage, "/subscribe", "/login", "/platform/login"}
  BY DEF Redirects
<1>5. CASE GaveUp
  <2>1. load'.at = load.at /\ load'.via = load.via /\ load'.steady = load.steady /\ load'.keys = load.keys
        /\ load'.layout = "done" /\ load'.body = "redirects"
    BY <1>3, <1>5 DEF GaveUp, LoadRow
  <2> QED BY <1>1, <1>2, <2>1 DEF Unrefused, NeverWronglyRefused
<1>6. CASE Began(p, load.via, load.hops + 1, load.steady, cookie)
  <2>1. load'.at = Proxied(p, cookie) /\ load'.via = load.via /\ load'.steady = load.steady /\ load'.keys = {}
        /\ load'.layout \in {"access", "done"} /\ load'.body = "open"
    BY <1>6 DEF Began
  <2>2. load'.at \in {HomePage, LoginPage, "/subscribe", "/login", "/platform/login"}
    BY <1>4, <2>1 DEF Proxied
  <2>3. load'.at \in LoginReach \cup PlatformPages
    BY <2>2 DEF HomePage, LoginPage, LoginReach, PlatformPages
  <2>4. who.scope = "customer" => load'.at \in CustomerReach
    <3>1. who.scope = "customer" => p # "/platform/login"
      BY DEF Area, TenantPages, Handlers
    <3> QED BY <1>4, <2>1, <3>1 DEF Proxied, HomePage, LoginPage, CustomerReach
  <2> QED BY <1>1, <1>2, <2>1, <2>3, <2>4 DEF Unrefused, NeverWronglyRefused
<1> QED BY <1>4, <1>5, <1>6

\* The layout is drawn on.
LEMMA LayoutUnrefused ==
  ASSUME PanelTyping, Unrefused, LayoutMoves
  PROVE  Unrefused'
<1>1. who' = who /\ row' = row /\ changes' = changes /\ said' = said
  BY DEF LayoutMoves, SameViewer
<1>2. Entitled' <=> Entitled
  BY <1>1 DEF Entitled
<1>3. PICK l \in {"onboarding", "bell", "done"} :
       /\ load' = [load EXCEPT !.layout = l]
       /\ CASE l = "onboarding" -> side'.keys = row.keys
            [] l = "bell" -> load.layout = "onboarding" /\ side' = side
            [] l = "done" -> TRUE
  BY DEF LayoutMoves
<1>4. load'.at = load.at /\ load'.via = load.via /\ load'.steady = load.steady /\ load'.keys = load.keys
      /\ load'.layout = l /\ load'.body = load.body
  BY <1>3, Typed DEF LoadRow
<1>5. Loading' = Loading
  BY <1>1, <1>4 DEF Loading, Viewer
<1>6. load.steady /\ l \in {"onboarding", "bell"} => side'.keys = row.keys
  BY <1>3 DEF Unrefused
<1> QED BY <1>1, <1>2, <1>4, <1>5, <1>6 DEF Unrefused, NeverWronglyRefused

\* A page ends otherwise than shown.
LEMMA StopUnrefused ==
  ASSUME PanelTyping, Current, Unrefused, Stops
  PROVE  Unrefused'
<1>1. who' = who /\ row' = row /\ changes' = changes
  BY DEF Stops, SameViewer
<1>2. Entitled' <=> Entitled
  BY <1>1 DEF Entitled
<1>3. PICK l \in {load.layout, "done"}, b \in {"forbidden", "error", "not found"} :
       /\ load' = [load EXCEPT !.layout = l, !.body = b]
       /\ l # "done" => side' = side
       /\ Cause(b)
  BY DEF Stops
<1>4. load'.at = load.at /\ load'.via = load.via /\ load'.steady = load.steady /\ load'.keys = load.keys
      /\ load'.layout = l /\ load'.body = b
  BY <1>3, Typed DEF LoadRow
<1>5. load.steady /\ l \in {"onboarding", "bell"} => side'.keys = row.keys
  BY <1>3 DEF Unrefused
<1>6. ASSUME load.steady, Entitled, load.via # "typed" PROVE b # "forbidden" /\ said' # "refused"
  <2>1. Welcome /\ said # "refused"
    BY <1>6 DEF Welcome, Unrefused, NeverWronglyRefused
  <2>2. CASE load.body = "open" /\ said' = said /\ b = "not found" /\ load.at = "/customers/id"
    BY <2>1, <2>2
  <2>3. CASE load.body = "open" /\ said' = said /\ \E call \in PageDue : b = Outcome(call)
    BY <1>6, <2>1, <2>3, PageGreets, DueOfPage
  <2>4. CASE load.layout \in {"onboarding", "bell"} /\ said' = said /\ \E call \in LayoutDue : b = Outcome(call)
    BY <1>6, <2>1, <2>4, LayoutGreets
  <2>5. CASE /\ load.body = "shown"
             /\ \E form \in Drawn.forms :
                  form.kind = "rethrows" /\ b = Outcome(form.call) /\ said' = Refuses(form.call)
    BY <1>6, <2>5, FormsGreet
  <2> QED BY <1>3, <2>2, <2>3, <2>4, <2>5 DEF Cause
<1>7. ASSUME load.steady, load.via = "login" PROVE FALSE
  <2>1. Welcome
    BY <1>7 DEF Welcome
  <2>2. \A call : Outcome(call) # "not found"
    BY Outcomes
  <2>3. CASE load.at = "/customers/id"
    BY <1>7, <2>1, <2>3, PageGreets
  <2>4. CASE load.body = "open" /\ \E call \in PageDue : b = Outcome(call)
    BY <1>3, <1>7, <2>1, <2>2, <2>4, PageGreets, DueOfPage
  <2>5. CASE load.layout \in {"onboarding", "bell"} /\ \E call \in LayoutDue : b = Outcome(call)
    BY <1>3, <1>7, <2>2, <2>5, LayoutGreets
  <2>6. CASE /\ load.body = "shown"
             /\ \E form \in Drawn.forms : form.kind = "rethrows" /\ b = Outcome(form.call)
    <3>1. CASE who.scope = "operator"
      BY <1>3, <2>6, <3>1, Outcomes
    <3>2. CASE who.scope # "operator"
      <4>1. load.at \in LoginReach
        <5>1. load.at \in LoginReach \cup PlatformPages
          BY <1>7 DEF Unrefused
        <5>2. load.at \in TenantPages
          BY <3>2, Typed DEF LoadRow, Area
        <5> QED BY <5>1, <5>2 DEF TenantPages, PlatformPages, Handlers
      <4> QED BY <2>6, <4>1, LoginWelcome DEF Drawn
    <3> QED BY <3>1, <3>2
  <2> QED BY <1>3, <2>3, <2>4, <2>5, <2>6 DEF Cause
<1> QED BY <1>1, <1>2, <1>4, <1>5, <1>6, <1>7 DEF Unrefused, NeverWronglyRefused

\* A read of the page is answered.
LEMMA AdvanceUnrefused ==
  ASSUME PanelTyping, Current, Unrefused, Advances
  PROVE  Unrefused'
<1>1. who' = who /\ row' = row /\ changes' = changes /\ said' = said /\ side' = side /\ load.body = "open"
  BY DEF Advances, SameViewer
<1>2. Entitled' <=> Entitled
  BY <1>1 DEF Entitled
<1>3. PICK keys \in KeysOf(who.scope) \cup {{}} :
       Advance(keys) /\ ((load.step = 0 /\ keys = KeysAsked) \/ (load.step > 0 /\ keys = load.keys))
  BY DEF Advances, KeysAsked
<1> DEFINE page == Page(load.at, Viewer(keys))
<1>4. load'.at = load.at /\ load'.via = load.via /\ load'.steady = load.steady /\ load'.keys = keys
      /\ load'.layout = load.layout
      /\ load'.body = (IF ~page.enter THEN "forbidden" ELSE IF load.step = Len(page.reads) THEN "shown" ELSE load.body)
  BY <1>3, Typed DEF Advance, LoadRow
<1>5. Loading' = page
  BY <1>1, <1>4 DEF Loading, Viewer
<1>6. who.scope = "customer" /\ changes = 0 => keys \subseteq row.keys
  BY <1>3 DEF Unrefused, KeysAsked
<1>7. Welcome => page.enter
  <2>1. load.steady => keys = KeysAsked
    BY <1>1, <1>3, KeysAre
  <2> QED BY <2>1, PageGreets DEF Welcome
<1> HIDE DEF page
<1>8. load'.body = "shown" => Loading'.enter
  BY <1>1, <1>4, <1>5
<1>9. Welcome => load'.body \notin {"forbidden", "error", "not found"}
  BY <1>1, <1>4, <1>7
<1> QED BY <1>1, <1>2, <1>4, <1>6, <1>8, <1>9 DEF Unrefused, NeverWronglyRefused, Welcome

\* The load stays as it is, or something changes under it.
LEMMA RestUnrefused ==
  ASSUME PanelTyping, Unrefused, Disturbed \/ Rests
  PROVE  Unrefused'
<1>1. CASE Disturbed
  <2>1. load'.at = load.at /\ load'.keys = load.keys /\ load'.steady = FALSE /\ load'.body = load.body
    BY <1>1, Typed DEF Disturbed, LoadRow
  <2>2. Loading' = Loading
    BY <1>1, <2>1 DEF Disturbed, Loading, Viewer
  <2>3. changes' # 0
    BY <1>1, PanelAssumption DEF Disturbed, PanelTyping, PanelTypeOK
  <2> QED BY <2>1, <2>2, <2>3 DEF Unrefused, NeverWronglyRefused
<1>2. CASE Rests
  <2>1. who' = who /\ row' = row /\ changes' = changes /\ load' = load /\ side' = side
    BY <1>2 DEF Rests, SameViewer
  <2>2. (Entitled' <=> Entitled) /\ Loading' = Loading
    BY <2>1 DEF Entitled, Loading, Viewer
  <2>3. Entitled => said' = said \/ said' # "refused"
    BY <1>2, FormsGreet DEF Rests
  <2> QED BY <2>1, <2>2, <2>3 DEF Unrefused, NeverWronglyRefused
<1> QED BY <1>1, <1>2

(* Whoever holds every permission is refused nothing it is offered, and     *)
(* every sign-in ends at a page that opens.                                 *)
THEOREM NoOneWronglyRefused ==
  PanelSpec => []NeverWronglyRefused
<1> DEFINE Unrefusing == PanelTyping /\ Current /\ Unrefused
<1>1. PanelInit => Unrefusing
  <2>1. SUFFICES ASSUME PanelInit PROVE Unrefusing
    OBVIOUS
  <2>2. PanelTyping /\ Current
    BY <2>1, Initially DEF Current
  <2>3. load.at \in PublicPages /\ load.keys = {} /\ load.layout = "done" /\ load.via = "typed" /\ load.body = "shown"
    BY <2>1, Initially DEF PanelInit
  <2>4. Loading.enter
    <3>1. ASSUME NEW links PROVE Static(links, {}).enter
      BY DEF Static, Loads
    <3> QED BY <2>3, <3>1 DEF Loading, PublicPages, Page, Landing, Login, ForgotPassword, ResetPassword
  <2> QED BY <2>2, <2>3, <2>4 DEF Unrefused, NeverWronglyRefused
<1>2. Unrefusing /\ [PanelNext]_panelVars => Unrefusing'
  <2>1. SUFFICES ASSUME Unrefusing, [PanelNext]_panelVars PROVE Unrefusing'
    OBVIOUS
  <2>2. PanelTyping' /\ Moves
    BY <2>1, Steps
  <2>3. Current'
    BY <2>1, <2>2, CurrentKept
  <2>4. Unrefused'
    BY <2>1, <2>2, FreshUnrefused, RedirectUnrefused, LayoutUnrefused, StopUnrefused, AdvanceUnrefused,
       RestUnrefused DEF Moves
  <2> QED BY <2>2, <2>3, <2>4
<1>3. Unrefusing => NeverWronglyRefused
  BY DEF Unrefused
<1> QED BY <1>1, <1>2, <1>3, PTL DEF PanelSpec
-----------------------------------------------------------------------------
(* Every day is billed in its turn whatever calendar, contracts, requests   *)
(* and lost nights: the invariants of InvoicingProofs hold of the subject   *)
(* they are about, and rest while another one moves.                        *)

\* The terms of the theorems: a day of the calendar the steady customer was
\* billed up to, three months in at the earliest, and the terms on which it
\* stays steady.
StartsOnWorkDay == SteadyFrom \in WorkDays
SteadyStaff == StartsOnWorkDay /\ 3 <= MonthOf[SteadyFrom] /\ SteadyTerms

\* Two months have two starts.
LEMMA OneMonthPerStart ==
  ASSUME NEW m \in Months, NEW n \in Months, NEW D \in CycleDaysAllowed,
         PeriodStart(m, D) = PeriodStart(n, D)
  PROVE  m = n
<1>1. m \in Int /\ n \in Int
  BY DEF Months
<1>2. /\ PeriodStart(m, D) \in Int /\ PeriodEnd(m, D) \in Int /\ PeriodStart(m, D) <= PeriodEnd(m, D)
      /\ PeriodStart(n, D) \in Int /\ PeriodEnd(n, D) \in Int /\ PeriodStart(n, D) <= PeriodEnd(n, D)
  BY PeriodInCalendar, DayIsInt
<1>3. ~(m < n)
  <2>1. m < n => PeriodEnd(m, D) < PeriodStart(n, D)
    BY PeriodsOrdered
  <2> QED BY <2>1, <1>2
<1>4. ~(n < m)
  <2>1. n < m => PeriodEnd(n, D) < PeriodStart(m, D)
    BY PeriodsOrdered
  <2> QED BY <2>1, <1>2
<1> QED BY <1>1, <1>3, <1>4

\* No period ends before the first working day.
LEMMA EndsOnWorkDay ==
  ASSUME NEW m \in Months, NEW D \in CycleDaysAllowed
  PROVE  FirstDay[1] <= PeriodEnd(m, D) /\ FirstDay[1] \in Int
<1>1. PeriodEnd(m, D) \in Days /\ PeriodEnd(m, D) \in Int /\ MonthOf[PeriodEnd(m, D)] = m
  BY PeriodInCalendar, DayIsInt, CompetenciaOfPeriod DEF Competencia
<1>2. FirstDay[m] <= PeriodEnd(m, D)
  BY <1>1, CalendarAssumption
<1>3. FirstDay[1] \in Nat /\ FirstDay[m] \in Nat /\ FirstDay[1] <= FirstDay[m]
  <2>1. 1 \in 0 .. (LastMonth + 1) /\ m \in 0 .. (LastMonth + 1) /\ 1 <= m
    BY BoundsAreNat DEF Months
  <2> QED BY <2>1, FirstDayInOrder
<1> QED BY <1>1, <1>2, <1>3

\* The rows of the steady customer are months closed on its first day.
LEMMA SteadyRows ==
  ASSUME StartsOnWorkDay, cycleDay \in CycleDaysAllowed, invoices = SteadyCustomer,
         NEW s \in Days, invoices[s] # NoInvoice
  PROVE  \E m \in BilledMonths :
           /\ s = PeriodStart(m, cycleDay) /\ invoices[s].end = PeriodEnd(m, cycleDay)
           /\ invoices[s].end < invoices[s].generated
           /\ invoices[s].status = "PENDING" /\ invoices[s] \in InvoiceRow
<1> PICK D : D = cycleDay
  OBVIOUS
<1>1. \E m \in BilledMonths : PeriodStart(m, D) = s
  BY DEF SteadyCustomer
<1> DEFINE n == CHOOSE m \in BilledMonths : PeriodStart(m, D) = s
<1>2. /\ n \in BilledMonths /\ PeriodStart(n, D) = s
      /\ invoices[s] = [status |-> "PENDING", end |-> PeriodEnd(n, D), paid |-> FALSE,
                        generated |-> PeriodEnd(n, D) + 1, contract |-> 1]
  BY <1>1 DEF SteadyCustomer
<1> HIDE DEF n
<1>3. n \in Months /\ PeriodEnd(n, D) < SteadyFrom
  BY <1>2 DEF BilledMonths
<1>4. PeriodEnd(n, D) \in Days /\ PeriodEnd(n, D) \in Int
  BY <1>3, PeriodInCalendar, DayIsInt
<1>5. PeriodEnd(n, D) + 1 \in WorkDays
  <2>1. SteadyFrom \in Int /\ SteadyFrom < Open /\ Open \in Int
    BY CalendarInts DEF StartsOnWorkDay
  <2>2. FirstDay[1] <= PeriodEnd(n, D) /\ FirstDay[1] \in Int
    BY <1>3, EndsOnWorkDay
  <2> QED BY <1>3, <1>4, <2>1, <2>2 DEF WorkDays, Open
<1>6. invoices[s] \in InvoiceRow
  BY <1>2, <1>4, <1>5 DEF InvoiceRow, InvoiceStatus
<1>7. invoices[s].end < invoices[s].generated
  BY <1>2, <1>4
<1> QED BY <1>2, <1>6, <1>7

LEMMA SteadyTable ==
  ASSUME StartsOnWorkDay, cycleDay \in CycleDaysAllowed, invoices = SteadyCustomer
  PROVE  /\ invoices \in [Days -> RowType]
         /\ OnCycle(cycleDay, invoices)
         /\ \A s \in Days : invoices[s].status # "CANCELLED"
<1>1. \A s \in Days : invoices[s] \in RowType
  BY SteadyRows DEF RowType
<1>2. invoices \in [Days -> RowType]
  BY <1>1 DEF SteadyCustomer
<1>3. OnCycle(cycleDay, invoices)
  BY SteadyRows DEF OnCycle, BilledMonths
<1>4. \A s \in Days : invoices[s].status # "CANCELLED"
  BY SteadyRows DEF NoInvoice
<1> QED BY <1>2, <1>3, <1>4

\* It was billed without a break from the first month to the last closed one.
LEMMA SteadyMonths ==
  ASSUME SteadyStaff, cycleDay \in CycleDaysAllowed, invoices = SteadyCustomer,
         today = SteadyFrom
  PROVE  BilledSteadily(today, cycleDay, invoices)
<1> PICK D : D = cycleDay
  OBVIOUS
<1> PICK k : k = MonthOf[SteadyFrom]
  OBVIOUS
<1>1. /\ SteadyFrom \in Days /\ SteadyFrom \in Int /\ k \in Int /\ 3 <= k /\ k <= LastMonth
      /\ LastMonth \in Nat /\ k \in Months /\ k - 1 \in Months /\ 1 \in Months
  <2>1. SteadyFrom \in Days /\ SteadyFrom \in Int
    BY CalendarInts DEF SteadyStaff, StartsOnWorkDay
  <2>2. k \in 0 .. LastMonth /\ 3 <= k
    BY <2>1, CalendarAssumption DEF SteadyStaff
  <2> QED BY <2>1, <2>2, BoundsAreNat DEF Months
<1>2. ASSUME NEW m \in Months
      PROVE  /\ m < k => PeriodEnd(m, D) < SteadyFrom
             /\ PeriodEnd(m, D) < SteadyFrom => m <= k
             /\ m \in Int
  <2>1. /\ PeriodEnd(m, D) \in Days /\ PeriodEnd(m, D) \in Int
        /\ MonthOf[PeriodEnd(m, D)] = m /\ m \in Int
    BY PeriodInCalendar, DayIsInt, CompetenciaOfPeriod DEF Competencia, Months
  <2>2. SteadyFrom <= PeriodEnd(m, D) => k <= m
    BY <1>1, <2>1, MonthsInOrder
  <2>3. PeriodEnd(m, D) <= SteadyFrom => m <= k
    BY <1>1, <2>1, MonthsInOrder
  <2> QED BY <1>1, <2>1, <2>2, <2>3
<1>3. PICK b \in Months : /\ b = k \/ b = k - 1
                          /\ b = k <=> PeriodEnd(k, D) < SteadyFrom
  <2>1. CASE PeriodEnd(k, D) < SteadyFrom
    BY <1>1, <2>1
  <2>2. CASE ~(PeriodEnd(k, D) < SteadyFrom)
    <3>1. k - 1 # k
      BY <1>1
    <3> QED BY <1>1, <2>2, <3>1
  <2> QED BY <2>1, <2>2
<1>4. ASSUME NEW m \in Months PROVE m \in BilledMonths <=> m <= b
  <2>1. m \in BilledMonths <=> PeriodEnd(m, D) < SteadyFrom
    BY DEF BilledMonths
  <2>2. CASE m < k
    BY <1>1, <1>2, <1>3, <2>1, <2>2
  <2>3. CASE m = k
    BY <1>1, <1>3, <2>1, <2>3
  <2>4. CASE k < m
    BY <1>1, <1>2, <1>3, <2>1, <2>4
  <2> QED BY <1>1, <1>2, <2>2, <2>3, <2>4
<1>5. ASSUME NEW m \in Months
      PROVE  invoices[PeriodStart(m, D)] # NoInvoice <=> m \in BilledMonths
  <2>1. PeriodStart(m, D) \in Days
    BY PeriodInCalendar
  <2>2. ASSUME invoices[PeriodStart(m, D)] # NoInvoice PROVE m \in BilledMonths
    <3>1. PICK n \in BilledMonths : PeriodStart(m, D) = PeriodStart(n, D)
      BY <2>1, <2>2, SteadyRows DEF SteadyStaff
    <3>2. n \in Months
      BY DEF BilledMonths
    <3> QED BY <3>1, <3>2, OneMonthPerStart
  <2>3. ASSUME m \in BilledMonths PROVE invoices[PeriodStart(m, D)] # NoInvoice
    <3>1. invoices[PeriodStart(m, D)].status = "PENDING"
      BY <2>1, <2>3 DEF SteadyCustomer
    <3> QED BY <3>1 DEF NoInvoice
  <2> QED BY <2>2, <2>3
<1>6. \A m \in Months : invoices[PeriodStart(m, D)] # NoInvoice <=> 1 <= m /\ m <= b
  BY <1>4, <1>5 DEF Months
<1>7. \A s \in Days : invoices[s].status # "CANCELLED"
  BY SteadyTable DEF SteadyStaff
<1>8. 1 + 2 <= MonthOf[today] /\ MonthOf[today] <= b + (IF DayOfMonth(today) = 1 THEN 2 ELSE 1)
  BY <1>1, <1>3
<1> QED BY <1>1, <1>6, <1>7, <1>8 DEF BilledSteadily
-----------------------------------------------------------------------------
\* Both starts are typed and bill closed periods only.
LEMMA SteadyInitInv == StartsOnWorkDay /\ SteadyInit => Inv /\ OnCycle(cycleDay, invoices)
<1> SUFFICES ASSUME StartsOnWorkDay, SteadyInit PROVE Inv /\ OnCycle(cycleDay, invoices)
  OBVIOUS
<1>1. cycleDay \in CycleDaysAllowed
  BY InvoicingAssumption DEF SteadyInit
<1>2. invoices \in [Days -> RowType] /\ OnCycle(cycleDay, invoices)
  BY <1>1, SteadyTable DEF SteadyInit
<1>3. ContractsTypeOK
  BY ContractsAssumption, IdleRequestType
     DEF SteadyInit, StartsOnWorkDay, ContractsInit, ContractsTypeOK, IdleRequest
<1>4. InvoicingTypeOK
  BY <1>1, <1>2, <1>3, NoRequestType DEF SteadyInit, InvoicingTypeOK, RowType
<1>5. OnlyClosedPeriods
  <2> SUFFICES ASSUME NEW s \in Days, Exists(s)
               PROVE  s <= invoices[s].end /\ invoices[s].end < invoices[s].generated
    BY DEF OnlyClosedPeriods
  <2>1. PICK m \in Months : /\ s = PeriodStart(m, cycleDay)
                            /\ invoices[s].end = PeriodEnd(m, cycleDay)
                            /\ invoices[s].end < invoices[s].generated
    BY <1>2 DEF OnCycle, Exists
  <2> QED BY <1>1, <2>1, PeriodInCalendar
<1>6. RequestsOK
  BY DEF SteadyInit, RequestsOK, Generating, HasPeriod
<1> QED BY <1>2, <1>4, <1>5, <1>6 DEF Inv

(* The parts keep their types whoever moves.                                *)
StaffTyping == Inv /\ PanelTyping

LEMMA StaffTypingStart == StartsOnWorkDay /\ StaffInit => StaffTyping
<1> SUFFICES ASSUME StartsOnWorkDay, StaffInit PROVE StaffTyping
  OBVIOUS
<1>1. PanelTyping
  BY Initially DEF StaffInit
<1>2. Inv
  BY SteadyInitInv, InitInv DEF StaffInit
<1> QED BY <1>1, <1>2 DEF StaffTyping

\* A step of the whole is a step of each part, and one part's alone.
LEMMA StaffParts ==
  ASSUME [StaffNext]_<<subject, vars, panelVars>>
  PROVE  /\ [Next]_vars /\ [PanelNext]_panelVars /\ subject' = subject
         /\ subject = "requests" => [RequestsNext]_vars
         /\ subject = "change" => [ChangeNext]_vars
<1>1. CASE subject = "requests" /\ RequestsNext /\ UNCHANGED <<subject, panelVars>>
  BY <1>1 DEF RequestsNext
<1>2. CASE subject = "change" /\ ChangeNext /\ UNCHANGED <<subject, panelVars>>
  BY <1>2 DEF ChangeNext
<1>3. CASE subject = "panel" /\ PanelNext /\ UNCHANGED <<subject, vars>>
  BY <1>3
<1>4. CASE UNCHANGED <<subject, vars, panelVars>>
  BY <1>4
<1> QED BY <1>1, <1>2, <1>3, <1>4 DEF StaffNext

LEMMA StaffTypingStep ==
  StaffTyping /\ [StaffNext]_<<subject, vars, panelVars>> => StaffTyping'
<1> SUFFICES ASSUME StaffTyping, [StaffNext]_<<subject, vars, panelVars>> PROVE StaffTyping'
  OBVIOUS
<1>1. [Next]_vars /\ [PanelNext]_panelVars
  BY StaffParts
<1>2. Inv'
  BY <1>1, StepInv DEF StaffTyping
<1>3. PanelTyping'
  BY <1>1, Steps DEF StaffTyping
<1> QED BY <1>2, <1>3 DEF StaffTyping

(* Rows, requests, contracts and pages keep their types, whatever staff,    *)
(* the job and the viewers do.                                              *)
THEOREM StaffTyped == StartsOnWorkDay => (StaffSpec => []StaffTypesOK)
<1> SUFFICES ASSUME StartsOnWorkDay PROVE StaffSpec => []StaffTypesOK
  OBVIOUS
<1>1. StaffInit => StaffTyping
  BY StaffTypingStart
<1>2. StaffTyping => StaffTypesOK
  BY DEF StaffTyping, StaffTypesOK, Inv, PanelTyping
<1> QED BY <1>1, <1>2, StaffTypingStep, PTL DEF StaffSpec
-----------------------------------------------------------------------------
\* Each subject's own invariant, while the others rest.
BilledInTurn ==
  /\ StaffTyping
  /\ subject = "requests" => CatchUpInv
  /\ subject = "change" => SteadyInv

LEMMA BilledInTurnStart == SteadyStaff /\ StaffInit => BilledInTurn
<1> SUFFICES ASSUME SteadyStaff, StaffInit PROVE BilledInTurn
  OBVIOUS
<1>1. StaffTyping
  BY StaffTypingStart DEF SteadyStaff
<1>2. subject = "requests" => CatchUpInv
  BY CatchUpStart DEF StaffInit
<1>3. ASSUME subject = "change" PROVE SteadyInv
  <2>1. SteadyInit
    BY <1>3 DEF StaffInit
  <2>2. OnCycle(cycleDay, invoices)
    BY <2>1, SteadyInitInv DEF SteadyStaff
  <2>3. cycleDay \in FirstCycleDays /\ cycleDay \in CycleDaysAllowed
    BY <2>1, InvoicingAssumption DEF SteadyInit
  <2>4. BilledSteadily(today, cycleDay, invoices)
    BY <2>1, <2>3, SteadyMonths DEF SteadyInit
  <2>5. /\ contracts = InitContracts /\ pc = [w \in Workers |-> "idle"]
        /\ missed = 0 /\ cronRun = "waits"
    BY <2>1 DEF SteadyInit, ContractsInit
  <2> QED BY <1>1, <2>2, <2>3, <2>4, <2>5, SteadyStart DEF StaffTyping
<1> QED BY <1>1, <1>2, <1>3 DEF BilledInTurn

\* With one cycle day the job catches up whatever staff request.
LEMMA RequestsStep ==
  ASSUME SteadyTerms, CatchUpInv, [RequestsNext]_vars
  PROVE  CatchUpInv'
<1>1. [Next]_vars
  BY DEF RequestsNext
<1>2. cycleDay' = cycleDay
  <2>1. dayChanges \in Nat
    BY DEF CatchUpInv, FixedInv, Inv, InvoicingTypeOK
  <2>2. CASE UNCHANGED vars
    BY <2>2 DEF vars, invoiceVars
  <2>3. CASE RequestsNext
    <3>1. ~SetCycleDay
      BY <2>1, <2>3 DEF RequestsNext, SetCycleDay
    <3> QED BY <1>1, <3>1, CycleDayStays
  <2> QED BY <2>2, <2>3
<1> QED BY <1>1, <1>2, CatchUpStep DEF SteadyTerms

\* And the steady customer's table stays tiled while its cycle day changes.
LEMMA ChangeStep ==
  ASSUME SteadyTerms, SteadyInv, [ChangeNext]_vars
  PROVE  SteadyInv'
<1>1. [Next]_vars
  BY DEF ChangeNext
<1>2. \A w \in Staff : pc'[w] = "idle"
  <2>1. CASE UNCHANGED vars
    BY <2>1 DEF vars, invoiceVars, SteadyInv, Undisturbed
  <2>2. CASE ChangeNext
    BY <2>2 DEF ChangeNext, Idle
  <2> QED BY <2>1, <2>2
<1> QED BY <1>1, <1>2, SteadyStep

LEMMA BilledInTurnStep ==
  SteadyTerms /\ BilledInTurn /\ [StaffNext]_<<subject, vars, panelVars>> => BilledInTurn'
<1> SUFFICES ASSUME SteadyTerms, BilledInTurn, [StaffNext]_<<subject, vars, panelVars>>
             PROVE  BilledInTurn'
  OBVIOUS
<1>1. StaffTyping'
  BY StaffTypingStep DEF BilledInTurn
<1>2. subject' = subject
  BY StaffParts
<1>3. subject = "requests" => CatchUpInv'
  BY StaffParts, RequestsStep DEF BilledInTurn
<1>4. subject = "change" => SteadyInv'
  BY StaffParts, ChangeStep DEF BilledInTurn
<1> QED BY <1>1, <1>2, <1>3, <1>4 DEF BilledInTurn

(* Every day that a contract covers is billed in its turn.  Beside any      *)
(* requests of staff the job bills each period once, at most MaxMissed      *)
(* nights late; and while the cycle day of a steady customer changes, in    *)
(* whichever step of the job, no day is billed twice, none between two      *)
(* months in a row is left out, and none before its period closed.          *)
THEOREM StaffBilledInTurn == SteadyStaff => (StaffSpec => []EveryDayBilledInTurn)
<1> SUFFICES ASSUME SteadyStaff PROVE StaffSpec => []EveryDayBilledInTurn
  OBVIOUS
<1>1. StaffInit => BilledInTurn
  BY BilledInTurnStart
<1>2. BilledInTurn /\ [StaffNext]_<<subject, vars, panelVars>> => BilledInTurn'
  BY BilledInTurnStep DEF SteadyStaff
<1>3. BilledInTurn => EveryDayBilledInTurn
  <2> SUFFICES ASSUME BilledInTurn PROVE EveryDayBilledInTurn
    OBVIOUS
  <2>1. subject = "requests" => ClosedCyclesInvoiced /\ OnePerCompetencia
    BY CaughtUp, FixedOnce DEF BilledInTurn, CatchUpInv
  <2>2. subject = "change" => LivePeriodsDisjoint /\ NoUnbilledDays
    BY SteadyBills DEF BilledInTurn
  <2>3. OnlyClosedPeriods
    BY DEF BilledInTurn, StaffTyping, Inv
  <2> QED BY <2>1, <2>2, <2>3 DEF EveryDayBilledInTurn
<1> QED BY <1>1, <1>2, <1>3, PTL DEF StaffSpec
-----------------------------------------------------------------------------
\* Requests and the job never replace what they did not read.
LEMMA StaffKeepThePast ==
  ASSUME StartsOnWorkDay, \A v, w \in Staff : v = w
  PROVE  StaffSpec => InvoicesKeepTheirPast
<1>1. StaffInit => AloneInv
  <2> SUFFICES ASSUME StaffInit PROVE AloneInv
    OBVIOUS
  <2>1. Inv
    BY StaffTypingStart DEF StaffTyping
  <2>2. pc = [w \in Workers |-> "idle"] /\ req = [w \in Workers |-> NoRequest]
    BY DEF StaffInit, SteadyInit, InvoicingInit
  <2> QED BY <2>1, <2>2, AloneStart
<1>2. [StaffNext]_<<subject, vars, panelVars>> => [Next]_vars
  BY StaffParts
<1>3. AloneInv /\ [Next]_vars => AloneInv'
  BY AloneStep
<1>4. []AloneInv /\ [][Next]_vars => InvoicesKeepTheirPast
  BY PastKept
<1> QED BY <1>1, <1>2, <1>3, <1>4, PTL DEF StaffSpec

\* The pages, seen alone, take their own steps or rest.
LEMMA PanelPart == StaffSpec => PanelSpec
<1>1. StaffInit => PanelInit
  BY DEF StaffInit
<1>2. [StaffNext]_<<subject, vars, panelVars>> => [PanelNext]_panelVars
  BY StaffParts
<1> QED BY <1>1, <1>2, PTL DEF StaffSpec, PanelSpec

(* All that staff meet, on the terms of StaffBilledInTurn and with one      *)
(* request at a time: invoices are made in their turn and keep their past,  *)
(* and the pages redirect to an end, refuse nothing they offer and show     *)
(* nothing that is no longer allowed.                                       *)
THEOREM StaffHolds ==
  ASSUME SteadyStaff, \A v, w \in Staff : v = w
  PROVE  StaffSpec => /\ [](/\ StaffTypesOK /\ EveryDayBilledInTurn
                            /\ RedirectsEnd /\ NeverWronglyRefused /\ ShownIsCurrent)
                      /\ InvoicesKeepTheirPast
<1>1. StaffSpec => []StaffTypesOK /\ []EveryDayBilledInTurn
  BY StaffTyped, StaffBilledInTurn DEF SteadyStaff
<1>2. StaffSpec => InvoicesKeepTheirPast
  BY StaffKeepThePast DEF SteadyStaff
<1> QED BY <1>1, <1>2, PanelPart, RedirectsAlwaysEnd, NoOneWronglyRefused, ShownIsAllowed, PTL
=============================================================================
