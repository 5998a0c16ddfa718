------------------------------ MODULE TradePages -----------------------------
(***************************************************************************)
(* TradePages: the web pages of accounting, costing, sales, purchasing,    *)
(* delivery, staff and users.  What each is made of is in PageFunctions,   *)
(* what it does in Screens.                                                *)
(***************************************************************************)
EXTENDS PageFunctions

-----------------------------------------------------------------------------
(* Accounting and treasury *)

Accounting_loadData == ByParts
Accounting_loadPeriods == ByParts
Accounting_handleCreateFiscalYear == Plain(Main)
Accounting_handleTogglePeriodStatus == Plain(Details)
Accounting_handleCreateCostCenter == Plain(Main)
Accounting_handlePostJournal == Plain(Main)
AccountingPage ==
  Page({"tells", "chains", "selects"}, Accounting_loadData, Accounting_loadPeriods,
       {Accounting_handleCreateFiscalYear, Accounting_handleTogglePeriodStatus,
        Accounting_handleCreateCostCenter, Accounting_handlePostJournal})

BalanceSheet_loadBalanceSheet == Whole
BalanceSheetPage == Page({"again", "tells"}, BalanceSheet_loadBalanceSheet, NoLoad, {})

TrialBalance_loadTrialBalance == Whole
TrialBalancePage == Page({"again", "tells"}, TrialBalance_loadTrialBalance, NoLoad, {})

(* Loaded for the partner who is selected when the button is pressed       *)
PartnerLedger_loadPartnerLedger == Whole
PartnerLedgerPage ==
  Page({"asked", "again", "tells"}, PartnerLedger_loadPartnerLedger, NoLoad, {})

FixedAssets_loadAssets == Whole
FixedAssets_handleCreateAsset == Plain(Main)
FixedAssets_handlePostDepreciation == Plain(Main)
FixedAssetsPage ==
  Page({"again", "tells"}, FixedAssets_loadAssets, NoLoad,
       {FixedAssets_handleCreateAsset, FixedAssets_handlePostDepreciation})

ProfitAndLoss_loadReport == ClearsLast(Whole)
ProfitAndLossPage ==
  Page({"asked", "again", "waits", "tells"}, ProfitAndLoss_loadReport, NoLoad, {})

PaymentEntry_loadPayments == ClearsLast(Whole)
PaymentEntry_handleSubmit == Plain(Main)
PaymentEntry_handlePost == Plain(Main)
PaymentEntryPage ==
  Page({"tells"}, PaymentEntry_loadPayments, NoLoad,
       {PaymentEntry_handleSubmit, PaymentEntry_handlePost})

PurchaseOrder_loadAll == ByParts
PurchaseOrder_handleSubmit == WipesFirst(Form(Main))
PurchaseOrder_handlePost == Plain(Main)
PurchaseOrderPage ==
  Page({"again", "tells"}, PurchaseOrder_loadAll, NoLoad,
       {PurchaseOrder_handleSubmit, PurchaseOrder_handlePost})

SalesInvoice_loadAll == ByParts
SalesInvoice_handleSubmit == WipesFirst(Form(Main))
SalesInvoice_handlePost == Plain(Main)
SalesInvoicePage ==
  Page({"again", "tells"}, SalesInvoice_loadAll, NoLoad,
       {SalesInvoice_handleSubmit, SalesInvoice_handlePost})

(* The expense is added to the rows shown, posted or not                   *)
Expenses_fetchJOs == ByParts
Expenses_handleCreateExpense == Deaf(Form(<<>>))
ExpensesPage == Page({}, Expenses_fetchJOs, NoLoad, {Expenses_handleCreateExpense})

-----------------------------------------------------------------------------
(* Costing *)

Costing_loadAll == ByParts
Costing_loadJoCostData == ByParts
CostingPage ==
  Page({"again", "tells", "chains", "selects"}, Costing_loadAll, Costing_loadJoCostData, {})

OverheadAllocation_loadData == ClearsLast(ByParts)
OverheadAllocationPage == Page({"tells"}, OverheadAllocation_loadData, NoLoad, {})

-----------------------------------------------------------------------------
(* Sales, prices, purchasing and delivery *)

Sales_loadAll == Whole
Sales_handleCreateCustomer == Form(Main)
Sales_handleCreateQuotation == Form(Main)
Sales_handleApproveQuotation == Form(Main)
Sales_handlePassFinancialReview == Row(Main)
Sales_handleApproveJobOrder == Row(Main)
SalesPage ==
  Page({"again"}, Sales_loadAll, NoLoad,
       {Sales_handleCreateCustomer, Sales_handleCreateQuotation, Sales_handleApproveQuotation,
        Sales_handlePassFinancialReview, Sales_handleApproveJobOrder})

Quotation_loadAll == Mixed
Quotation_handleCreate == Form(Main)
Quotation_handleAction == OnPage(Row(Main))
Quotation_handleApprove == OnPage(Form(Main))
QuotationPage ==
  Page({"again", "hides", "tells"}, Quotation_loadAll, NoLoad,
       {Quotation_handleCreate, Quotation_handleAction, Quotation_handleApprove})

ItemPrice_loadItems == Whole
ItemPrice_loadItemPrices == ByParts
ItemPrice_handleSubmit == Form(Details)
ItemPricePage ==
  Page({"again", "hides", "tells", "chains", "first", "selects"},
       ItemPrice_loadItems, ItemPrice_loadItemPrices,
       {ItemPrice_handleSubmit})

PurchaseReceipt_loadAll == NeverClears(Mixed)
PurchaseReceipt_handleSubmit == Form(Main)
PurchaseReceiptPage ==
  Page({"again", "hides", "tells"}, PurchaseReceipt_loadAll, NoLoad,
       {PurchaseReceipt_handleSubmit})

Delivery_loadAll == Whole
Delivery_loadJoOrders == ByParts
Delivery_handleCreateOrder == Form(Details)
Delivery_handleCreateReceipt == Form(Details)
DeliveryPage ==
  Page({"again", "chains", "selects"}, Delivery_loadAll, Delivery_loadJoOrders,
       {Delivery_handleCreateOrder, Delivery_handleCreateReceipt})

-----------------------------------------------------------------------------
(* Staff, users and the organization *)

Hr_loadAll == Whole
Hr_handleCreateEmployee == Form(Main)
Hr_handleCreateRule == Form(Main)
Hr_handleGeneratePayroll == Form(Main)
HrPage ==
  Page({"again"}, Hr_loadAll, NoLoad,
       {Hr_handleCreateEmployee, Hr_handleCreateRule, Hr_handleGeneratePayroll})

Attendance_loadEmployees == NeverClears(ByParts)
AttendancePage == Page({"hides", "tells"}, Attendance_loadEmployees, NoLoad, {})

(* Saving a leave or an attendance sends nothing                           *)
LeaveApplication_loadEmployees == ByParts
LeaveApplicationPage == Page({}, LeaveApplication_loadEmployees, NoLoad, {})

Auth_loadAll == Whole
Auth_handleCreateUser == Form(Main)
Auth_handleCreateRole == Form(Main)
Auth_handleCreatePermission == Form(Main)
AuthPage ==
  Page({"again"}, Auth_loadAll, NoLoad,
       {Auth_handleCreateUser, Auth_handleCreateRole, Auth_handleCreatePermission})

Organization_loadAll == Whole
Organization_handleCreateNode == Form(Main)
Organization_handleArchiveNode == Row(Main)
OrganizationPage ==
  Page({"again"}, Organization_loadAll, NoLoad,
       {Organization_handleCreateNode, Organization_handleArchiveNode})

-----------------------------------------------------------------------------
TradePageSet ==
  {AccountingPage, BalanceSheetPage, TrialBalancePage, PartnerLedgerPage, FixedAssetsPage,
   ProfitAndLossPage, PaymentEntryPage, PurchaseOrderPage, SalesInvoicePage, ExpensesPage,
   CostingPage, OverheadAllocationPage, SalesPage, QuotationPage, ItemPricePage,
   PurchaseReceiptPage, DeliveryPage, HrPage, AttendancePage, LeaveApplicationPage, AuthPage,
   OrganizationPage}

=============================================================================
