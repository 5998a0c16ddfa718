------------------------------ MODULE PlantPages -----------------------------
(***************************************************************************)
(* PlantPages: the web pages of stock, engineering, planning, production,  *)
(* quality and the reports.  What each is made of is in PageFunctions,     *)
(* what it does in Screens.                                                *)
(***************************************************************************)
EXTENDS PageFunctions

-----------------------------------------------------------------------------
(* Stock *)

Inventory_loadAll == ByParts
Inventory_handleCreateItem == Plain(Main)
Inventory_handleCreateWarehouse == Plain(Main)
Inventory_handleCreateBatch == Plain(Main)
Inventory_handleUpdateBatchStatus == Plain(Main)
Inventory_handleGenerateBulkSerials == Plain(Main)
InventoryPage ==
  Page({"again", "tells"}, Inventory_loadAll, NoLoad,
       {Inventory_handleCreateItem, Inventory_handleCreateWarehouse,
        Inventory_handleCreateBatch, Inventory_handleUpdateBatchStatus,
        Inventory_handleGenerateBulkSerials})

StockEntry_loadAll == Whole
StockEntry_handleSubmit == OnceOrTwice(Form(Main))
StockEntryPage ==
  Page({"again", "hides", "tells"}, StockEntry_loadAll, NoLoad,
       {StockEntry_handleSubmit})

StockLedger_loadAll == Mixed
StockLedgerPage == Page({"again", "hides", "tells"}, StockLedger_loadAll, NoLoad, {})

StockReconciliation_loadAll == ByParts
StockReconciliation_handleSubmit == WipesFirst(Form(Main))
StockReconciliationPage ==
  Page({"again", "tells"}, StockReconciliation_loadAll, NoLoad,
       {StockReconciliation_handleSubmit})

Material_loadAll == Whole
Material_handleCreateRequest == Form(Main)
Material_handleApproveDeviation == Form(Main)
Material_handleIssueStock == Row(Main)
MaterialPage ==
  Page({"again"}, Material_loadAll, NoLoad,
       {Material_handleCreateRequest, Material_handleApproveDeviation,
        Material_handleIssueStock})

-----------------------------------------------------------------------------
(* Designs and bills of materials *)

Technical_loadAll == Whole
Technical_handleCreateDoc == Form(Main)
Technical_handleCreateBom == Form(Main)
Technical_handleApproveBom == Row(Main)
TechnicalPage ==
  Page({"again"}, Technical_loadAll, NoLoad,
       {Technical_handleCreateDoc, Technical_handleCreateBom, Technical_handleApproveBom})

Bom_loadAll == Whole
Bom_handleCreateBom == Form(Main)
Bom_handleApproveBom == Row(Main)
BomPage == Page({"again"}, Bom_loadAll, NoLoad, {Bom_handleCreateBom, Bom_handleApproveBom})

BomCreator_loadAll == Whole
BomCreator_handleCreate == Form(Main)
BomCreator_handleCreateBoms == Row(Main)
BomCreatorPage ==
  Page({"again", "hides", "tells"}, BomCreator_loadAll, NoLoad,
       {BomCreator_handleCreate, BomCreator_handleCreateBoms})

BomUpdateTool_loadAll == Whole
BomUpdateTool_handleReplace == WipesFirst(Form(<<>>))
BomUpdateToolPage ==
  Page({"again", "hides", "tells"}, BomUpdateTool_loadAll, NoLoad,
       {BomUpdateTool_handleReplace})

-----------------------------------------------------------------------------
(* Planning *)

SalesForecast_loadAll == Whole
SalesForecast_handleCreate == Form(Main)
SalesForecast_handleSubmitForecast == Row(Main)
SalesForecastPage ==
  Page({"again", "hides", "tells"}, SalesForecast_loadAll, NoLoad,
       {SalesForecast_handleCreate, SalesForecast_handleSubmitForecast})

(* A window over the forecasts: it saves the rows it shows                 *)
PeriodLines_openPeriodModal == ByParts
PeriodLines_savePeriodLines == Form(<<>>)
PeriodLinesPage ==
  Page({"asked", "selects"}, NoLoad, PeriodLines_openPeriodModal,
       {PeriodLines_savePeriodLines})

MaterialRequest_loadAll == Whole
MaterialRequest_handleCreate == Form(Main)
MaterialRequest_handleSubmitRequest == Row(Main)
MaterialRequestPage ==
  Page({"again", "hides", "tells"}, MaterialRequest_loadAll, NoLoad,
       {MaterialRequest_handleCreate, MaterialRequest_handleSubmitRequest})

ProductionPlan_loadAll == Whole
ProductionPlan_handleCreate == Form(Main)
ProductionPlan_handleAction == Form(Main)
ProductionPlanPage ==
  Page({"again", "tells"}, ProductionPlan_loadAll, NoLoad,
       {ProductionPlan_handleCreate, ProductionPlan_handleAction})

Mps_loadAll == Whole
Mps_handleCreate == Form(Main)
Mps_handleSubmit == Row(Main)
Mps_handleGetProjected == Row(Main)
MpsPage ==
  Page({"again", "hides", "tells"}, Mps_loadAll, NoLoad,
       {Mps_handleCreate, Mps_handleSubmit, Mps_handleGetProjected})

ItemLeadTime_loadAll == Mixed
ItemLeadTime_handleCreate == Form(Main)
ItemLeadTimePage ==
  Page({"again", "hides", "tells"}, ItemLeadTime_loadAll, NoLoad,
       {ItemLeadTime_handleCreate})

-----------------------------------------------------------------------------
(* Production and quality *)

Manufacturing_loadAll == Whole
ManufacturingPage == Page({"again", "hides", "tells"}, Manufacturing_loadAll, NoLoad, {})

Setup_loadAll == Whole
Setup_handleCreateWs == Form(Main)
Setup_handleCreateOp == Form(Main)
SetupPage ==
  Page({"hides", "tells"}, Setup_loadAll, NoLoad,
       {Setup_handleCreateWs, Setup_handleCreateOp})

WorkOrder_loadAll == Whole
WorkOrder_handleCreate == Form(Main)
WorkOrder_handleTransition == Row(Main)
WorkOrderPage ==
  Page({"again", "hides", "tells"}, WorkOrder_loadAll, NoLoad,
       {WorkOrder_handleCreate, WorkOrder_handleTransition})

ProductionOps_loadAll == Whole
ProductionOps_loadJoData == ByParts
ProductionOps_handleCreateWc == Form(MainAndDetails)
ProductionOps_handleCreateStep == Form(Details)
ProductionOps_handleStartStep == Row(Details)
ProductionOps_handleCompleteStep == Form(Details)
ProductionOps_handleAddTimeLog == Form(Details)
ProductionOpsPage ==
  Page({"again", "hides", "tells", "chains", "selects"},
       ProductionOps_loadAll, ProductionOps_loadJoData,
       {ProductionOps_handleCreateWc, ProductionOps_handleCreateStep,
        ProductionOps_handleStartStep, ProductionOps_handleCompleteStep,
        ProductionOps_handleAddTimeLog})

(* The rows of a window over the steps: its form is the page's own         *)
TimeLogs_openLogsForStep == ByParts
TimeLogsPage == Page({"asked", "selects"}, NoLoad, TimeLogs_openLogsForStep, {})

DowntimeEntry_loadAll == Whole
DowntimeEntry_handleCreate == Form(Main)
DowntimeEntry_handleClose == Row(Main)
DowntimeEntryPage ==
  Page({"hides", "tells"}, DowntimeEntry_loadAll, NoLoad,
       {DowntimeEntry_handleCreate, DowntimeEntry_handleClose})

(* Its handlers edit the rows shown themselves                             *)
Quality_loadAll == ByParts
Quality_handleCreateInspection == Plain(<<>>)
Quality_handleSaveEvaluation == Plain(<<>>)
QualityPage ==
  Page({"again", "tells"}, Quality_loadAll, NoLoad,
       {Quality_handleCreateInspection, Quality_handleSaveEvaluation})

-----------------------------------------------------------------------------
(* Reports: they only load *)

ReportBomOperationsTime_loadAll == Whole
ReportBomOperationsTimePage ==
  Page({"again", "hides", "tells"}, ReportBomOperationsTime_loadAll, NoLoad, {})

ReportBomSearch_loadAll == Whole
ReportBomSearchPage == Page({"again", "hides", "tells"}, ReportBomSearch_loadAll, NoLoad, {})

ReportConsumedMaterials_loadAll == Whole
ReportConsumedMaterialsPage ==
  Page({"again", "hides", "tells"}, ReportConsumedMaterials_loadAll, NoLoad, {})

ReportDowntimeAnalysis_loadAll == Whole
ReportDowntimeAnalysisPage ==
  Page({"again", "hides", "tells"}, ReportDowntimeAnalysis_loadAll, NoLoad, {})

ReportForecasting_loadAll == Whole
ReportForecastingPage ==
  Page({"again", "hides", "tells"}, ReportForecasting_loadAll, NoLoad, {})

ReportJobCardSummary_loadAll == Whole
ReportJobCardSummaryPage ==
  Page({"again", "hides", "tells"}, ReportJobCardSummary_loadAll, NoLoad, {})

ReportProductionAnalytics_loadAll == Whole
ReportProductionAnalyticsPage ==
  Page({"again", "hides", "tells"}, ReportProductionAnalytics_loadAll, NoLoad, {})

ReportProductionPlanning_loadAll == Whole
ReportProductionPlanningPage ==
  Page({"again", "hides", "tells"}, ReportProductionPlanning_loadAll, NoLoad, {})

ReportWorkOrderSummary_loadAll == Whole
ReportWorkOrderSummaryPage ==
  Page({"again", "hides", "tells"}, ReportWorkOrderSummary_loadAll, NoLoad, {})

-----------------------------------------------------------------------------
PlantPageSet ==
  {InventoryPage, StockEntryPage, StockLedgerPage, StockReconciliationPage, MaterialPage,
   TechnicalPage, BomPage, BomCreatorPage, BomUpdateToolPage, SalesForecastPage,
   PeriodLinesPage, MaterialRequestPage, ProductionPlanPage, MpsPage, ItemLeadTimePage,
   ManufacturingPage, SetupPage, WorkOrderPage, ProductionOpsPage, TimeLogsPage,
   DowntimeEntryPage, QualityPage, ReportBomOperationsTimePage, ReportBomSearchPage,
   ReportConsumedMaterialsPage, ReportDowntimeAnalysisPage, ReportForecastingPage,
   ReportJobCardSummaryPage, ReportProductionAnalyticsPage, ReportProductionPlanningPage,
   ReportWorkOrderSummaryPage}

=============================================================================
