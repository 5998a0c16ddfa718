---------------------------- MODULE PlantTables ----------------------------
(***************************************************************************)
(* PlantTables: the tables of planning, production, the shop floor,        *)
(* quality and bills of materials, and the handlers that write each.       *)
(* A plan's work orders are in PlanOrders, escalations and the evaluation  *)
(* of inspections in Quality, a bill of materials in DefaultBom.           *)
(***************************************************************************)
EXTENDS Statements

-----------------------------------------------------------------------------
(* Planning.  A number is the count plus one; header, then lines. *)

insertSalesForecast == <<InsertAs("draft"), Lines>>
createSalesForecast == <<Counted>> \o insertSalesForecast
submitSalesForecast == <<Check({"draft"}), SetTo("submitted")>>
salesForecast == Table({"number"}, {createSalesForecast, submitSalesForecast})

insertMaterialRequest == <<InsertAs("draft"), Lines>>
createMaterialRequest == <<Counted>> \o insertMaterialRequest
submitMaterialRequest == <<Check({"draft"}), SetTo("submitted")>>
planningMaterialRequest ==
  Table({"number"}, {createMaterialRequest, submitMaterialRequest})

insertProductionPlan == <<InsertAs("draft"), Lines>>
createProductionPlan == <<Counted>> \o insertProductionPlan
submitProductionPlan == <<Check({"draft"}), SetTo("submitted")>>
productionPlan == Table({"number"}, {createProductionPlan, submitProductionPlan})

insertMps == <<InsertAs("draft"), Lines>>
createMps == <<Counted>> \o insertMps
submitMps == <<Check({"draft"}), SetTo("submitted")>>
masterProductionSchedule == Table({"number"}, {createMps, submitMps})

insertItemLeadTime == <<InsertAs("kept"), Lines>>
createItemLeadTime == <<Unused(Whatever)>> \o insertItemLeadTime
itemLeadTime == Table({"key"}, {createItemLeadTime})

-----------------------------------------------------------------------------
(* Production: a request for material.  Issuing it moves the stock, for    *)
(* which nothing is a key, before the request is marked as issued.         *)

insertRequest == InsertAsAny({"pending_review", "approved"})
createRequest == <<insertRequest>>
approveDeviation == <<Check({"pending_review"}), SetTo("approved")>>
rejectRequest == <<Check({"pending_review", "approved"}), SetTo("rejected")>>
recordIssue == SetTo("issued")

issueRequest == <<Check({"approved"}), Again("stock issued"), recordIssue>>
closeRequest == <<Check({"issued"}), SetTo("closed")>>
materialRequest ==
  Table({}, {createRequest, approveDeviation, rejectRequest, issueRequest, closeRequest})

-----------------------------------------------------------------------------
(* The shop floor *)

insertWorkCenter == InsertAs("active")
createWorkCenter == <<Unused(Whatever), insertWorkCenter>>
workCenter == Table({"key"}, {createWorkCenter})

insertWorkstationType == InsertAs("active")
createWorkstationType == <<Unused(Whatever), insertWorkstationType>>
workstationType == Table({"key"}, {createWorkstationType})

insertOperation == InsertAs("active")
createOperation == <<Unused(Whatever), insertOperation>>
operation == Table({"key"}, {createOperation})

(* A step's sequence is counted in its job order, and is not UNIQUE *)
insertStep == InsertAs("pending")
addStep == <<CountedByKey, insertStep>>
startStep == <<Check({"pending"}), SetTo("in_progress")>>
recordActualTime == SetTo("done")
closeStep == <<Check({"in_progress"}), recordActualTime>>
productionStep == Table({}, {addStep, startStep, closeStep})

(* The step's completed quantity is incremented after the log's insert *)
addTimeLog == <<InsertAs("kept"), Lines>>
productionStepTimeLog == Table({}, {addTimeLog})

insertWorkOrder == InsertAs("not_started")
createWorkOrder == <<Counted, insertWorkOrder>>
recordActualStart == SetTo("in_progress")
startWorkOrder == <<Check({"not_started"}), recordActualStart>>
recordActualEnd == SetTo("completed")
completeWorkOrder == <<Check({"in_progress"}), recordActualEnd>>
stopWorkOrder == <<Check({"in_progress"}), SetTo("stopped")>>
setWorkOrderStatus == SetTo("closed")
closeWorkOrder == <<Check({"completed", "stopped"}), setWorkOrderStatus>>
workOrder ==
  Table({"number"}, {createWorkOrder, startWorkOrder, completeWorkOrder, stopWorkOrder,
                     closeWorkOrder})

(* open while it has no stop_time *)
insertDowntimeEntry == InsertAs("open")
createDowntimeEntry == <<insertDowntimeEntry>>
setStopTime == SetTo("closed")
closeDowntimeEntry == <<Check({"open"}), setStopTime>>
downtimeEntry == Table({}, {createDowntimeEntry, closeDowntimeEntry})

(* Posting creates the entry of the service's cost, whose key is the       *)
(* order's id, if the company has a work-in-progress account, and issues   *)
(* the materials one by one, of which there are two here.                  *)
insertSubcontractingOrder == <<InsertAs("draft"), Lines>>
createSubcontractingOrder == <<Counted>> \o insertSubcontractingOrder
postSubcontractingOrder(entry) ==
  <<Check({"draft"})>> \o entry
    \o <<Again("first material"), Again("second material"), SetTo("posted")>>
cancelSubcontractingOrder == <<Check({"draft", "cancelled"}), SetTo("cancelled")>>
subcontractingOrder ==
  Table({"number"}, {createSubcontractingOrder, postSubcontractingOrder(<<Once("entry")>>),
                     postSubcontractingOrder(<<>>), cancelSubcontractingOrder})

-----------------------------------------------------------------------------
(* Quality.  A check point has one workflow that is pending, and no        *)
(* constraint says so; approving and rejecting look at nothing.            *)

insertWorkflow == InsertAs("pending")
initializeWorkflow == <<Unused({"pending"}), insertWorkflow>>
approveCheckPoint == <<SetTo("approved")>>
rejectCheckPoint == <<SetTo("rejected")>>
qualityWorkflow ==
  Table({}, {initializeWorkflow, approveCheckPoint, rejectCheckPoint})

insertCheckPoint == InsertAs("kept")
createCheckPoint == <<insertCheckPoint>>
qualityCheckPoint == Table({}, {createCheckPoint})

insertSlaRule == InsertAs("kept")
createSlaRule == <<insertSlaRule>>
slaRule == Table({}, {createSlaRule})

insertInspection == <<InsertAs("pending"), Lines>>
createQualityInspection == <<Counted>> \o insertInspection
qualityInspection == Table({"number"}, {createQualityInspection})

-----------------------------------------------------------------------------
(* Drawings, bills of materials, and the drafts they are created from.     *)
(* Versions and defaults of bills of materials are in DefaultBom.          *)

insertDocument == InsertAs("kept")
addDocument == <<insertDocument>>
technicalDocument == Table({}, {addDocument})

insertBomCreator == <<InsertAs("draft"), Lines>>
createBomCreator == <<Counted>> \o insertBomCreator

(* The product's bill of materials, then those of its sub-assemblies, of   *)
(* which there is one here.  A sub-assembly without parts is refused when  *)
(* the loop comes to it, with the product's bill of materials inserted.    *)
generateSubAssemblyBoms == <<Again("sub-assembly BOM")>>
createBoms ==
  <<Check({"draft"}), Again("product BOM")>> \o generateSubAssemblyBoms
    \o <<SetTo("completed")>>
bomCreator == Table({"number"}, {createBomCreator, createBoms})

createBom == <<InsertAs("draft"), Lines>>
approveBom == <<Check({"draft"}), SetTo("approved")>>
billOfMaterials == Table({}, {createBom, approveBom})

-----------------------------------------------------------------------------
PlantTables ==
  [salesForecast |-> salesForecast, planningMaterialRequest |-> planningMaterialRequest,
   productionPlan |-> productionPlan, masterProductionSchedule |-> masterProductionSchedule,
   itemLeadTime |-> itemLeadTime, materialRequest |-> materialRequest,
   workCenter |-> workCenter, workstationType |-> workstationType, operation |-> operation,
   productionStep |-> productionStep, productionStepTimeLog |-> productionStepTimeLog,
   workOrder |-> workOrder, downtimeEntry |-> downtimeEntry,
   subcontractingOrder |-> subcontractingOrder, qualityWorkflow |-> qualityWorkflow,
   qualityCheckPoint |-> qualityCheckPoint, slaRule |-> slaRule,
   qualityInspection |-> qualityInspection, technicalDocument |-> technicalDocument,
   bomCreator |-> bomCreator, billOfMaterials |-> billOfMaterials]

=============================================================================
