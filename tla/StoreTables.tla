----------------------------- MODULE StoreTables -----------------------------
(***************************************************************************)
(* StoreTables: the tables of the catalog and of the stores that say what  *)
(* is there, and the handlers that write each.  How much is there is in    *)
(* Stock, what a landed cost voucher does in LandedCost, the tree of the   *)
(* categories in Trees.                                                    *)
(***************************************************************************)
EXTENDS Statements

-----------------------------------------------------------------------------
(* Catalog: a row, then its names in Arabic and English *)

insertUom == <<InsertAs("active"), Lines>>
createUom == <<Unused(Whatever)>> \o insertUom
uom == Table({"key"}, {createUom})

insertCategory == <<InsertAs("active"), Lines>>
createCategory == <<Unused(Whatever)>> \o insertCategory
itemCategory == Table({"key"}, {createCategory})

(* The item is looked up by its code, and its category as it is now *)
insertItem == <<InsertAs("active"), Lines>>
createItem == <<Unused(Whatever)>> \o insertItem
updateItem == <<Check({"active"}), Lines>>
archiveItem == <<OnlyIf({"active"}), SetTo("archived")>>
item == Table({"key"}, {createItem, updateItem, archiveItem})

insertUomConversion == InsertAs("kept")
createUomConversion == <<Unused(Whatever), insertUomConversion>>
uomConversion == Table({"key"}, {createUomConversion})

-----------------------------------------------------------------------------
(* Stores.  A batch's and a serial number's status is whatever the         *)
(* request says.                                                           *)

insertWarehouse == InsertAs("active")
createWarehouse == <<Unused(Whatever), insertWarehouse>>
warehouse == Table({"key"}, {createWarehouse})

insertBatch == InsertAs("active")
createBatch == <<Unused(Whatever), insertBatch>>
setBatchStatus == <<SetToAny({"active", "expired", "quarantined", "recalled"})>>
itemBatch == Table({"key"}, {createBatch, setBatchStatus})

insertSerial == InsertAs("active")
createSerialNumber == <<Unused(Whatever), insertSerial>>
createSerialNumbersBulk == ForEach(createSerialNumber)
setSerialStatus ==
  <<SetToAny({"active", "delivered", "under_maintenance", "decommissioned"})>>
serialNumber ==
  Table({"key"}, {createSerialNumber, createSerialNumbersBulk, setSerialStatus})

(* The batches of a purchase invoice's line: looked up, and not UNIQUE *)
registerBatches == ForEach(<<Unused(Whatever), InsertAs("pending_inspection")>>)

updateBatchStatus == <<Check({"pending_inspection", "accepted", "quarantined"}),
                       SetToAny({"accepted", "rejected", "quarantined"})>>
purchaseLineBatch == Table({}, {registerBatches, updateBatchStatus})

insertLandedCostVoucher == <<InsertAs("draft"), Lines>>
createLandedCostVoucher == <<Counted>> \o insertLandedCostVoucher
landedCostVoucher == Table({"number"}, {createLandedCostVoucher})

-----------------------------------------------------------------------------
StoreTables ==
  [uom |-> uom, itemCategory |-> itemCategory, item |-> item, uomConversion |-> uomConversion,
   warehouse |-> warehouse, itemBatch |-> itemBatch, serialNumber |-> serialNumber,
   purchaseLineBatch |-> purchaseLineBatch, landedCostVoucher |-> landedCostVoucher]

=============================================================================
