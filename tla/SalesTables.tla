----------------------------- MODULE SalesTables -----------------------------
(***************************************************************************)
(* SalesTables: the tables of customers, sales, delivery and finance, and  *)
(* the handlers that write each.  The posting of the financial documents   *)
(* is in Documents, the release of a retention in Tranches.                *)
(***************************************************************************)
EXTENDS Statements

-----------------------------------------------------------------------------
(* Suppliers and customers: a code of their own, looked up before the      *)
(* insert.  A quotation's approval promotes its customer too.              *)

insertSupplier == InsertAs("active")
createSupplier == <<Unused(Whatever), insertSupplier>>
supplier == Table({"key"}, {createSupplier})

insertCustomer == InsertAsAny({"lead", "active", "inactive", "archived"})
createCustomer == <<Unused(Whatever), insertCustomer>>
setCustomerStatus == SetTo("active")
promoteToActive == <<OnlyIf({"lead"}), setCustomerStatus>>
customer == Table({"key"}, {createCustomer, promoteToActive})

insertInteraction == InsertAs("kept")
logInteraction == <<insertInteraction>>
customerInteraction == Table({}, {logInteraction})

-----------------------------------------------------------------------------
(* Quotations: one count for both directions, each with its own prefix.    *)
(* Approving an outgoing one creates its job order after it is approved.   *)

insertQuotation(direction) == <<InsertWith(direction, "draft"), Lines>>
createQuotation(direction) == <<Counted>> \o insertQuotation(direction)
setQuotationStatus(status) == SetTo(status)
sendQuotation == <<Check({"draft"}), setQuotationStatus("sent")>>
approveQuotation ==
  <<Check({"draft", "sent"}), setQuotationStatus("approved"), OnlyWith("outgoing"),
    Again("job order")>>

(* rejected again is no error *)
rejectQuotation ==
  <<Check({"draft", "sent", "rejected"}), setQuotationStatus("rejected")>>
quotation ==
  Table({"number"}, {createQuotation("outgoing"), createQuotation("incoming"),
                     sendQuotation, approveQuotation, rejectQuotation})

(* Job orders: the financial review is a mark beside the status.  Nothing  *)
(* completes a job order, so cancelling refuses none.                      *)

insertJobOrder == InsertAs("draft")
createJobOrder == <<Counted, insertJobOrder>>
setJobOrderFinancialReview == MarkAs("reviewed")
passFinancialReview == <<Check({"draft"}), setJobOrderFinancialReview>>
setJobOrderStatus(status) == SetTo(status)

approveJobOrder ==
  <<CheckMarked({"draft"}, "reviewed"), setJobOrderStatus("approved")>>
cancelJobOrder == <<Check({"draft", "approved", "cancelled"}),
                    setJobOrderStatus("cancelled")>>
jobOrder ==
  Table({"number"}, {createJobOrder, passFinancialReview, approveJobOrder, cancelJobOrder})

(* Serial numbers on an invoice line: the look-up accepts a returned one,  *)
(* no constraint does                                                      *)
allocateSerials == ForEach(<<Unused({"allocated", "warranty_active"}),
                             InsertAs("allocated")>>)
activateWarranty == <<SetTo("warranty_active")>>
salesLineSerial == Table({}, {allocateSerials, activateWarranty})

-----------------------------------------------------------------------------
(* Delivery.  A delivery order's number is counted among those of its job  *)
(* order on that day, and is UNIQUE among all; an update sets any status.  *)

insertDeliveryOrder == InsertAs("scheduled")
createDeliveryOrder == <<CountedByKey, insertDeliveryOrder>>
updateDeliveryOrder == <<SetToAny({"scheduled", "in_transit", "delivered", "cancelled"})>>
deliveryOrder == Table({"number"}, {createDeliveryOrder, updateDeliveryOrder})

insertInstallation == InsertAs("scheduled")
createInstallation == <<insertInstallation>>
updateInstallation == <<SetToAny({"scheduled", "in_progress", "completed", "cancelled"})>>
installation == Table({}, {createInstallation, updateInstallation})

insertDeliveryReceipt == InsertAs("kept")
createDeliveryReceipt == <<Drawn, insertDeliveryReceipt>>
deliveryReceipt == Table({"number"}, {createDeliveryReceipt})

insertInstallationReport == InsertAs("kept")
createInstallationReport == <<Drawn, insertInstallationReport>>
installationReport == Table({"number"}, {createInstallationReport})

-----------------------------------------------------------------------------
(* Finance: a counted number each.  A collection is there before its       *)
(* journal entry, whose key is the collection's id, and which it has only  *)
(* if both accounts are known.                                             *)

insertCollection == InsertAs("completed")

recordCollection(entry) == <<Counted, insertCollection>> \o entry
collection ==
  Table({"number"}, {recordCollection(<<Once("entry")>>), recordCollection(<<>>)})

insertRetention == InsertAs("active")
createRetention == <<Counted, insertRetention>>
retention == Table({"number"}, {createRetention})

(* The key is the supplier's invoice number, not looked up *)
insertPurchaseInvoice == <<InsertAs("draft"), Lines>>
createPurchaseInvoice == <<Counted>> \o insertPurchaseInvoice
purchaseInvoice == Table({"number", "key"}, {createPurchaseInvoice})

insertSalesInvoice == <<InsertAs("draft"), Lines>>
createSalesInvoice == <<Counted>> \o insertSalesInvoice
salesInvoice == Table({"number"}, {createSalesInvoice})

insertPayment == InsertAs("draft")
createPayment == <<Counted, insertPayment>>
payment == Table({"number"}, {createPayment})

insertCreditDebitNote(noteType) == <<InsertWith(noteType, "draft"), Lines>>
createCreditDebitNote(noteType) == <<Counted>> \o insertCreditDebitNote(noteType)
creditDebitNote ==
  Table({"number"}, {createCreditDebitNote("credit"), createCreditDebitNote("debit")})

insertBankTransfer == InsertAs("draft")
createBankTransfer == <<Counted, insertBankTransfer>>
bankTransfer == Table({"number"}, {createBankTransfer})

insertBankReconciliation == InsertAs("reconciled")
createBankReconciliation == <<Counted, insertBankReconciliation>>
bankReconciliation == Table({"number"}, {createBankReconciliation})

-----------------------------------------------------------------------------
SalesTables ==
  [supplier |-> supplier, customer |-> customer, customerInteraction |-> customerInteraction,
   quotation |-> quotation, jobOrder |-> jobOrder, salesLineSerial |-> salesLineSerial,
   deliveryOrder |-> deliveryOrder, installation |-> installation,
   deliveryReceipt |-> deliveryReceipt, installationReport |-> installationReport,
   collection |-> collection, retention |-> retention, purchaseInvoice |-> purchaseInvoice,
   salesInvoice |-> salesInvoice, payment |-> payment, creditDebitNote |-> creditDebitNote,
   bankTransfer |-> bankTransfer, bankReconciliation |-> bankReconciliation]

=============================================================================
