---------------------------- MODULE OfficeTables ----------------------------
(***************************************************************************)
(* OfficeTables: the tables of accounting (but for the journal), taxes,    *)
(* staff, costing, users, settings and the audit trail, and the handlers   *)
(* that write each.  The runs of Depreciation, Payroll, Allocation and     *)
(* Tranches are in those modules.                                          *)
(***************************************************************************)
EXTENDS Statements

-----------------------------------------------------------------------------
(* Accounting: master data with a code of its own *)

insertAccountType == InsertAs("kept")
createAccountType == <<Unused(Whatever), insertAccountType>>
accountType == Table({"key"}, {createAccountType})

(* The year, then its twelve periods; the name is UNIQUE, not looked up *)
insertFiscalYear == InsertAs("open")
createFiscalYear == <<insertFiscalYear, Lines>>
closeFiscalYear == <<SetTo("closed")>>
fiscalYear == Table({"key"}, {createFiscalYear, closeFiscalYear})

insertCostCenter == InsertAs("active")
createCostCenter == <<Unused(Whatever), insertCostCenter>>
costCenter == Table({"key"}, {createCostCenter})

(* Updated when there is one, inserted when there is none *)
upsertCompanyConfig == <<OrReuse, InsertAs("kept")>>
companyAccountingConfig == Table({"key"}, {upsertCompanyConfig})

insertAccountDetermination == InsertAs("kept")
createAccountDetermination == <<insertAccountDetermination>>
accountDetermination == Table({}, {createAccountDetermination})

insertFixedAsset == InsertAs("active")
createFixedAsset == <<Unused(Whatever), insertFixedAsset>>
fixedAsset == Table({"key"}, {createFixedAsset})

(* The entry that settles a month's VAT: createEntry, refused when the     *)
(* month's idempotency key is in use, and postEntry (numbers and checks    *)
(* are in Journal)                                                         *)
postVatSettlement == <<InsertAs("draft"), Lines, SetTo("posted")>>
vatSettlement == Table({"key"}, {postVatSettlement})

-----------------------------------------------------------------------------
(* Accruals, prepaid expenses and provisions: the last digits of the clock *)
(* are the number.  Nothing defines createManualJournalEntry, so the id    *)
(* of the entry is a made-up one, which the uuid column refuses.           *)

createAccrual == <<Drawn, InsertAs("accrued")>>
postAccrual == <<Check({"accrued"}), UpdateFails>>
reverseAccrual == <<UpdateFails>>
accruedExpense == Table({"number"}, {createAccrual, postAccrual, reverseAccrual})

createPrepaid == <<Drawn, InsertAs("active")>>
prepaidExpense == Table({"number"}, {createPrepaid})

createProvision == <<Drawn, InsertAs("active")>>
warrantyProvision == Table({"number"}, {createProvision})

(* Taxes and customs, with the same made-up ids; paying needs none *)
createTaxSettlement == <<Drawn, InsertFails>>
payTaxSettlement == <<Check({"draft", "filed"}), SetTo("paid")>>
taxSettlement == Table({"number"}, {createTaxSettlement, payTaxSettlement})

createWhtEntry == <<Drawn, InsertAs("recorded")>>
withholdingTaxEntry == Table({"number"}, {createWhtEntry})

createCustomsDeclaration == <<InsertFails>>
capitalizeCustomsToInventory == <<UpdateFails>>
customsDeclaration ==
  Table({"key"}, {createCustomsDeclaration, capitalizeCustomsToInventory})

-----------------------------------------------------------------------------
(* Staff *)

insertEmployee == InsertAs("active")
createEmployee == <<Unused(Whatever), insertEmployee>>
employee == Table({"key"}, {createEmployee})

insertCommissionRule == InsertAs("active")
createCommissionRule == <<insertCommissionRule>>
commissionRule == Table({}, {createCommissionRule})

insertExternalCommission == InsertAs("pending")
createExternalCommission == <<insertExternalCommission>>
externalCommission == Table({}, {createExternalCommission})

-----------------------------------------------------------------------------
(* Costing.  A job order's cost sheet is made when it is first asked for;  *)
(* an entry is a line of the sheet.                                        *)

insertComponentType == InsertAs("active")
createComponentType == <<Unused(Whatever), insertComponentType>>
costComponentType == Table({"key"}, {createComponentType})

insertCostSheet == InsertAs("draft")
getOrCreateCostSheet == <<OrReuse, insertCostSheet>>
insertCostEntry == Lines
addCostEntry == <<insertCostEntry>>
addMaterialCost == getOrCreateCostSheet \o addCostEntry
addLaborCost == getOrCreateCostSheet \o addCostEntry
jobCostSheet ==
  Table({"key"}, {getOrCreateCostSheet, addCostEntry, addMaterialCost, addLaborCost})

insertPool == InsertAs("draft")
createPool == <<Unused(Whatever), insertPool>>
costPool == Table({"key"}, {createPool})

-----------------------------------------------------------------------------
(* Users and their roles, the companies' profiles, the audit trail *)

insertRole == InsertAs("active")
createRole == <<Unused(Whatever), insertRole>>
role == Table({"key"}, {createRole})

insertPermission == InsertAs("kept")
grantPermission == <<insertPermission>>
permission == Table({}, {grantPermission})

insertUser == InsertAs("active")
createUser == <<Unused(Whatever), insertUser>>
systemUser == Table({"key"}, {createUser})

upsert == <<OrReuse, InsertAs("kept")>>
upsertCompanyProfile == upsert
companyProfile == Table({"key"}, {upsertCompanyProfile})

logAction == <<InsertAs("kept")>>
auditLog == Table({}, {logAction})

-----------------------------------------------------------------------------
OfficeTables ==
  [accountType |-> accountType, fiscalYear |-> fiscalYear, costCenter |-> costCenter,
   companyAccountingConfig |-> companyAccountingConfig,
   accountDetermination |-> accountDetermination, fixedAsset |-> fixedAsset,
   vatSettlement |-> vatSettlement,
   accruedExpense |-> accruedExpense, prepaidExpense |-> prepaidExpense,
   warrantyProvision |-> warrantyProvision, taxSettlement |-> taxSettlement,
   withholdingTaxEntry |-> withholdingTaxEntry, customsDeclaration |-> customsDeclaration,
   employee |-> employee, commissionRule |-> commissionRule,
   externalCommission |-> externalCommission, costComponentType |-> costComponentType,
   jobCostSheet |-> jobCostSheet, costPool |-> costPool, role |-> role,
   permission |-> permission, systemUser |-> systemUser, companyProfile |-> companyProfile,
   auditLog |-> auditLog]

=============================================================================
