----------------------------- MODULE BackOffice -----------------------------
(***************************************************************************)
(* BackOffice: the office modules under one specification for TLC.  They   *)
(* share no state: a behaviour is one office's, at which one clerk or all  *)
(* of them are at work.                                                    *)
(***************************************************************************)
EXTENDS Payroll, Tranches, Depreciation, LandedCost, Allocation, DefaultBom, PlanOrders,
        Trees, Quality, Screens, TLC

VARIABLE office   \* where the behaviour takes place

vars == <<desk, office, payrollVars, trancheVars, depreciationVars, landedVars,
          allocationVars, bomVars, planVars, treeVars, qualityVars,
          screenVars>>

-----------------------------------------------------------------------------
Init ==
  /\ DeskInit
  /\ office \in {"payroll", "tranches", "depreciation", "landed cost", "allocation", "boms",
                 "plans", "trees", "escalations", "inspections", "pages"}
  /\ PayrollInit
  /\ TranchesInit
  /\ DepreciationInit
  /\ LandedCostInit
  /\ AllocationInit
  /\ DefaultBomInit
  /\ PlanOrdersInit
  /\ TreesInit
  /\ QualityInit
  /\ ScreensInit
  /\ office # "depreciation" => asset.cost = 0
  /\ office # "plans" => stored = 1..PlanItems
  /\ office # "trees" => kind = "org_node"
  /\ office # "inspections" => belongs = [p \in Parameter |-> "no row"]
  /\ office # "pages" => page = AccountingPage

Next ==
  /\ IF office = "payroll" THEN PayrollNext ELSE UNCHANGED payrollVars
  /\ IF office = "tranches" THEN TranchesNext ELSE UNCHANGED trancheVars
  /\ IF office = "depreciation" THEN DepreciationNext ELSE UNCHANGED depreciationVars
  /\ IF office = "landed cost" THEN LandedCostNext ELSE UNCHANGED landedVars
  /\ IF office = "allocation" THEN AllocationNext ELSE UNCHANGED allocationVars
  /\ IF office = "boms" THEN DefaultBomNext ELSE UNCHANGED bomVars
  /\ IF office = "plans" THEN PlanOrdersNext ELSE UNCHANGED planVars
  /\ IF office = "trees" THEN TreesNext ELSE UNCHANGED treeVars
  /\ IF office = "escalations" THEN EscalationNext
     ELSE IF office = "inspections" THEN InspectionNext ELSE UNCHANGED qualityVars
  /\ IF office = "pages" THEN ScreensNext ELSE UNCHANGED screenVars
  /\ UNCHANGED <<desk, office>>

Spec == Init /\ [][Next]_vars

Symmetry ==
  Permutations(Clerk) \cup Permutations(Inspection) \cup Permutations(Parameter)

-----------------------------------------------------------------------------
(* The variables of the office have their types. *)
BackOfficeTypeOK ==
  /\ office = "payroll" => PayrollTypeOK
  /\ office = "tranches" => TranchesTypeOK
  /\ office = "depreciation" => DepreciationTypeOK
  /\ office = "landed cost" => LandedCostTypeOK
  /\ office = "allocation" => AllocationTypeOK
  /\ office = "boms" => DefaultBomTypeOK
  /\ office = "plans" => PlanOrdersTypeOK
  /\ office = "trees" => TreesTypeOK
  /\ office \in {"escalations", "inspections"} => QualityTypeOK
  /\ office = "pages" => ScreensTypeOK

=============================================================================
