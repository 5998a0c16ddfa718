----------------------------- MODULE MCRegisters -----------------------------
(***************************************************************************)
(* MCRegisters: Registers for TLC, with every table of the table modules,  *)
(* and what is promised of the rows of some.                               *)
(***************************************************************************)
EXTENDS Registers, SalesTables, PlantTables, OfficeTables, StoreTables, TLC

AllTables == SalesTables @@ PlantTables @@ OfficeTables @@ StoreTables

RowMilestones ==
  [quotation |-> {<<"job order", "approved">>},
   jobOrder |-> {<<"approved", "reviewed">>},
   materialRequest |-> {<<"issued", "approved">>, <<"issued", "stock issued">>,
                        <<"closed", "issued">>},
   productionStep |-> {<<"done", "in_progress">>},
   workOrder |-> {<<"completed", "in_progress">>, <<"stopped", "in_progress">>,
                  <<"closed", "in_progress">>},
   subcontractingOrder |-> {<<"second material", "first material">>,
                            <<"posted", "second material">>},
   bomCreator |-> {<<"completed", "sub-assembly BOM">>,
                   <<"sub-assembly BOM", "product BOM">>}]

FinalStatuses ==
  [quotation |-> {"approved", "rejected"},
   jobOrder |-> {"cancelled"},
   materialRequest |-> {"closed", "rejected"},
   productionStep |-> {"done"},
   workOrder |-> {"closed"},
   subcontractingOrder |-> {"posted", "cancelled"},
   bomCreator |-> {"completed"},
   billOfMaterials |-> {"approved"},
   purchaseLineBatch |-> {"rejected"},
   item |-> {"archived"}]

Symmetry == Permutations(Clerk)

=============================================================================
