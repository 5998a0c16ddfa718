----------------------------- MODULE PlanOrders -----------------------------
(***************************************************************************)
(* PlanOrders: the work orders of one production plan                      *)
(* (createWorkOrdersFromPlan, planning.service.ts).  The plan is read with *)
(* its items; for each that has no work order, one is created and then the *)
(* item updated to point to it; then the plan is read again.               *)
(***************************************************************************)
EXTENDS Desk, Naturals

CONSTANTS
  PlanItems,   \* the plan has items 1..PlanItems
  MaxOrders    \* bound: work orders created for one item

ASSUME PlanAssumption == PlanItems \in Nat \ {0} /\ MaxOrders \in Nat \ {0}

VARIABLES
  plan,      \* its status
  stored,    \* items that have a finished goods warehouse
  linked,    \* items that point to a work order
  orders,    \* how many work orders were created for each item
  died,      \* whether a request died between its statements
  planning   \* each clerk's request: step, item, and the items it saw linked

planVars == <<plan, stored, linked, orders, died, planning>>

NotPlanning == [at |-> "idle", item |-> 0, seen |-> {}]

PlanOrdersTypeOK ==
  /\ plan \in {"draft", "submitted", "completed"}
  /\ stored \subseteq 1..PlanItems /\ linked \subseteq 1..PlanItems
  /\ orders \in [1..PlanItems -> 0..MaxOrders]
  /\ died \in BOOLEAN
  /\ planning \in [Clerk -> {NotPlanning} \cup
       [at : {"submit", "next", "link", "read", "complete"}, item : 1..(PlanItems + 1),
        seen : SUBSET (1..PlanItems)]]

PlanOrdersInit ==
  /\ plan = "draft"
  /\ stored \in {1..PlanItems, 1..(PlanItems - 1)}
  /\ linked = {}
  /\ orders = [i \in 1..PlanItems |-> 0]
  /\ died = FALSE
  /\ planning = [k \in Clerk |-> NotPlanning]

PlansAt(k, step) == planning' = [planning EXCEPT ![k].at = step]
PlanEnds(k) == planning' = [planning EXCEPT ![k] = NotPlanning]

PlanAsks(k, step) ==
  /\ k \in desk /\ planning[k] = NotPlanning
  /\ planning' = [planning EXCEPT ![k] = [at |-> step, item |-> 1, seen |-> linked]]
  /\ UNCHANGED <<plan, stored, linked, orders, died>>

(* Each reads the plan, and is refused in another status *)
submitPlan(k) == plan = "draft" /\ PlanAsks(k, "submit")
createWorkOrdersFromPlan(k) == plan = "submitted" /\ PlanAsks(k, "next")

(* Mutant: the plan's items are not looked at *)
OrdersAgain(k) ==
  LET i == planning[k].item IN
  /\ planning[k].at = "next"
  /\ IF i > PlanItems THEN PlansAt(k, "read") /\ UNCHANGED orders
     ELSE IF i \notin stored THEN PlanEnds(k) /\ UNCHANGED orders
     ELSE /\ orders[i] < MaxOrders
          /\ orders' = [orders EXCEPT ![i] = @ + 1]
          /\ PlansAt(k, "link")
  /\ UNCHANGED <<plan, stored, linked, died>>

(* The loop: an item seen with a work order is passed over; one without a  *)
(* warehouse refuses the request, whatever was created for those before it *)
createWorkOrderForItem(k) ==
  LET i == planning[k].item IN
  /\ planning[k].at = "next"
  /\ IF i > PlanItems THEN PlansAt(k, "read") /\ UNCHANGED orders
     ELSE IF i \in planning[k].seen
          THEN planning' = [planning EXCEPT ![k].item = i + 1] /\ UNCHANGED orders
     ELSE IF i \notin stored THEN PlanEnds(k) /\ UNCHANGED orders
     ELSE /\ orders[i] < MaxOrders
          /\ orders' = [orders EXCEPT ![i] = @ + 1]
          /\ PlansAt(k, "link")
  /\ UNCHANGED <<plan, stored, linked, died>>

setPpItemWorkOrder(k) ==
  /\ planning[k].at = "link"
  /\ linked' = linked \cup {planning[k].item}
  /\ planning' = [planning EXCEPT ![k].at = "next", ![k].item = @ + 1]
  /\ UNCHANGED <<plan, stored, orders, died>>

ReadsPlanAgain(k) ==
  /\ planning[k].at = "read"
  /\ IF linked = 1..PlanItems THEN PlansAt(k, "complete") ELSE PlanEnds(k)
  /\ UNCHANGED <<plan, stored, linked, orders, died>>

(* By id, whatever its status is by now *)
setProductionPlanStatus(k) ==
  /\ planning[k].at \in {"submit", "complete"}
  /\ plan' = IF planning[k].at = "submit" THEN "submitted" ELSE "completed"
  /\ PlanEnds(k)
  /\ UNCHANGED <<stored, linked, orders, died>>

PlanDies(k) ==
  /\ planning[k] # NotPlanning
  /\ PlanEnds(k)
  /\ died' = TRUE
  /\ UNCHANGED <<plan, stored, linked, orders>>

PlanOrdersNext ==
  \E k \in Clerk :
    \/ submitPlan(k) \/ createWorkOrdersFromPlan(k)
    \/ createWorkOrderForItem(k)
    \/ setPpItemWorkOrder(k)
    \/ ReadsPlanAgain(k)
    \/ setProductionPlanStatus(k)
    \/ PlanDies(k)

-----------------------------------------------------------------------------
(* An item has one work order, which it points to, unless requests         *)
(* overlapped or one died after it had created the order: a request that   *)
(* is refused at a later item can be repeated (planning.service.ts:120     *)
(* -128).  And a completed plan has an order for each of its items.        *)
OneOrderPerItem ==
  /\ plan = "completed" => \A i \in 1..PlanItems : orders[i] > 0
  /\ InTurn /\ ~ died => \A i \in 1..PlanItems : orders[i] <= 1

=============================================================================
