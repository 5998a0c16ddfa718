----------------------------- MODULE PlantProofs -----------------------------
(***************************************************************************)
(* What the plans', the trees' and the quality office keep, for any        *)
(* clerks, items, nodes, workflows and parameters.                         *)
(***************************************************************************)
EXTENDS BackOffice, Sums

-----------------------------------------------------------------------------
(* Work orders of a plan *)

PlanStep == {"submit", "next", "link", "read", "complete"}
Planning == [at : PlanStep, item : 1..(PlanItems + 1), seen : SUBSET (1..PlanItems)]

(* In turn, and with no death, an item has no more than one order, and one *)
(* that it does not point to is about to be linked.  The items that are    *)
(* linked from the request's item on were linked when it read the plan.    *)
PlanOrdersInv ==
  /\ PlanOrdersTypeOK
  /\ \A k \in Clerk : planning[k] # NotPlanning => k \in desk
  /\ \A i \in linked : orders[i] > 0
  /\ plan = "completed" => linked = 1..PlanItems
  /\ \A k \in Clerk :
       /\ planning[k].at = "link" => planning[k].item <= PlanItems /\ orders[planning[k].item] > 0
       /\ planning[k].at = "complete" => linked = 1..PlanItems
  /\ InTurn /\ ~ died =>
       /\ \A i \in 1..PlanItems :
            /\ orders[i] <= 1
            /\ orders[i] = 1 /\ i \notin linked =>
                 \E k \in Clerk : planning[k].at = "link" /\ planning[k].item = i
       /\ \A k \in Clerk : planning[k].at \in {"next", "link"} =>
            \A i \in 1..PlanItems : i \in linked /\ i >= planning[k].item => i \in planning[k].seen
       /\ \A k \in Clerk : planning[k].at = "link" => planning[k].item \notin planning[k].seen

(* One request's step: what remains to be shown is what it knows, and, in  *)
(* turn, that no order but its own is without a link.                      *)
LEMMA PlanGoesOn ==
  ASSUME PlanOrdersInv, UNCHANGED <<desk, stored>>, NEW k \in Clerk, k \in desk,
         planning' \in [Clerk -> {NotPlanning} \cup Planning],
         \A j \in Clerk : j # k => planning'[j] = planning[j],
         plan' \in {"draft", "submitted", "completed"}, died' \in BOOLEAN,
         linked \subseteq linked', linked' \subseteq 1..PlanItems,
         orders' \in [1..PlanItems -> 0..MaxOrders],
         \A i \in 1..PlanItems : orders[i] <= orders'[i],
         \A i \in linked' : orders'[i] > 0,
         plan' = "completed" => linked' = 1..PlanItems,
         NEW p, p = planning'[k],
         p.at = "link" => p.item <= PlanItems /\ orders'[p.item] > 0,
         p.at = "complete" => linked' = 1..PlanItems,
         InTurn /\ ~ died' =>
           /\ ~ died
           /\ \A i \in 1..PlanItems :
                /\ orders'[i] <= 1
                /\ orders'[i] = 1 /\ i \notin linked' => p.at = "link" /\ p.item = i
           /\ p.at \in {"next", "link"} =>
                \A i \in 1..PlanItems : i \in linked' /\ i >= p.item => i \in p.seen
           /\ p.at = "link" => p.item \notin p.seen
  PROVE  PlanOrdersInv'
<1>9. linked = 1..PlanItems => linked' = 1..PlanItems
  OBVIOUS
<1> USE PlanAssumption DEF PlanOrdersInv, PlanOrdersTypeOK
<1>1. InTurn' = InTurn
  BY DEF InTurn
<1>2. InTurn => \A j \in Clerk : j # k => planning'[j] = NotPlanning
  BY DEF InTurn
<1>3. NotPlanning.at = "idle"
  BY DEF NotPlanning
<1>4. PlanOrdersTypeOK'
  BY DEF Planning, PlanStep
<1>5. \A j \in Clerk :
        /\ planning'[j].at = "link" => planning'[j].item <= PlanItems /\ orders'[planning'[j].item] > 0
        /\ planning'[j].at = "complete" => linked' = 1..PlanItems
  <2> TAKE j \in Clerk
  <2>1. CASE j = k
    BY <2>1
  <2>2. CASE j # k
    <3>1. planning[j] # NotPlanning => planning[j].item \in Nat \ {0}
      OBVIOUS
    <3>2. planning[j].at = "link" =>
            planning[j].item \in 1..PlanItems /\ orders[planning[j].item] > 0
      BY <1>3, <3>1
    <3>3. planning'[j].at = "complete" => linked' = 1..PlanItems
      <4>1. planning'[j] = planning[j]
        BY <2>2
      <4>2. planning[j].at = "complete" => linked = 1..PlanItems
        BY DEF PlanOrdersInv
      <4>3. QED
        BY <1>9, <4>1, <4>2
    <3>4. planning[j].at = "link" => orders'[planning[j].item] > 0
      BY <3>2
    <3>5. QED
      BY <2>2, <3>2, <3>3, <3>4
  <2>3. QED
    BY <2>1, <2>2
<1>6. \A j \in Clerk : planning'[j] # NotPlanning => j \in desk'
  OBVIOUS
<1>7. InTurn /\ ~ died' =>
       /\ \A i \in 1..PlanItems :
            /\ orders'[i] <= 1
            /\ orders'[i] = 1 /\ i \notin linked' =>
                 \E j \in Clerk : planning'[j].at = "link" /\ planning'[j].item = i
       /\ \A j \in Clerk : planning'[j].at \in {"next", "link"} =>
            \A i \in 1..PlanItems : i \in linked' /\ i >= planning'[j].item => i \in planning'[j].seen
       /\ \A j \in Clerk : planning'[j].at = "link" => planning'[j].item \notin planning'[j].seen
  <2>1. SUFFICES ASSUME InTurn, ~ died' PROVE <1>7!2
    OBVIOUS
  <2>2. \A j \in Clerk : j # k => planning'[j].at = "idle"
    BY <1>2, <1>3, <2>1
  <2>3. ASSUME NEW i \in 1..PlanItems
        PROVE  /\ orders'[i] <= 1
               /\ orders'[i] = 1 /\ i \notin linked' =>
                    \E j \in Clerk : planning'[j].at = "link" /\ planning'[j].item = i
    <3>1. orders'[i] <= 1
      BY <2>1
    <3>2. orders'[i] = 1 /\ i \notin linked' => planning'[k].at = "link" /\ planning'[k].item = i
      BY <2>1
    <3>3. QED
      BY <3>1, <3>2
  <2>4. ASSUME NEW j \in Clerk, planning'[j].at \in {"next", "link"}
        PROVE  \A i \in 1..PlanItems : i \in linked' /\ i >= planning'[j].item => i \in planning'[j].seen
    BY <2>1, <2>2, <2>4
  <2>5. ASSUME NEW j \in Clerk, planning'[j].at = "link"
        PROVE  planning'[j].item \notin planning'[j].seen
    BY <2>1, <2>2, <2>5
  <2>6. QED
    BY <2>3, <2>4, <2>5
<1>8. QED
  BY <1>1, <1>4, <1>5, <1>6, <1>7

(* A step of the plan's office keeps it (planning.service.ts:109-133). *)
LEMMA PlanOrdersStep ==
  ASSUME PlanOrdersInv, PlanOrdersNext, UNCHANGED desk
  PROVE  PlanOrdersInv'
<1> USE PlanAssumption
<1>1. PICK k \in Clerk :
         \/ submitPlan(k) \/ createWorkOrdersFromPlan(k) \/ createWorkOrderForItem(k)
         \/ setPpItemWorkOrder(k) \/ ReadsPlanAgain(k) \/ setProductionPlanStatus(k)
         \/ PlanDies(k)
  BY DEF PlanOrdersNext
<1>2. InTurn => \A j \in Clerk : j # k /\ k \in desk => planning[j] = NotPlanning
  BY DEF PlanOrdersInv, InTurn
<1>3. NotPlanning.at = "idle"
  BY DEF NotPlanning
<1> DEFINE r == planning[k]
<1>4. /\ planning \in [Clerk -> {NotPlanning} \cup Planning]
      /\ r # NotPlanning => r \in Planning /\ k \in desk
      /\ plan \in {"draft", "submitted", "completed"} /\ died \in BOOLEAN
      /\ linked \subseteq 1..PlanItems /\ orders \in [1..PlanItems -> 0..MaxOrders]
      /\ \A i \in linked : orders[i] > 0
      /\ plan = "completed" => linked = 1..PlanItems
      /\ r.at = "link" => r.item <= PlanItems /\ orders[r.item] > 0
      /\ r.at = "complete" => linked = 1..PlanItems
  BY DEF PlanOrdersInv, PlanOrdersTypeOK, Planning, PlanStep
<1>5. k \in desk /\ InTurn /\ ~ died =>
       /\ \A i \in 1..PlanItems :
            /\ orders[i] <= 1
            /\ orders[i] = 1 /\ i \notin linked => r.at = "link" /\ r.item = i
       /\ r.at \in {"next", "link"} =>
            \A i \in 1..PlanItems : i \in linked /\ i >= r.item => i \in r.seen
       /\ r.at = "link" => r.item \notin r.seen
  BY <1>2, <1>3 DEF PlanOrdersInv
<1>6. CASE submitPlan(k) \/ createWorkOrdersFromPlan(k)
  <2>1. PICK step \in {"submit", "next"} : PlanAsks(k, step)
    BY <1>6 DEF submitPlan, createWorkOrdersFromPlan
  <2> DEFINE p == [at |-> step, item |-> 1, seen |-> linked]
  <2>2. /\ k \in desk /\ planning[k] = NotPlanning
        /\ planning' = [planning EXCEPT ![k] = p]
        /\ UNCHANGED <<plan, stored, linked, orders, died>>
    BY <2>1 DEF PlanAsks
  <2>3. p \in Planning /\ p.at = step /\ p.item = 1 /\ p.seen = linked
    BY <1>4 DEF Planning, PlanStep
  <2> HIDE DEF p
  <2>4. p = planning'[k]
    BY <1>4, <2>2
  <2>5. QED
    BY <1>3, <1>4, <1>5, <2>2, <2>3, <2>4, PlanGoesOn, SMTT(60)
<1>7. CASE createWorkOrderForItem(k)
  <2>1. /\ r.at = "next" /\ r \in Planning /\ k \in desk
        /\ UNCHANGED <<plan, stored, linked, died>>
        /\ r.item \in Nat \ {0}
    BY <1>3, <1>4, <1>7 DEF createWorkOrderForItem, Planning
  <2>2. CASE planning' = [planning EXCEPT ![k].at = "read"] /\ UNCHANGED orders
    <3> DEFINE p == [r EXCEPT !.at = "read"]
    <3>1. p \in Planning /\ p.at = "read" /\ planning' = [planning EXCEPT ![k] = p]
      BY <2>1, <2>2 DEF Planning, PlanStep
    <3> HIDE DEF p, r
    <3>2. p = planning'[k]
      BY <1>4, <3>1
    <3>3. QED
      BY <1>3, <1>4, <1>5, <2>1, <2>2, <3>1, <3>2, PlanGoesOn, SMTT(60)
  <2>3. CASE /\ r.item <= PlanItems /\ r.item \in r.seen /\ UNCHANGED orders
             /\ planning' = [planning EXCEPT ![k].item = r.item + 1]
    <3> DEFINE p == [r EXCEPT !.item = r.item + 1]
    <3>1. /\ p \in Planning /\ p.at = "next" /\ p.item = r.item + 1 /\ p.seen = r.seen
          /\ planning' = [planning EXCEPT ![k] = p]
      BY <2>1, <2>3 DEF Planning, PlanStep
    <3> HIDE DEF p, r
    <3>2. p = planning'[k]
      BY <1>4, <3>1
    <3>3. InTurn /\ ~ died =>
            /\ \A i \in 1..PlanItems : orders[i] <= 1 /\ (orders[i] = 1 => i \in linked)
            /\ \A i \in 1..PlanItems : i \in linked /\ i >= p.item => i \in p.seen
      BY <1>5, <2>1, <3>1
    <3>4. QED
      BY <1>4, <2>1, <2>3, <3>1, <3>2, <3>3, PlanGoesOn, SMTT(60)
  <2>4. CASE planning' = [planning EXCEPT ![k] = NotPlanning] /\ UNCHANGED orders
    <3> DEFINE p == NotPlanning
    <3>1. p = planning'[k]
      BY <1>4, <2>4
    <3> HIDE DEF r
    <3>2. QED
      BY <1>3, <1>4, <1>5, <2>1, <2>4, <3>1, PlanGoesOn, SMTT(60)
  <2>5. CASE /\ r.item <= PlanItems /\ r.item \notin r.seen
             /\ orders[r.item] < MaxOrders
             /\ orders' = [orders EXCEPT ![r.item] = @ + 1]
             /\ planning' = [planning EXCEPT ![k].at = "link"]
    <3> DEFINE p == [r EXCEPT !.at = "link"]
    <3>1. /\ p \in Planning /\ p.at = "link" /\ p.item = r.item /\ p.seen = r.seen
          /\ planning' = [planning EXCEPT ![k] = p]
      BY <2>1, <2>5 DEF Planning, PlanStep
    <3> HIDE DEF p, r
    <3>2. p = planning'[k]
      BY <1>4, <3>1
    <3>3. /\ r.item \in 1..PlanItems
          /\ orders'[r.item] = orders[r.item] + 1
          /\ \A i \in 1..PlanItems : i # r.item => orders'[i] = orders[i]
          /\ orders' \in [1..PlanItems -> 0..MaxOrders]
      BY <1>4, <2>1, <2>5
    <3>4. InTurn /\ ~ died => orders[r.item] = 0
      BY <1>4, <1>5, <2>1, <2>5, <3>3
    <3>5. ASSUME NEW i \in 1..PlanItems
          PROVE  orders[i] \in Nat /\ (orders'[i] = orders[i] \/ orders'[i] = orders[i] + 1)
      BY <1>4, <3>3
    <3>6. \A i \in linked' : orders'[i] > 0
      BY <1>4, <2>1, <3>5
    <3>7. orders'[p.item] > 0 /\ p.item <= PlanItems
      BY <1>4, <2>5, <3>1, <3>3
    <3>8. InTurn /\ ~ died =>
            /\ \A i \in 1..PlanItems :
                 /\ orders'[i] <= 1
                 /\ orders'[i] = 1 /\ i \notin linked => p.item = i
            /\ \A i \in 1..PlanItems : i \in linked /\ i >= p.item => i \in p.seen
            /\ p.item \notin p.seen
      <4>1. SUFFICES ASSUME InTurn, ~ died PROVE <3>8!2
        OBVIOUS
      <4>2. ASSUME NEW i \in 1..PlanItems
            PROVE  orders'[i] <= 1 /\ (orders'[i] = 1 /\ i \notin linked => p.item = i)
        BY <1>5, <2>1, <3>1, <3>3, <3>4, <4>1
      <4>3. QED
        BY <1>5, <2>1, <2>5, <3>1, <4>1, <4>2
    <3>9. \A i \in 1..PlanItems : orders[i] <= orders'[i]
      BY <3>5
    <3>10. QED
      BY <1>4, <2>1, <3>1, <3>2, <3>3, <3>6, <3>7, <3>8, <3>9, PlanGoesOn, SMTT(60)
  <2>6. QED
    BY <1>7, <2>1, <2>2, <2>3, <2>4, <2>5 DEF createWorkOrderForItem, PlansAt, PlanEnds
<1>8. CASE setPpItemWorkOrder(k)
  <2>1. /\ r.at = "link" /\ r \in Planning /\ k \in desk
        /\ UNCHANGED <<plan, stored, orders, died>>
        /\ r.item \in 1..PlanItems /\ linked' = linked \cup {r.item}
    BY <1>3, <1>4, <1>8 DEF setPpItemWorkOrder, Planning
  <2> DEFINE p == [r EXCEPT !.at = "next", !.item = r.item + 1]
  <2>2. /\ p \in Planning /\ p.at = "next" /\ p.item = r.item + 1 /\ p.seen = r.seen
        /\ planning' = [planning EXCEPT ![k] = p]
    BY <1>4, <1>8, <2>1 DEF setPpItemWorkOrder, Planning, PlanStep
  <2> HIDE DEF p, r
  <2>3. p = planning'[k]
    BY <1>4, <2>2
  <2>4. InTurn /\ ~ died =>
          /\ \A i \in 1..PlanItems : orders[i] <= 1 /\ (orders[i] = 1 => i \in linked')
          /\ \A i \in 1..PlanItems : i \in linked' /\ i >= p.item => i \in p.seen
    BY <1>5, <2>1, <2>2
  <2>5. linked \subseteq linked' /\ linked' \subseteq 1..PlanItems
    BY <1>4, <2>1
  <2>6. /\ \A i \in linked' : orders'[i] > 0
        /\ plan' = "completed" => linked' = 1..PlanItems
    BY <1>4, <2>1, <2>5
  <2>7. QED
    BY <1>4, <2>1, <2>2, <2>3, <2>4, <2>5, <2>6, PlanGoesOn, SMTT(60)
<1>9. CASE ReadsPlanAgain(k)
  <2>1. /\ r.at = "read" /\ r \in Planning /\ k \in desk
        /\ UNCHANGED <<plan, stored, linked, orders, died>>
    BY <1>3, <1>4, <1>9 DEF ReadsPlanAgain
  <2>2. CASE linked = 1..PlanItems /\ planning' = [planning EXCEPT ![k].at = "complete"]
    <3> DEFINE p == [r EXCEPT !.at = "complete"]
    <3>1. p \in Planning /\ p.at = "complete" /\ planning' = [planning EXCEPT ![k] = p]
      BY <2>1, <2>2 DEF Planning, PlanStep
    <3> HIDE DEF p, r
    <3>2. p = planning'[k]
      BY <1>4, <3>1
    <3>3. QED
      BY <1>3, <1>4, <1>5, <2>1, <2>2, <3>1, <3>2, PlanGoesOn, SMTT(60)
  <2>3. CASE planning' = [planning EXCEPT ![k] = NotPlanning]
    <3> DEFINE p == NotPlanning
    <3>1. p = planning'[k]
      BY <1>4, <2>3
    <3> HIDE DEF r
    <3>2. QED
      BY <1>3, <1>4, <1>5, <2>1, <2>3, <3>1, PlanGoesOn, SMTT(60)
  <2>4. QED
    BY <1>9, <2>2, <2>3 DEF ReadsPlanAgain, PlansAt, PlanEnds
<1>10. CASE setProductionPlanStatus(k) \/ PlanDies(k)
  <2>1. /\ r \in Planning /\ k \in desk
        /\ UNCHANGED <<stored, linked, orders>>
        /\ planning' = [planning EXCEPT ![k] = NotPlanning]
        /\ plan' \in {"draft", "submitted", "completed"}
        /\ plan' = "completed" => linked' = 1..PlanItems
        /\ (r.at # "link" /\ died' = died) \/ died' = TRUE
    BY <1>3, <1>4, <1>10 DEF setProductionPlanStatus, PlanDies, PlanEnds
  <2> DEFINE p == NotPlanning
  <2>2. p = planning'[k]
    BY <1>4, <2>1
  <2> HIDE DEF r
  <2>3. died' \in BOOLEAN
    BY <1>4, <2>1
  <2>4. QED
    BY <1>3, <1>4, <1>5, <2>1, <2>2, <2>3, PlanGoesOn, SMTT(60)
<1>11. QED
  BY <1>1, <1>6, <1>7, <1>8, <1>9, <1>10

(* The invariant of the plans' orders office holds. *)
LEMMA PlanOrdersAlways == Spec => []PlanOrdersInv
<1>1. Init => PlanOrdersInv
  <2> SUFFICES ASSUME Init PROVE PlanOrdersInv
    OBVIOUS
  <2>1. PlanOrdersInit
    BY DEF Init
  <2>2. NotPlanning.at = "idle"
    BY DEF NotPlanning
  <2>3. stored \subseteq 1..PlanItems
    BY <2>1, PlanAssumption DEF PlanOrdersInit
  <2>4. /\ plan = "draft" /\ linked = {}
        /\ \A i \in 1..PlanItems : orders[i] = 0
        /\ \A k \in Clerk : planning[k] = NotPlanning
    BY <2>1 DEF PlanOrdersInit
  <2>5. PlanOrdersTypeOK
    <3>1. orders \in [1..PlanItems -> 0..MaxOrders]
      BY <2>1, PlanAssumption DEF PlanOrdersInit
    <3>2. planning \in [Clerk -> {NotPlanning} \cup Planning]
      BY <2>1 DEF PlanOrdersInit
    <3>3. plan \in {"draft", "submitted", "completed"} /\ linked \subseteq 1..PlanItems
      BY <2>4
    <3>4. died \in BOOLEAN
      BY <2>1 DEF PlanOrdersInit
    <3>5. QED
      BY <2>3, <3>1, <3>2, <3>3, <3>4 DEF PlanOrdersTypeOK, Planning, PlanStep
  <2>6. QED
    BY <2>2, <2>4, <2>5 DEF PlanOrdersInv
<1>2. PlanOrdersInv /\ [Next]_vars => PlanOrdersInv'
  <2> SUFFICES ASSUME PlanOrdersInv, [Next]_vars PROVE PlanOrdersInv'
    OBVIOUS
  <2>1. UNCHANGED desk
    BY DEF Next, vars
  <2>2. CASE UNCHANGED planVars
    BY <2>1, <2>2 DEF PlanOrdersInv, PlanOrdersTypeOK, planVars, InTurn
  <2>3. CASE PlanOrdersNext
    BY <2>1, <2>3, PlanOrdersStep
  <2>4. QED
    BY <2>2, <2>3 DEF Next, vars
<1>3. QED
  BY <1>1, <1>2, PTL DEF Spec

(* In turn, and with no death, no item of a plan ever gets two work        *)
(* orders; a completed plan has one for each item, whatever happens:       *)
(* for any number of items (planning.service.ts:120-128).                  *)
THEOREM OneOrder == Spec => []OneOrderPerItem
<1>1. PlanOrdersInv => OneOrderPerItem
  BY DEF PlanOrdersInv, OneOrderPerItem
<1>2. QED
  BY <1>1, PlanOrdersAlways, PTL

-----------------------------------------------------------------------------
(* Quality checks *)

Levelled == UNION {[ws -> 0..Levels] : ws \in SUBSET Workflow}
Escalating == [at : {"rule"}, about : {"no row"}, left : Levelled, written : {0}, verdict : {""}]
Evaluating == [at : {"results"}, about : Inspection, left : Results, written : Nat,
               verdict : Verdict]

QualityTypes ==
  /\ workflow \in [Workflow -> [status : {"pending", "approved", "rejected"}, level : 0..Levels]]
  /\ inspection \in [Inspection -> {"pending"} \cup Verdict]
  /\ belongs \in [Parameter -> Inspection \cup {"no row"}]
  /\ parameter \in [Parameter -> {"pending", "pass", "fail"}]
  /\ checking \in [Clerk -> {NotChecking} \cup Escalating \cup Evaluating]
  /\ mixed \subseteq Inspection
  /\ \A k \in Clerk : checking[k] # NotChecking => k \in desk

(* In turn, what a loop has left to escalate is as it was read. *)
EscalatesAsRead(c) ==
  c.at = "rule" => \A w \in DOMAIN c.left :
    workflow[w].status = "pending" /\ workflow[w].level = c.left[w]

(* An evaluation writes to its own inspection, or to one that is mixed. *)
WritesOwn(c) ==
  c.at = "results" => \A m \in DOMAIN c.left :
    belongs[c.left[m].parameter] \in {c.about, "no row"} \cup mixed

(* What it wrote stays as long as its inspection is not mixed, and the     *)
(* cause of its verdict is among what it writes.                           *)
EvaluatesAlone(c) ==
  c.at = "results" /\ c.about \notin mixed =>
    /\ AreOwn(c.left, c.about)
    /\ inspection[c.about] = "pending"
    /\ \A m \in DOMAIN c.left :
         m <= c.written => parameter[c.left[m].parameter] = c.left[m].status
    /\ c.verdict = "failed" => \E m \in DOMAIN c.left : c.left[m].status = "fail"

OneEvaluation ==
  \A j, k \in Clerk :
    /\ checking[j].at = "results" /\ checking[k].at = "results"
    /\ checking[j].about = checking[k].about /\ checking[k].about \notin mixed
    => j = k

QualityInv ==
  /\ QualityTypes
  /\ FailedHasACause
  /\ InTurn => \A k \in Clerk : EscalatesAsRead(checking[k])
  /\ \A k \in Clerk : WritesOwn(checking[k]) /\ EvaluatesAlone(checking[k])
  /\ OneEvaluation

(* What each kind of request looks like *)
LEMMA KindsOfChecks ==
  /\ NotChecking.at = "idle"
  /\ \A c \in Escalating : c.at = "rule" /\ c.left \in Levelled
  /\ \A c \in Evaluating : /\ c.at = "results" /\ c.about \in Inspection
                           /\ c.left \in Results /\ c.written \in Nat /\ c.verdict \in Verdict
BY DEF NotChecking, Escalating, Evaluating

(* A loop goes on, with one row less to write. *)
LEMMA LeftShrinks ==
  ASSUME NEW left, NEW x
  PROVE  /\ DOMAIN Without(left, x) = DOMAIN left \ {x}
         /\ \A y \in DOMAIN left \ {x} : Without(left, x)[y] = left[y]
         /\ left \in Levelled => Without(left, x) \in Levelled
<1>1. /\ DOMAIN Without(left, x) = DOMAIN left \ {x}
      /\ \A y \in DOMAIN left \ {x} : Without(left, x)[y] = left[y]
  BY DEF Without
<1>2. ASSUME left \in Levelled PROVE Without(left, x) \in Levelled
  <2>1. PICK ws \in SUBSET Workflow : left \in [ws -> 0..Levels]
    BY <1>2 DEF Levelled
  <2>2. Without(left, x) \in [ws \ {x} -> 0..Levels]
    BY <2>1 DEF Without
  <2> QED  BY <2>1, <2>2 DEF Levelled
<1> QED  BY <1>1, <1>2

(* The bounds are numbers. *)
LEMMA QualityBounds == /\ Levels \in Nat
                       /\ MaxResults \in Nat
BY QualityAssumption

(* The results of a request are of parameters, and pass or fail. *)
LEMMA ResultsAre ==
  ASSUME NEW results \in Results, NEW m \in DOMAIN results
  PROVE  /\ m \in Nat /\ results[m].parameter \in Parameter
         /\ results[m].status \in {"pass", "fail"}
<1>1. PICK n \in 0..MaxResults : results \in [1..n -> Result]
  BY DEF Results
<1>2. m \in 1..n
  BY <1>1
<1>3. results[m] \in Result
  BY <1>1, <1>2
<1>4. m \in Nat
  BY <1>2, QualityBounds
<1> QED  BY <1>3, <1>4 DEF Result

(* The steps that write nothing about inspections *)
LEMMA ElsewhereKeeps ==
  ASSUME QualityInv, QualityTypes', UNCHANGED <<desk, inspection, belongs, parameter, mixed>>,
         \A k \in Clerk : checking'[k].at = "results" => checking'[k] = checking[k],
         InTurn => \A k \in Clerk : EscalatesAsRead(checking[k])'
  PROVE  QualityInv'
<1>1. FailedHasACause'
  BY DEF QualityInv, FailedHasACause
<1>2. ASSUME NEW k \in Clerk PROVE WritesOwn(checking[k])' /\ EvaluatesAlone(checking[k])'
  <2>1. CASE checking'[k].at = "results"
    <3>1. checking'[k] = checking[k] /\ WritesOwn(checking[k]) /\ EvaluatesAlone(checking[k])
      BY <2>1 DEF QualityInv
    <3> QED  BY <3>1 DEF WritesOwn, EvaluatesAlone, AreOwn
  <2>2. CASE checking'[k].at # "results"
    BY <2>2 DEF WritesOwn, EvaluatesAlone
  <2> QED  BY <2>1, <2>2
<1>3. OneEvaluation'
  BY DEF QualityInv, OneEvaluation
<1>4. InTurn' = InTurn
  BY DEF InTurn
<1> QED  BY <1>1, <1>2, <1>3, <1>4 DEF QualityInv

(* A request that begins or ends, and what it looks at when it begins *)
LEMMA ChecksOn ==
  ASSUME QualityInv, NEW k \in Clerk, UNCHANGED desk, k \in desk,
         NEW c \in {NotChecking} \cup Escalating \cup Evaluating,
         checking' = [checking EXCEPT ![k] = c]
  PROVE  /\ checking'[k] = c
         /\ \A j \in Clerk : j # k => checking'[j] = checking[j]
         /\ checking' \in [Clerk -> {NotChecking} \cup Escalating \cup Evaluating]
         /\ \A j \in Clerk : checking'[j] # NotChecking => j \in desk'
         /\ InTurn => \A j \in Clerk : j # k => checking'[j].at = "idle"
<1>1. /\ checking \in [Clerk -> {NotChecking} \cup Escalating \cup Evaluating]
      /\ \A j \in Clerk : checking[j] # NotChecking => j \in desk
  BY DEF QualityInv, QualityTypes
<1>2. checking'[k] = c /\ \A j \in Clerk : j # k => checking'[j] = checking[j]
  BY <1>1
<1>3. InTurn => \A j \in Clerk : j # k => checking[j] = NotChecking
  BY <1>1 DEF InTurn
<1> QED  BY <1>1, <1>2, <1>3, KindsOfChecks

(* A request that ends, or dies, writes nothing. *)
LEMMA CheckEndsKeeps ==
  ASSUME QualityInv, NEW k \in Clerk, UNCHANGED desk, k \in desk,
         checking' = [checking EXCEPT ![k] = NotChecking],
         UNCHANGED <<workflow, inspection, belongs, parameter, mixed>>
  PROVE  QualityInv'
<1>1. /\ checking'[k] = NotChecking
      /\ \A j \in Clerk : j # k => checking'[j] = checking[j]
      /\ checking' \in [Clerk -> {NotChecking} \cup Escalating \cup Evaluating]
      /\ \A j \in Clerk : checking'[j] # NotChecking => j \in desk'
      /\ InTurn => \A j \in Clerk : j # k => checking'[j].at = "idle"
  BY ChecksOn
<1>2. QualityTypes'
  BY <1>1 DEF QualityInv, QualityTypes
<1>3. ASSUME InTurn, NEW j \in Clerk PROVE EscalatesAsRead(checking[j])'
  BY <1>1, <1>3, KindsOfChecks DEF EscalatesAsRead
<1>4. \A j \in Clerk : checking'[j].at = "results" => checking'[j] = checking[j]
  BY <1>1, KindsOfChecks
<1> QED  BY <1>2, <1>3, <1>4, ElsewhereKeeps

(* A step of the escalations keeps it (quality.service.ts:70-104). *)
LEMMA EscalationStep ==
  ASSUME QualityInv, EscalationNext, UNCHANGED desk
  PROVE  QualityInv'
<1>1. PICK k \in Clerk :
         \/ \E w \in Workflow, status \in {"approved", "rejected"} : updateWorkflowStatus(k, w, status)
         \/ \E overdue \in SUBSET Workflow : findOverdueWorkflows(k, overdue)
         \/ \E w \in Workflow : updateWorkflowEscalation(k, w)
         \/ EscalationEnds(k)
         \/ CheckDies(k)
  BY DEF EscalationNext
<1>2. QualityTypes /\ checking[k] \in {NotChecking} \cup Escalating \cup Evaluating
  BY DEF QualityInv, QualityTypes
<1>3. checking[k] # NotChecking => k \in desk
  BY <1>2 DEF QualityTypes
<1>4. ASSUME NEW w \in Workflow, NEW status \in {"approved", "rejected"},
             updateWorkflowStatus(k, w, status)
      PROVE  QualityInv'
  <2>1. /\ k \in desk /\ checking[k] = NotChecking
        /\ workflow' = [workflow EXCEPT ![w].status = status]
        /\ UNCHANGED <<inspection, belongs, parameter, checking, mixed>>
    BY <1>4 DEF updateWorkflowStatus
  <2>2. QualityTypes'
    BY <1>2, <2>1 DEF QualityTypes
  <2>3. ASSUME InTurn, NEW j \in Clerk PROVE EscalatesAsRead(checking[j])'
    <3>1. checking[j] = NotChecking
      BY <1>2, <2>1, <2>3 DEF QualityTypes, InTurn
    <3>2. checking'[j].at = "idle"
      BY <2>1, <3>1, KindsOfChecks
    <3> QED  BY <3>2 DEF EscalatesAsRead
  <2> QED  BY <2>1, <2>2, <2>3, ElsewhereKeeps
<1>5. ASSUME NEW overdue \in SUBSET Workflow, findOverdueWorkflows(k, overdue) PROVE QualityInv'
  <2>1. PICK left : left = [w \in overdue |-> workflow[w].level]
    OBVIOUS
  <2>2. left \in Levelled
    <3>1. left \in [overdue -> 0..Levels]
      BY <1>2, <2>1 DEF QualityTypes
    <3> QED  BY <3>1 DEF Levelled
  <2>3. PICK c : c = [NotChecking EXCEPT !.at = "rule", !.left = left]
    OBVIOUS
  <2>4. c \in Escalating /\ c.at = "rule" /\ c.left = left
    BY <2>2, <2>3 DEF Escalating, NotChecking
  <2>5. /\ k \in desk /\ checking' = [checking EXCEPT ![k] = c]
        /\ UNCHANGED <<workflow, inspection, belongs, parameter, mixed>>
        /\ \A w \in overdue : workflow[w].status = "pending"
    BY <1>5, <2>1, <2>3 DEF findOverdueWorkflows, Escalates, Checks
  <2>6. /\ checking'[k] = c
        /\ \A j \in Clerk : j # k => checking'[j] = checking[j]
        /\ checking' \in [Clerk -> {NotChecking} \cup Escalating \cup Evaluating]
        /\ \A j \in Clerk : checking'[j] # NotChecking => j \in desk'
        /\ InTurn => \A j \in Clerk : j # k => checking'[j].at = "idle"
    BY <2>4, <2>5, ChecksOn
  <2>7. QualityTypes'
    BY <1>2, <2>5, <2>6 DEF QualityTypes
  <2>8. EscalatesAsRead(checking[k])'
    BY <2>1, <2>4, <2>5, <2>6 DEF EscalatesAsRead
  <2>9. ASSUME InTurn, NEW j \in Clerk PROVE EscalatesAsRead(checking[j])'
    BY <2>6, <2>8, <2>9 DEF EscalatesAsRead
  <2>10. \A j \in Clerk : checking'[j].at = "results" => checking'[j] = checking[j]
    BY <2>4, <2>6
  <2> QED  BY <2>5, <2>7, <2>9, <2>10, ElsewhereKeeps
<1>6. ASSUME NEW w \in Workflow, updateWorkflowEscalation(k, w) PROVE QualityInv'
  <2>1. PICK r : r = checking[k]
    OBVIOUS
  <2>2. /\ r \in Escalating /\ r.at = "rule" /\ k \in desk /\ w \in DOMAIN r.left
        /\ r.left \in Levelled
        /\ UNCHANGED <<inspection, belongs, parameter, mixed>>
    BY <1>2, <1>3, <1>6, <2>1, KindsOfChecks DEF updateWorkflowEscalation
  <2>3. PICK c : c = [r EXCEPT !.left = Without(r.left, w)]
    OBVIOUS
  <2>4. c \in Escalating /\ c.at = "rule" /\ c.left = Without(r.left, w)
    BY <2>2, <2>3, LeftShrinks DEF Escalating
  <2>5. checking' = [checking EXCEPT ![k] = c]
    BY <1>6, <2>1, <2>3 DEF updateWorkflowEscalation
  <2>6. /\ checking'[k] = c
        /\ \A j \in Clerk : j # k => checking'[j] = checking[j]
        /\ checking' \in [Clerk -> {NotChecking} \cup Escalating \cup Evaluating]
        /\ \A j \in Clerk : checking'[j] # NotChecking => j \in desk'
        /\ InTurn => \A j \in Clerk : j # k => checking'[j].at = "idle"
    BY <2>2, <2>4, <2>5, ChecksOn
  <2>7. PICK ws \in SUBSET Workflow : r.left \in [ws -> 0..Levels]
    BY <2>2 DEF Levelled
  <2>8. PICK next : next = r.left[w] + 1
    OBVIOUS
  <2>9. /\ workflow' \in [Workflow -> [status : {"pending", "approved", "rejected"}, level : 0..Levels]]
        /\ \A v \in Workflow : v # w => workflow'[v] = workflow[v]
    <3> DEFINE WorkflowRow == [status : {"pending", "approved", "rejected"}, level : 0..Levels]
    <3>1. r.left[w] \in 0..Levels
      BY <2>2, <2>7
    <3>2. next <= Levels => next \in 0..Levels
      BY <2>8, <3>1, QualityBounds
    <3>3. workflow \in [Workflow -> WorkflowRow] /\ w \in Workflow
      BY <1>2, <1>6 DEF QualityTypes
    <3>4. workflow' = IF next <= Levels THEN [workflow EXCEPT ![w].level = next] ELSE workflow
      BY <1>6, <2>1, <2>8 DEF updateWorkflowEscalation
    <3>5. next <= Levels => [workflow[w] EXCEPT !.level = next] \in WorkflowRow
      BY <3>2, <3>3
    <3> HIDE DEF WorkflowRow
    <3>6. workflow' \in [Workflow -> WorkflowRow] /\ \A v \in Workflow : v # w => workflow'[v] = workflow[v]
      BY <3>3, <3>4, <3>5
    <3> QED  BY <3>6 DEF WorkflowRow
  <2>10. QualityTypes'
    BY <1>2, <2>2, <2>6, <2>9 DEF QualityTypes
  <2>11. \A v \in DOMAIN c.left : v \in Workflow /\ v # w /\ v \in DOMAIN r.left /\ c.left[v] = r.left[v]
    <3>1. /\ DOMAIN Without(r.left, w) = DOMAIN r.left \ {w}
          /\ \A v \in DOMAIN r.left \ {w} : Without(r.left, w)[v] = r.left[v]
      BY LeftShrinks
    <3> QED  BY <2>4, <2>7, <3>1
  <2>12. InTurn => EscalatesAsRead(r)
    BY <2>1 DEF QualityInv
  <2>13. InTurn => EscalatesAsRead(checking[k])'
    BY <2>2, <2>6, <2>9, <2>11, <2>12 DEF EscalatesAsRead
  <2>14. ASSUME InTurn, NEW j \in Clerk PROVE EscalatesAsRead(checking[j])'
    BY <2>6, <2>13, <2>14 DEF EscalatesAsRead
  <2>15. \A j \in Clerk : checking'[j].at = "results" => checking'[j] = checking[j]
    BY <2>4, <2>6
  <2> QED  BY <2>2, <2>10, <2>14, <2>15, ElsewhereKeeps
<1>7. CASE EscalationEnds(k) \/ CheckDies(k)
  <2>1. /\ k \in desk /\ checking' = [checking EXCEPT ![k] = NotChecking]
        /\ UNCHANGED <<workflow, inspection, belongs, parameter, mixed>>
    BY <1>2, <1>3, <1>7, KindsOfChecks DEF EscalationEnds, CheckDies, CheckEnds
  <2> QED  BY <2>1, CheckEndsKeeps
<1> QED  BY <1>1, <1>4, <1>5, <1>6, <1>7

(* A step of the evaluations keeps it (quality.service.ts:140-158). *)
LEMMA InspectionStep ==
  ASSUME QualityInv, InspectionNext, UNCHANGED desk
  PROVE  QualityInv'
<1>1. PICK k \in Clerk :
         \/ \E i \in Inspection, results \in Results : evaluateInspection(k, i, results)
         \/ UpdatesParameter(k)
         \/ updateInspectionStatus(k)
         \/ CheckDies(k)
  BY DEF InspectionNext
<1>2. /\ QualityTypes /\ FailedHasACause /\ OneEvaluation
      /\ \A j \in Clerk : /\ checking[j] \in {NotChecking} \cup Escalating \cup Evaluating
                          /\ WritesOwn(checking[j]) /\ EvaluatesAlone(checking[j])
                          /\ checking[j] # NotChecking => j \in desk
      /\ InTurn' = InTurn
  BY DEF QualityInv, QualityTypes, InTurn
<1>3. ASSUME NEW i \in Inspection, NEW results \in Results, evaluateInspection(k, i, results)
      PROVE  QualityInv'
  <2>1. PICK verdict : verdict = IF \E m \in DOMAIN results : results[m].status = "fail"
                                 THEN "failed" ELSE "passed"
    OBVIOUS
  <2>2. PICK c : c = [at |-> "results", about |-> i, left |-> results, written |-> 0,
                      verdict |-> verdict]
    OBVIOUS
  <2>3. /\ c \in Evaluating /\ c.at = "results" /\ c.about = i /\ c.left = results
        /\ c.written = 0 /\ c.verdict = verdict
    BY <2>1, <2>2 DEF Evaluating, Verdict
  <2>4. /\ k \in desk /\ checking[k] = NotChecking /\ checking' = [checking EXCEPT ![k] = c]
        /\ UNCHANGED <<workflow, inspection, belongs, parameter>>
        /\ inspection[i] = "pending"
    BY <1>3, <2>1, <2>2 DEF evaluateInspection, Checks
  <2>5. /\ mixed \subseteq mixed'
        /\ i \in EvaluatedNow => i \in mixed'
        /\ ~ AreOwn(results, i) => i \in mixed'
        /\ \A m \in DOMAIN results : belongs[results[m].parameter] \in {i, "no row"} \cup mixed'
        /\ mixed' \subseteq Inspection
    <3>1. mixed' = mixed \cup ({i} \cap EvaluatedNow)
                     \cup (IF AreOwn(results, i) THEN {} ELSE {i})
                     \cup ({belongs[results[m].parameter] : m \in DOMAIN results} \ {i, "no row"})
      BY <1>3 DEF evaluateInspection
    <3>2. \A m \in DOMAIN results : belongs[results[m].parameter] \in Inspection \cup {"no row"}
      BY <1>2, ResultsAre DEF QualityTypes
    <3>3. mixed \subseteq Inspection
      BY <1>2 DEF QualityTypes
    <3> QED  BY <3>1, <3>2, <3>3
  <2>6. /\ checking'[k] = c
        /\ \A j \in Clerk : j # k => checking'[j] = checking[j]
        /\ checking' \in [Clerk -> {NotChecking} \cup Escalating \cup Evaluating]
        /\ \A j \in Clerk : checking'[j] # NotChecking => j \in desk'
        /\ InTurn => \A j \in Clerk : j # k => checking'[j].at = "idle"
    BY <2>3, <2>4, ChecksOn
  <2>7. QualityTypes'
    BY <1>2, <2>4, <2>5, <2>6 DEF QualityTypes
  <2>8. FailedHasACause'
    <3> SUFFICES ASSUME NEW h \in Inspection \ mixed', inspection[h] = "failed"
                 PROVE  \E p \in Parameter : belongs[p] = h /\ parameter[p] = "fail"
      BY <2>4 DEF FailedHasACause
    <3>1. h \in Inspection \ mixed
      BY <2>5
    <3> QED  BY <1>2, <3>1 DEF FailedHasACause
  <2>9. ASSUME InTurn, NEW j \in Clerk PROVE EscalatesAsRead(checking[j])'
    BY <2>3, <2>6, <2>9 DEF EscalatesAsRead
  <2>10. WritesOwn(checking[k])'
    BY <2>3, <2>4, <2>5, <2>6 DEF WritesOwn
  <2>11. EvaluatesAlone(checking[k])'
    <3>1. \A m \in DOMAIN results : ~ (m <= 0)
      <4>1. PICK n \in 0..MaxResults : results \in [1..n -> Result]
        BY DEF Results
      <4>2. DOMAIN results = 1..n
        BY <4>1
      <4>3. \A m \in 1..n : ~ (m <= 0)
        BY QualityBounds
      <4> QED  BY <4>2, <4>3
    <3>2. verdict = "failed" => \E m \in DOMAIN results : results[m].status = "fail"
      BY <2>1
    <3>3. AreOwn(results, i) => AreOwn(results, i)'
      BY <2>4 DEF AreOwn
    <3> QED  BY <2>3, <2>4, <2>5, <2>6, <3>1, <3>2, <3>3 DEF EvaluatesAlone, AreOwn
  <2>12. ASSUME NEW j \in Clerk PROVE WritesOwn(checking[j])' /\ EvaluatesAlone(checking[j])'
    <3>1. CASE j = k
      BY <2>10, <2>11, <3>1
    <3>2. CASE j # k
      <4>1. PICK d : d = checking[j] /\ d = checking'[j]
        BY <2>6, <3>2
      <4>2. WritesOwn(d) /\ EvaluatesAlone(d)
        BY <1>2, <4>1
      <4>3. WritesOwn(d)'
        BY <2>4, <2>5, <4>2 DEF WritesOwn
      <4>4. EvaluatesAlone(d)'
        <5> SUFFICES ASSUME d.at = "results", d.about \notin mixed' PROVE EvaluatesAlone(d)'
          BY DEF EvaluatesAlone
        <5>1. d.about \notin mixed
          BY <2>5
        <5> QED  BY <2>4, <4>2, <5>1 DEF EvaluatesAlone, AreOwn
      <4> QED  BY <4>1, <4>3, <4>4 DEF WritesOwn, EvaluatesAlone
    <3> QED  BY <3>1, <3>2
  <2>13. OneEvaluation'
    <3>1. ASSUME NEW j \in Clerk, j # k, checking'[j].at = "results", checking'[j].about = i
          PROVE  i \in mixed'
      <4>1. checking[j].at = "results" /\ checking[j].about = i
        BY <2>6, <3>1
      <4>2. i \in EvaluatedNow
        BY <4>1 DEF EvaluatedNow
      <4> QED  BY <2>5, <4>2
    <3> QED  BY <1>2, <2>3, <2>5, <2>6, <3>1 DEF OneEvaluation
  <2> QED  BY <1>2, <2>7, <2>8, <2>9, <2>12, <2>13 DEF QualityInv
<1>4. CASE UpdatesParameter(k)
  <2>1. PICK r : r = checking[k]
    OBVIOUS
  <2>2. PICK m : m = r.written + 1
    OBVIOUS
  <2>3. /\ r \in Evaluating /\ r.at = "results" /\ k \in desk /\ m \in DOMAIN r.left
        /\ r.about \in Inspection /\ r.left \in Results /\ r.written \in Nat
        /\ UNCHANGED <<workflow, inspection, belongs, mixed>>
    BY <1>2, <1>4, <2>1, <2>2, KindsOfChecks DEF UpdatesParameter
  <2>4. PICK q, status : q = r.left[m].parameter /\ status = r.left[m].status
    OBVIOUS
  <2>5. m \in Nat /\ q \in Parameter /\ status \in {"pass", "fail"}
    BY <2>3, <2>4, ResultsAre
  <2>6. parameter' = IF belongs[q] = "no row" THEN parameter ELSE [parameter EXCEPT ![q] = status]
    BY <1>4, <2>1, <2>2, <2>4 DEF UpdatesParameter
  <2>7. /\ parameter' \in [Parameter -> {"pending", "pass", "fail"}]
        /\ belongs[q] # "no row" => parameter'[q] = status
        /\ \A p \in Parameter : p # q => parameter'[p] = parameter[p]
    BY <1>2, <2>5, <2>6 DEF QualityTypes
  <2>8. belongs[q] \in {r.about, "no row"} \cup mixed
    BY <1>2, <2>1, <2>3, <2>4 DEF WritesOwn
  <2>9. PICK c : c = [r EXCEPT !.written = m]
    OBVIOUS
  <2>10. /\ c \in Evaluating /\ c.at = "results" /\ c.about = r.about /\ c.left = r.left
         /\ c.written = m /\ c.verdict = r.verdict
    BY <2>3, <2>5, <2>9 DEF Evaluating
  <2>11. checking' = [checking EXCEPT ![k] = c]
    BY <1>4, <2>1, <2>2, <2>9 DEF UpdatesParameter
  <2>12. /\ checking'[k] = c
         /\ \A j \in Clerk : j # k => checking'[j] = checking[j]
         /\ checking' \in [Clerk -> {NotChecking} \cup Escalating \cup Evaluating]
         /\ \A j \in Clerk : checking'[j] # NotChecking => j \in desk'
         /\ InTurn => \A j \in Clerk : j # k => checking'[j].at = "idle"
    BY <2>3, <2>10, <2>11, ChecksOn
  <2>13. QualityTypes'
    BY <1>2, <2>3, <2>7, <2>12 DEF QualityTypes
  <2>14. ASSUME InTurn, NEW j \in Clerk PROVE EscalatesAsRead(checking[j])'
    BY <2>10, <2>12, <2>14 DEF EscalatesAsRead
  <2>15. "no row" \notin Inspection /\ mixed \subseteq Inspection
    BY <1>2, QualityAssumption DEF QualityTypes
  <2>16. EvaluatesAlone(r)
    BY <1>2, <2>1
  <2>17. FailedHasACause'
    <3> SUFFICES ASSUME NEW i \in Inspection \ mixed, inspection[i] = "failed"
                 PROVE  \E p \in Parameter : belongs[p] = i /\ parameter'[p] = "fail"
      BY <2>3 DEF FailedHasACause
    <3>1. PICK p \in Parameter : belongs[p] = i /\ parameter[p] = "fail"
      BY <1>2 DEF FailedHasACause
    <3>2. p # q
      BY <2>3, <2>8, <2>15, <2>16, <3>1 DEF EvaluatesAlone
    <3> QED  BY <2>7, <3>1, <3>2
  <2>18. EvaluatesAlone(checking[k])'
    <3> SUFFICES ASSUME r.about \notin mixed
                 PROVE  /\ AreOwn(r.left, r.about)'
                        /\ inspection[r.about] = "pending"
                        /\ \A n \in DOMAIN r.left :
                             n <= m => parameter'[r.left[n].parameter] = r.left[n].status
                        /\ r.verdict = "failed" => \E n \in DOMAIN r.left : r.left[n].status = "fail"
      BY <2>3, <2>10, <2>12 DEF EvaluatesAlone, AreOwn
    <3>1. /\ AreOwn(r.left, r.about) /\ inspection[r.about] = "pending"
          /\ \A n \in DOMAIN r.left :
               n <= r.written => parameter[r.left[n].parameter] = r.left[n].status
          /\ r.verdict = "failed" => \E n \in DOMAIN r.left : r.left[n].status = "fail"
      BY <2>3, <2>16 DEF EvaluatesAlone
    <3>2. ASSUME NEW n \in DOMAIN r.left, n <= m
          PROVE  parameter'[r.left[n].parameter] = r.left[n].status
      <4>1. n \in Nat /\ r.left[n].parameter \in Parameter
        BY <2>3, ResultsAre
      <4>2. CASE n = m
        <5>1. belongs[q] = r.about
          BY <2>3, <2>4, <3>1 DEF AreOwn
        <5> QED  BY <2>3, <2>4, <2>7, <2>15, <4>2, <5>1
      <4>3. CASE n # m
        <5>1. n <= r.written
          BY <2>2, <2>3, <3>2, <4>1, <4>3
        <5>2. r.left[n].parameter # q
          BY <2>3, <2>4, <3>1, <4>3 DEF AreOwn
        <5> QED  BY <2>7, <3>1, <4>1, <5>1, <5>2
      <4> QED  BY <4>2, <4>3
    <3>3. AreOwn(r.left, r.about)'
      BY <2>3, <3>1 DEF AreOwn
    <3> QED  BY <3>1, <3>2, <3>3
  <2>19. ASSUME NEW j \in Clerk, j # k PROVE EvaluatesAlone(checking[j])'
    <3>1. PICK d : d = checking[j] /\ d = checking'[j]
      BY <2>12, <2>19
    <3> SUFFICES ASSUME d.at = "results", d.about \notin mixed PROVE EvaluatesAlone(d)'
      BY <2>3, <3>1 DEF EvaluatesAlone
    <3>2. EvaluatesAlone(d) /\ d \in Evaluating
      BY <1>2, <3>1, KindsOfChecks
    <3>3. d.about # r.about
      BY <1>2, <2>1, <2>3, <2>19, <3>1 DEF OneEvaluation
    <3>4. ASSUME NEW n \in DOMAIN d.left
          PROVE  parameter'[d.left[n].parameter] = parameter[d.left[n].parameter]
      <4>1. d.left[n].parameter \in Parameter /\ d.about \in Inspection
        BY <3>2, <3>4, KindsOfChecks, ResultsAre
      <4>2. belongs[d.left[n].parameter] = d.about
        BY <3>2 DEF EvaluatesAlone, AreOwn
      <4>3. d.left[n].parameter # q
        BY <2>8, <2>15, <3>3, <4>1, <4>2
      <4> QED  BY <2>7, <4>1, <4>3
    <3> QED  BY <2>3, <3>2, <3>4 DEF EvaluatesAlone, AreOwn
  <2>20. ASSUME NEW j \in Clerk PROVE WritesOwn(checking[j])' /\ EvaluatesAlone(checking[j])'
    <3>1. CASE j = k
      <4>1. WritesOwn(r)
        BY <1>2, <2>1
      <4>2. WritesOwn(checking[k])'
        BY <2>3, <2>10, <2>12, <4>1 DEF WritesOwn
      <4> QED  BY <2>18, <3>1, <4>2
    <3>2. CASE j # k
      <4>1. WritesOwn(checking[j]) /\ checking'[j] = checking[j]
        BY <1>2, <2>12, <3>2
      <4> QED  BY <2>3, <2>19, <3>2, <4>1 DEF WritesOwn
    <3> QED  BY <3>1, <3>2
  <2>21. OneEvaluation'
    BY <1>2, <2>1, <2>3, <2>10, <2>12 DEF OneEvaluation
  <2> QED  BY <1>2, <2>13, <2>14, <2>17, <2>20, <2>21 DEF QualityInv
<1>5. CASE updateInspectionStatus(k)
  <2>1. PICK r : r = checking[k]
    OBVIOUS
  <2>2. /\ r \in Evaluating /\ r.at = "results" /\ k \in desk
        /\ r.about \in Inspection /\ r.left \in Results /\ r.written \in Nat /\ r.verdict \in Verdict
        /\ DOMAIN r.left = 1..r.written
        /\ inspection' = [inspection EXCEPT ![r.about] = r.verdict]
        /\ checking' = [checking EXCEPT ![k] = NotChecking]
        /\ UNCHANGED <<workflow, belongs, parameter, mixed>>
    BY <1>2, <1>5, <2>1, KindsOfChecks DEF updateInspectionStatus, CheckEnds
  <2>3. /\ checking'[k] = NotChecking
        /\ \A j \in Clerk : j # k => checking'[j] = checking[j]
        /\ checking' \in [Clerk -> {NotChecking} \cup Escalating \cup Evaluating]
        /\ \A j \in Clerk : checking'[j] # NotChecking => j \in desk'
        /\ InTurn => \A j \in Clerk : j # k => checking'[j].at = "idle"
    BY <2>2, ChecksOn
  <2>4. /\ inspection' \in [Inspection -> {"pending"} \cup Verdict]
        /\ inspection'[r.about] = r.verdict
        /\ \A i \in Inspection : i # r.about => inspection'[i] = inspection[i]
    BY <1>2, <2>2 DEF QualityTypes
  <2>5. QualityTypes'
    BY <1>2, <2>2, <2>3, <2>4 DEF QualityTypes
  <2>6. FailedHasACause'
    <3> SUFFICES ASSUME NEW i \in Inspection \ mixed, inspection'[i] = "failed"
                 PROVE  \E p \in Parameter : belongs[p] = i /\ parameter[p] = "fail"
      BY <2>2 DEF FailedHasACause
    <3>1. CASE i = r.about
      <4>1. EvaluatesAlone(r) /\ r.verdict = "failed"
        BY <1>2, <2>1, <2>4, <3>1
      <4>2. PICK m \in DOMAIN r.left : r.left[m].status = "fail"
        BY <2>2, <3>1, <4>1 DEF EvaluatesAlone
      <4>3. m <= r.written /\ r.left[m].parameter \in Parameter
        BY <2>2, ResultsAre
      <4>4. parameter[r.left[m].parameter] = "fail" /\ belongs[r.left[m].parameter] = i
        BY <2>2, <3>1, <4>1, <4>2, <4>3 DEF EvaluatesAlone, AreOwn
      <4> QED  BY <4>3, <4>4
    <3>2. CASE i # r.about
      BY <1>2, <2>4, <3>2 DEF FailedHasACause
    <3> QED  BY <3>1, <3>2
  <2>7. ASSUME InTurn, NEW j \in Clerk PROVE EscalatesAsRead(checking[j])'
    BY <2>3, <2>7, KindsOfChecks DEF EscalatesAsRead
  <2>8. ASSUME NEW j \in Clerk PROVE WritesOwn(checking[j])' /\ EvaluatesAlone(checking[j])'
    <3>1. CASE j = k
      BY <2>3, <3>1, KindsOfChecks DEF WritesOwn, EvaluatesAlone
    <3>2. CASE j # k
      <4>1. PICK d : d = checking[j] /\ d = checking'[j]
        BY <2>3, <3>2
      <4>2. WritesOwn(d) /\ EvaluatesAlone(d)
        BY <1>2, <4>1
      <4>3. WritesOwn(d)'
        BY <2>2, <4>2 DEF WritesOwn
      <4>4. d.at = "results" /\ d.about \notin mixed => d.about # r.about /\ d.about \in Inspection
        BY <1>2, <2>1, <2>2, <3>2, <4>1, KindsOfChecks DEF OneEvaluation
      <4>5. EvaluatesAlone(d)'
        BY <2>2, <2>4, <4>2, <4>4 DEF EvaluatesAlone, AreOwn
      <4>6. WritesOwn(checking[j])' /\ EvaluatesAlone(checking[j])'
        BY <4>1, <4>3, <4>5 DEF WritesOwn, EvaluatesAlone
      <4> QED  BY <4>6
    <3> QED  BY <3>1, <3>2
  <2>9. OneEvaluation'
    BY <1>2, <2>2, <2>3, KindsOfChecks DEF OneEvaluation
  <2> QED  BY <1>2, <2>5, <2>6, <2>7, <2>8, <2>9 DEF QualityInv
<1>6. CASE CheckDies(k)
  <2>1. /\ k \in desk /\ checking' = [checking EXCEPT ![k] = NotChecking]
        /\ UNCHANGED <<workflow, inspection, belongs, parameter, mixed>>
    BY <1>2, <1>6 DEF CheckDies, CheckEnds
  <2> QED  BY <2>1, CheckEndsKeeps
<1> QED  BY <1>1, <1>3, <1>4, <1>5, <1>6

(* What the quality office keeps, in every behaviour *)
LEMMA QualityInvariant == Spec => []QualityInv
<1>1. Init => QualityInv
  <2> SUFFICES ASSUME Init PROVE QualityInv
    OBVIOUS
  <2>1. QualityInit
    BY DEF Init
  <2>2. QualityTypes
    <3>1. 0 \in 0..Levels
      BY QualityBounds
    <3> QED  BY <2>1, <3>1 DEF QualityInit, QualityTypes
  <2>3. FailedHasACause
    BY <2>1 DEF QualityInit, FailedHasACause
  <2>4. \A k \in Clerk : checking[k].at = "idle"
    BY <2>1, KindsOfChecks DEF QualityInit
  <2> QED  BY <2>2, <2>3, <2>4
           DEF QualityInv, EscalatesAsRead, WritesOwn, EvaluatesAlone, OneEvaluation
<1>2. QualityInv /\ [Next]_vars => QualityInv'
  <2> SUFFICES ASSUME QualityInv, [Next]_vars PROVE QualityInv'
    OBVIOUS
  <2>1. UNCHANGED desk
    BY DEF Next, vars
  <2>2. CASE UNCHANGED qualityVars
    <3>1. UNCHANGED <<desk, workflow, inspection, belongs, parameter, checking, mixed>>
      BY <2>1, <2>2 DEF qualityVars
    <3>2. QualityTypes'
      BY <3>1 DEF QualityInv, QualityTypes
    <3>3. ASSUME InTurn, NEW k \in Clerk PROVE EscalatesAsRead(checking[k])'
      BY <3>1, <3>3 DEF QualityInv, EscalatesAsRead
    <3> QED  BY <3>1, <3>2, <3>3, ElsewhereKeeps
  <2>3. CASE EscalationNext
    BY <2>1, <2>3, EscalationStep
  <2>4. CASE InspectionNext
    BY <2>1, <2>4, InspectionStep
  <2> QED  BY <2>2, <2>3, <2>4 DEF Next, vars
<1>3. QED
  BY <1>1, <1>2, PTL DEF Spec

(* An inspection that failed has a parameter that did, whatever overlapped *)
(* or died, unless its evaluations overlapped or a request sent results    *)
(* that are not its own or repeat: for any parameters and inspections      *)
(* (quality.service.ts:140-158).                                           *)
THEOREM FailedForACause == Spec => []FailedHasACause
<1>1. QualityInv => FailedHasACause
  BY DEF QualityInv
<1>2. QED
  BY <1>1, QualityInvariant, PTL

(* In turn, only pending workflows are escalated, one level at a time: for *)
(* any workflows and levels (quality.service.ts:87-104).                   *)
THEOREM SettledRests == Spec => SettledIsNotEscalated
<1>1. QualityInv /\ [Next]_vars =>
        [\A w \in Workflow : InTurn /\ workflow'[w].level # workflow[w].level
           => workflow[w].status = "pending" /\ workflow'[w].level = workflow[w].level + 1]_workflow
  <2> SUFFICES ASSUME QualityInv, [Next]_vars, NEW w \in Workflow, InTurn,
                      workflow'[w].level # workflow[w].level
               PROVE  workflow[w].status = "pending" /\ workflow'[w].level = workflow[w].level + 1
    OBVIOUS
  <2>1. EscalationNext \/ InspectionNext
    BY DEF Next, vars, qualityVars
  <2>2. workflow \in [Workflow -> [status : {"pending", "approved", "rejected"}, level : 0..Levels]]
    BY DEF QualityInv, QualityTypes
  <2>3. ASSUME NEW k \in Clerk, NEW v \in Workflow, NEW status, updateWorkflowStatus(k, v, status)
        PROVE  FALSE
    BY <2>2, <2>3 DEF updateWorkflowStatus
  <2>4. PICK k \in Clerk, v \in Workflow : updateWorkflowEscalation(k, v)
    BY <2>1, <2>3 DEF EscalationNext, InspectionNext, findOverdueWorkflows, Escalates, Checks,
       EscalationEnds, evaluateInspection, UpdatesParameter, updateInspectionStatus, CheckDies
  <2>5. v = w /\ workflow'[w].level = checking[k].left[w] + 1 /\ w \in DOMAIN checking[k].left
    BY <2>2, <2>4 DEF updateWorkflowEscalation
  <2>6. workflow[w].status = "pending" /\ workflow[w].level = checking[k].left[w]
    BY <2>4, <2>5 DEF QualityInv, EscalatesAsRead, updateWorkflowEscalation
  <2>7. QED
    BY <2>5, <2>6
<1>2. QED
  BY <1>1, QualityInvariant, PTL DEF Spec, SettledIsNotEscalated

-----------------------------------------------------------------------------
(* Trees *)

(* One node up, and the nodes above n as far as the m-th *)
Up(x) == IF x = Top THEN Top ELSE parent[x]
Climbs(g, n, m) ==
  /\ DOMAIN g = 0..m /\ g[0] = n
  /\ \A i \in 1..m : g[i] = Up(g[i - 1])

(* A function of the nodes above n exists, so that Above(n) is it. *)
LEMMA ClimbsExist == ASSUME NEW n, NEW m \in Nat PROVE \E g : Climbs(g, n, m)
<1> DEFINE Missing == {i \in Nat : ~ \E g : Climbs(g, n, i)}
<1> SUFFICES ASSUME Missing # {} PROVE FALSE
  OBVIOUS
<1>1. PICK i \in Missing : \A j \in Missing : i <= j
  BY LeastNatural
<1>2. CASE i = 0
  <2>1. Climbs([j \in 0..0 |-> n], n, 0)
    BY DEF Climbs
  <2> QED  BY <1>2, <2>1
<1>3. CASE i # 0
  <2>1. i - 1 \in Nat /\ i - 1 \notin Missing /\ i \in Nat
    BY <1>1, <1>3
  <2>2. PICK g : Climbs(g, n, i - 1)
    BY <2>1
  <2> DEFINE h == [j \in 0..i |-> IF j = i THEN Up(g[i - 1]) ELSE g[j]]
  <2>3. Climbs(h, n, i)
    <3>1. DOMAIN h = 0..i /\ h[0] = g[0] /\ h[i] = Up(g[i - 1])
      BY <1>3, <2>1
    <3>2. \A j \in 0..(i - 1) : h[j] = g[j]
      BY <2>1
    <3> HIDE DEF h
    <3>3. ASSUME NEW j \in 1..i PROVE h[j] = Up(h[j - 1])
      <4>1. CASE j = i
        BY <2>1, <3>1, <3>2, <4>1, <1>3
      <4>2. CASE j # i
        <5>1. j \in 1..(i - 1) /\ j \in 0..(i - 1) /\ j - 1 \in 0..(i - 1)
          BY <2>1, <4>2
        <5> QED  BY <2>2, <3>2, <5>1 DEF Climbs
      <4> QED  BY <4>1, <4>2
    <3> QED  BY <2>2, <3>1, <3>3 DEF Climbs
  <2> QED  BY <1>1, <2>3
<1> QED  BY <1>2, <1>3

LEMMA AboveClimbs == ASSUME NEW n PROVE Climbs(Above(n), n, Cardinality(Node))
<1>1. Cardinality(Node) \in Nat
  BY TreesAssumption, FS_CardinalityType
<1> DEFINE N == Cardinality(Node)
           Told(f) == [i \in 0..N |-> IF i = 0 THEN n ELSE IF f[i - 1] = Top THEN Top
                                                           ELSE parent[f[i - 1]]]
<1>2. PICK g : Climbs(g, n, N)
  BY <1>1, ClimbsExist
<1> DEFINE h == [i \in 0..N |-> g[i]]
<1>3. h = Told(h)
  BY <1>1, <1>2 DEF Climbs, Up
<1>4. Above(n) = CHOOSE f : f = Told(f)
  BY DEF Above
<1> HIDE DEF h, N
<1>5. Above(n) = Told(Above(n))
  <2>1. (CHOOSE f : f = Told(f)) = Told(CHOOSE f : f = Told(f))
    BY <1>3, Zenon
  <2> QED  BY <1>4, <2>1, Zenon
<1>6. N \in Nat /\ N = Cardinality(Node)
  BY <1>1 DEF N
<1> HIDE DEF Told
<1> DEFINE a == Above(n)
<1>7. a = Told(a)
  BY <1>5
<1> HIDE DEF a
<1>8. Climbs(a, n, N)
  BY <1>6, <1>7 DEF Climbs, Up, Told
<1> QED  BY <1>6, <1>8 DEF a

(* Nodes whose parents are among them never lead to the top. *)
Trap(T) == T # {} /\ T \subseteq There /\ \A t \in T : parent[t] \in T
NoTrap == \A T \in SUBSET There : ~ Trap(T)

(* Above p there are only nodes that are not n. *)
Clear(n, p) == \E U : p \in U /\ n \notin U /\ \A t \in U \cap There : parent[t] \in U

(* Who does not reach the top meets nodes only. *)
LEMMA ClimbsStay ==
  ASSUME \A m \in There : parent[m] \in There \cup {Top}, Top \notin There,
         NEW n \in There, NEW N \in Nat,
         NEW g, Climbs(g, n, N), g[N] # Top
  PROVE  \A i \in 0..N : g[i] \in There
<1> DEFINE Off == {i \in 0..N : g[i] \notin There \cup {Top}}
           Low(k) == {i \in 0..N : k <= i /\ g[i] # Top}
<1>1. Off = {}
  <2> SUFFICES ASSUME Off # {} PROVE FALSE
    OBVIOUS
  <2>1. Off \in SUBSET Nat /\ \A i : i \in Off <=> i \in 0..N /\ g[i] \notin There \cup {Top}
    OBVIOUS
  <2> HIDE DEF Off
  <2>2. PICK i \in Off : \A j \in Off : i <= j
    BY <2>1, LeastNatural
  <2>3. i # 0
    BY <2>1 DEF Climbs
  <2>4. i \in 1..N /\ i - 1 \in 0..N /\ i - 1 \notin Off
    BY <2>1, <2>2, <2>3
  <2> QED  BY <2>1, <2>4 DEF Climbs, Up
<1>2. ASSUME NEW k \in 0..N, g[k] = Top PROVE FALSE
  <2> DEFINE L == Low(k)
  <2>1. L \in SUBSET Nat /\ \A i : i \in L <=> i \in 0..N /\ k <= i /\ g[i] # Top
    OBVIOUS
  <2>2. L # {}
    OBVIOUS
  <2> HIDE DEF L
  <2>3. PICK i \in L : \A j \in L : i <= j
    BY <2>1, <2>2, LeastNatural
  <2>4. i # k
    BY <1>2, <2>1
  <2>5. i \in 1..N /\ i - 1 \in 0..N /\ k <= i - 1 /\ i - 1 \notin L
    BY <2>1, <2>3, <2>4
  <2> QED  BY <2>1, <2>5 DEF Climbs, Up
<1> QED  BY <1>1, <1>2

(* A node in a cycle is trapped: among the nodes above it one is met       *)
(* twice, and those from the one time to the other lead to each other.     *)
LEMMA CycleIsTrap ==
  ASSUME TreesTypeOK, NEW n \in There, InACycle(n)
  PROVE  ~ NoTrap
<1> DEFINE N == Cardinality(Node)
           g == Above(n)
<1>1. /\ N \in Nat /\ IsFiniteSet(Node) /\ There \subseteq Node
      /\ Top \notin There /\ \A m \in There : parent[m] \in There \cup {Top}
  BY TreesAssumption, FS_CardinalityType DEF TreesTypeOK
<1>2. Climbs(g, n, N) /\ g[N] # Top
  BY AboveClimbs DEF InACycle
<1> HIDE DEF g
<1>3. \A i \in 0..N : g[i] \in There
  BY <1>1, <1>2, ClimbsStay
<1>4. Cardinality(0..N) = N + 1 /\ IsFiniteSet(0..N)
  BY <1>1, FS_Interval
<1> HIDE DEF N
<1> DEFINE f == [i \in 0..N |-> g[i]]
<1>5. f \in [0..N -> Node] /\ Cardinality(Node) < Cardinality(0..N)
  BY <1>1, <1>3, <1>4 DEF N
<1>6. \E i, j \in 0..N : i # j /\ f[i] = f[j]
  <2> HIDE DEF f
  <2> QED  BY <1>1, <1>4, <1>5, FS_PigeonHole
<1>7. PICK i, j \in 0..N : i < j /\ g[i] = g[j]
  BY <1>1, <1>6
<1> DEFINE T == {g[m] : m \in i..(j - 1)}
<1>8. T \subseteq There /\ T # {}
  <2>1. i \in i..(j - 1) /\ i..(j - 1) \subseteq 0..N
    BY <1>1, <1>7
  <2> QED  BY <1>3, <2>1
<1>9. ASSUME NEW m \in i..(j - 1) PROVE parent[g[m]] \in T
  <2>1. m \in 0..N /\ m + 1 \in 1..N /\ (m + 1) - 1 = m
    BY <1>1, <1>7
  <2>2. g[m + 1] = parent[g[m]]
    BY <1>1, <1>2, <1>3, <2>1 DEF Climbs, Up
  <2>3. CASE m + 1 = j
    BY <1>1, <1>7, <2>2, <2>3
  <2>4. CASE m + 1 # j
    BY <1>1, <1>7, <2>2, <2>4
  <2> QED  BY <2>3, <2>4
<1>10. Trap(T)
  BY <1>8, <1>9 DEF Trap
<1> QED  BY <1>8, <1>10 DEF NoTrap

(* A node that is not among the ancestors of p is not above it. *)
LEMMA ClearOfAncestors ==
  ASSUME TreesTypeOK, NEW n, NEW p, p # n, ~ InACycle(p), n \notin Ancestors(p), n # Top
  PROVE  Clear(n, p)
<1> DEFINE N == Cardinality(Node)
           g == Above(p)
           U == {g[i] : i \in 0..N}
<1>1. N \in Nat /\ Top \notin There
  BY TreesAssumption, FS_CardinalityType DEF TreesTypeOK
<1>2. Climbs(g, p, N) /\ g[N] = Top /\ \A i \in 1..N : g[i] # n
  BY AboveClimbs DEF InACycle, Ancestors
<1> HIDE DEF N, g
<1>3. p \in U /\ n \notin U
  BY <1>1, <1>2 DEF Climbs
<1>4. ASSUME NEW i \in 0..N, g[i] \in There PROVE parent[g[i]] \in U
  <2>1. i # N
    BY <1>1, <1>2, <1>4
  <2>2. i + 1 \in 1..N /\ (i + 1) - 1 = i /\ i + 1 \in 0..N
    BY <1>1, <2>1
  <2>3. g[i + 1] = parent[g[i]]
    BY <1>1, <1>2, <1>4, <2>2 DEF Climbs, Up
  <2> QED  BY <2>2, <2>3
<1> QED  BY <1>3, <1>4 DEF Clear

(* A move under what the node is not above traps none. *)
LEMMA MoveTrapsNone ==
  ASSUME NoTrap, NEW n \in There, NEW p, p # n, Top \notin There,
         p = Top \/ Clear(n, p), parent' = [parent EXCEPT ![n] = p]
  PROVE  NoTrap'
<1> SUFFICES ASSUME NEW T \in SUBSET There, Trap(T)' PROVE FALSE
  BY DEF NoTrap, There
<1>1. T # {} /\ T \subseteq There /\ \A t \in T : parent'[t] \in T
  BY DEF Trap
<1>2. \A t \in T : t # n => parent[t] \in T
  BY <1>1 DEF There
<1>3. n \in T
  BY <1>1, <1>2 DEF NoTrap, Trap
<1>4. p \in T
  BY <1>1, <1>3 DEF There
<1>5. PICK U : p \in U /\ n \notin U /\ \A t \in U \cap There : parent[t] \in U
  BY <1>1, <1>4 DEF Clear
<1> DEFINE W == T \cap U
<1>6. W \in SUBSET There /\ Trap(W)
  BY <1>1, <1>2, <1>4, <1>5 DEF Trap
<1> QED  BY <1>6 DEF NoTrap

(* A new node traps none: no node is below it yet. *)
LEMMA NewTrapsNone ==
  ASSUME NoTrap, NEW n, n \notin There, NEW p, p # n, n # Top,
         \A m \in There : parent[m] \in There \cup {Top},
         parent' = [m \in There \cup {n} |-> IF m = n THEN p ELSE parent[m]]
  PROVE  NoTrap'
<1>0. There' = There \cup {n} /\ parent'[n] = p /\ \A m \in There : parent'[m] = parent[m]
  BY DEF There
<1> SUFFICES ASSUME NEW T \in SUBSET (There \cup {n}), Trap(T)' PROVE FALSE
  BY <1>0 DEF NoTrap
<1>1. T # {} /\ \A t \in T : parent'[t] \in T
  BY DEF Trap
<1> DEFINE W == T \ {n}
<1>2. \A t \in W : parent[t] \in W
  BY <1>0, <1>1
<1>3. W # {}
  BY <1>0, <1>1
<1> QED  BY <1>2, <1>3 DEF NoTrap, Trap

(* What is clear stays so when a new node comes, or one moves to the top. *)
LEMMA ClearStays ==
  ASSUME NEW n, NEW p, n \in There, p \in There \cup {Top}, Clear(n, p), Top \notin There',
         \A t \in There : parent[t] \in There \cup {Top},
         There \subseteq There',
         \A t \in There : parent'[t] \in {parent[t], Top}
  PROVE  Clear(n, p)'
<1>1. PICK U : p \in U /\ n \notin U /\ \A t \in U \cap There : parent[t] \in U
  BY DEF Clear
<1> DEFINE W == (U \cap There) \cup {Top}
<1>2. p \in W /\ n \notin W
  BY <1>1
<1>3. ASSUME NEW t \in W \cap There PROVE parent'[t] \in W
  <2>1. t \in U \cap There
    BY <1>3
  <2>2. parent[t] \in U /\ parent[t] \in There \cup {Top}
    BY <1>1, <2>1
  <2> QED  BY <2>1, <2>2
<1>4. \A t \in W \cap There' : parent'[t] \in W
  BY <1>3
<1> QED  BY <1>2, <1>4 DEF Clear

(* What a request knows of its nodes, whoever else is at work *)
EditReads(k) ==
  LET e == editing[k] IN
  /\ e # NotEditing => k \in desk
  /\ e.at \in {"ancestors", "update", "commit", "children", "archive"} => e.node \in There
  /\ e.at \in {"insert", "ancestors", "update", "commit"} =>
       e.node \in Node /\ e.under \in There \cup {Top} /\ e.under # e.node
  /\ e.at \in {"ancestors", "commit"} => e.under # Top
  /\ e.at = "commit" => kind = "org_node"

(* What it found is still so, when requests come in turn *)
EditInTurn(k) ==
  LET e == editing[k] IN
  /\ e.at \in {"insert", "ancestors", "update", "commit"} => e.under \notin archived
  /\ e.at = "update" => e.under = Top \/ Clear(e.node, e.under)
  /\ e.at = "archive" => \A m \in There \ archived : parent[m] # e.node

(* What the trigger found is still so, unless moves crossed *)
EditCommits(k) ==
  editing[k].at = "commit" => Clear(editing[k].node, editing[k].under)

Straight == (kind = "org_node" /\ ~ crossed) \/ InTurn

(* No node is trapped, for org nodes unless moves crossed *)
TreesInv ==
  /\ TreesTypeOK
  /\ \A k \in Clerk : EditReads(k)
  /\ ~ crossed => \A j, k \in Clerk :
       editing[j].at = "commit" /\ editing[k].at = "commit" => j = k
  /\ Straight => NoTrap /\ \A k \in Clerk : EditCommits(k)
  /\ InTurn =>
       /\ \A n \in There \ archived : parent[n] \notin archived
       /\ \A k \in Clerk : EditInTurn(k)

(* One request's step: it alone has found what the step changes. *)
LEMMA EditGoesOn ==
  ASSUME TreesInv, UNCHANGED <<desk, kind>>, crossed => crossed', NEW k \in Clerk, k \in desk,
         \A j \in Clerk : j # k => editing'[j] = editing[j],
         TreesTypeOK', There \subseteq There',
         EditReads(k)',
         ~ crossed' /\ editing'[k].at = "commit" =>
           \A j \in Clerk : j # k => editing[j].at # "commit",
         Straight' => NoTrap' /\ EditCommits(k)',
         Straight' => \A j \in Clerk : j # k => EditCommits(j)',
         InTurn => (\A n \in There \ archived : parent[n] \notin archived)',
         InTurn => EditInTurn(k)'
  PROVE  TreesInv'
<1>1. InTurn' = InTurn
  BY DEF InTurn
<1>2. ASSUME NEW j \in Clerk PROVE EditReads(j)'
  <2>1. CASE j = k
    BY <2>1
  <2>2. CASE j # k
    <3>1. EditReads(j) /\ editing'[j] = editing[j]
      BY <2>2 DEF TreesInv
    <3> QED  BY <3>1 DEF EditReads
  <2> QED  BY <2>1, <2>2
<1>3. ASSUME InTurn, NEW j \in Clerk PROVE EditInTurn(j)'
  <2>1. CASE j = k
    BY <1>3, <2>1
  <2>2. CASE j # k
    <3>1. editing[j] = NotEditing
      BY <1>3, <2>2 DEF TreesInv, EditReads, InTurn
    <3>2. editing'[j].at = "idle"
      BY <2>2, <3>1 DEF NotEditing
    <3> QED  BY <3>2 DEF EditInTurn
  <2> QED  BY <2>1, <2>2
<1>4. Straight' => NoTrap' /\ \A j \in Clerk : EditCommits(j)'
  OBVIOUS
<1>5. (~ crossed => \A i, j \in Clerk :
         editing[i].at = "commit" /\ editing[j].at = "commit" => i = j)'
  <2> SUFFICES ASSUME ~ crossed', NEW i \in Clerk, NEW j \in Clerk, i # j,
                      editing'[i].at = "commit", editing'[j].at = "commit"
               PROVE  FALSE
    OBVIOUS
  <2>1. CASE i = k \/ j = k
    BY <2>1
  <2>2. CASE i # k /\ j # k
    BY <2>2 DEF TreesInv
  <2> QED  BY <2>1, <2>2
<1> QED  BY <1>1, <1>2, <1>3, <1>4, <1>5 DEF TreesInv

(* A request that finds nothing new leaves the trees as they are. *)
LEMMA EditReadsOn ==
  ASSUME TreesInv, UNCHANGED <<desk, kind, parent, archived>>, crossed => crossed',
         NEW k \in Clerk, k \in desk,
         \A j \in Clerk : j # k => editing'[j] = editing[j],
         TreesTypeOK', EditReads(k)', InTurn => EditInTurn(k)',
         ~ crossed' /\ editing'[k].at = "commit" =>
           \A j \in Clerk : j # k => editing[j].at # "commit",
         Straight' => EditCommits(k)'
  PROVE  TreesInv'
<1>1. There \subseteq There'
  BY DEF There
<1>2. Straight' => Straight
  BY DEF Straight, InTurn
<1>3. Straight' => NoTrap'
  BY <1>2 DEF TreesInv, NoTrap, Trap, There
<1>4. ASSUME Straight', NEW j \in Clerk, j # k PROVE EditCommits(j)'
  <2>1. EditCommits(j) /\ editing'[j] = editing[j]
    BY <1>2, <1>4 DEF TreesInv
  <2> QED  BY <2>1 DEF EditCommits, Clear, There
<1>5. InTurn => (\A n \in There \ archived : parent[n] \notin archived)'
  BY DEF TreesInv, There
<1> QED  BY <1>1, <1>3, <1>4, <1>5, EditGoesOn

(* The tree is empty. *)
LEMMA TreesBegin == TreesInit => TreesInv
<1> SUFFICES ASSUME TreesInit PROVE TreesInv
  OBVIOUS
<1>1. There = {}
  BY DEF TreesInit, There
<1>2. \A k \in Clerk : editing[k] = NotEditing
  BY DEF TreesInit
<1>3. NotEditing.at = "idle"
  BY DEF NotEditing
<1>4. TreesTypeOK
  BY <1>1 DEF TreesInit, TreesTypeOK
<1>5. NoTrap
  BY <1>1 DEF NoTrap, Trap
<1> QED  BY <1>1, <1>2, <1>3, <1>4, <1>5 DEF TreesInv, EditReads, EditInTurn, EditCommits

EditSteps == {"insert", "ancestors", "update", "commit", "children", "archive"}
Editing == [at : EditSteps, node : Node, under : Node \cup {Top}]

(* Every step on a tree keeps what its requests rest on. *)
LEMMA TreesStep ==
  ASSUME TreesInv, TreesNext, UNCHANGED desk
  PROVE  TreesInv'
<1> USE TreesAssumption
<1>1. PICK k \in Clerk :
         \/ \E n \in Node, p \in Node \cup {Top} : createNode(k, n, p) \/ assertMoveAllowed(k, n, p)
         \/ \E n \in Node : archiveNode(k, n)
         \/ insertNode(k) \/ listAncestorIds(k) \/ org_node_prevent_cycle(k) \/ updateNodeFields(k)
         \/ countActiveChildren(k) \/ setNodeStatus(k)
         \/ EditDies(k)
  BY DEF TreesNext
<1>2. /\ TreesTypeOK /\ There \subseteq Node /\ Top \notin There /\ archived \subseteq There
      /\ \A m \in There : parent[m] \in There \cup {Top}
      /\ editing \in [Clerk -> {NotEditing} \cup Editing]
  BY DEF TreesInv, TreesTypeOK, Editing, EditSteps
<1>3. EditReads(k) /\ (InTurn => EditInTurn(k))
  BY DEF TreesInv
<1>4. /\ Straight => NoTrap /\ \A j \in Clerk : EditCommits(j)
      /\ InTurn => \A n \in There \ archived : parent[n] \notin archived
      /\ \A j \in Clerk : EditReads(j)
  BY DEF TreesInv
<1>5. ASSUME NEW e \in {NotEditing} \cup Editing, editing' = [editing EXCEPT ![k] = e],
             UNCHANGED <<kind, parent, archived>>, crossed' \in BOOLEAN, crossed => crossed',
             k \in desk,
             EditReads(k)', InTurn => EditInTurn(k)',
             ~ crossed' /\ e.at = "commit" => \A j \in Clerk : j # k => editing[j].at # "commit",
             e.at = "commit" => Clear(e.node, e.under)
      PROVE  TreesInv'
  <2>1. editing'[k] = e /\ \A j \in Clerk : j # k => editing'[j] = editing[j]
    BY <1>2, <1>5
  <2>2. TreesTypeOK'
    <3>1. editing' \in [Clerk -> {NotEditing} \cup Editing]
      BY <1>2, <1>5
    <3> QED  BY <1>2, <1>5, <3>1 DEF TreesTypeOK, Editing, EditSteps, There
  <2>3. EditCommits(k)'
    BY <1>5, <2>1 DEF EditCommits, Clear, There
  <2> QED  BY <1>5, <2>1, <2>2, <2>3, EditReadsOn
<1>6. ASSUME NEW e, editing' = [editing EXCEPT ![k] = e]
      PROVE  editing'[k] = e
  BY <1>2, <1>6
<1>7. editing[k].at # "idle" => editing[k] \in Editing /\ k \in desk
  BY <1>2, <1>3 DEF EditReads, NotEditing
<1>8. ASSUME NEW step \in EditSteps,
             editing[k] \in Editing, EditsAt(k, step), UNCHANGED <<kind, parent, archived>>,
             crossed' \in BOOLEAN, crossed => crossed',
             k \in desk,
             \/ editing[k].at = "ancestors" /\ step = "update"
             \/ editing[k].at = "children" /\ step = "archive"
             \/ editing[k].at = "update" /\ step = "commit"
                  /\ kind = "org_node" /\ editing[k].under # Top,
             step \in {"update", "commit"} => Clear(editing[k].node, editing[k].under),
             step = "archive" => \A m \in There \ archived : parent[m] # editing[k].node,
             ~ crossed' /\ step = "commit" => \A j \in Clerk : j # k => editing[j].at # "commit"
      PROVE  TreesInv'
  <2>1. PICK e : e = [editing[k] EXCEPT !.at = step]
    OBVIOUS
  <2>2. e \in Editing /\ e.at = step /\ e.node = editing[k].node /\ e.under = editing[k].under
    BY <1>8, <2>1 DEF Editing
  <2>3. editing' = [editing EXCEPT ![k] = e]
    BY <1>2, <1>8, <2>1 DEF EditsAt
  <2>4. EditReads(k)'
    BY <1>3, <1>6, <1>8, <2>2, <2>3 DEF EditReads, There
  <2>5. InTurn => EditInTurn(k)'
    BY <1>3, <1>6, <1>8, <2>2, <2>3 DEF EditInTurn, There, Clear
  <2> QED  BY <1>5, <1>8, <2>2, <2>3, <2>4, <2>5
<1>9. ASSUME EditEnds(k), UNCHANGED <<kind, parent, archived, crossed>>, k \in desk
      PROVE  TreesInv'
  <2>1. editing'[k] = NotEditing /\ NotEditing.at = "idle"
    BY <1>2, <1>9 DEF EditEnds, NotEditing
  <2>2. EditReads(k)' /\ EditInTurn(k)'
    BY <2>1 DEF EditReads, EditInTurn
  <2>3. crossed \in BOOLEAN
    BY <1>2 DEF TreesTypeOK
  <2> QED  BY <1>5, <1>9, <2>1, <2>2, <2>3 DEF EditEnds
<1>10. ASSUME NEW n \in Node, NEW p \in Node \cup {Top},
              NEW step \in {"insert", "ancestors", "update", "children"},
              StartsEdit(k, step, n, p),
              step # "insert" => n \in There,
              step # "children" => p # n /\ TakesChildren(p),
              step = "ancestors" => p # Top,
              step = "update" => p = Top
       PROVE  TreesInv'
  <2>1. PICK e \in Editing : e = [at |-> step, node |-> n, under |-> p]
    BY DEF Editing, EditSteps
  <2>2. e.at = step /\ e.node = n /\ e.under = p
    BY <2>1
  <2>3. /\ editing' = [editing EXCEPT ![k] = e] /\ k \in desk /\ e # NotEditing
        /\ UNCHANGED <<kind, parent, archived, crossed>>
    BY <1>10, <2>1, <2>2 DEF StartsEdit, NotEditing
  <2>4. EditReads(k)'
    BY <1>6, <1>10, <2>2, <2>3 DEF EditReads, TakesChildren, There
  <2>5. EditInTurn(k)'
    BY <1>2, <1>6, <1>10, <2>2, <2>3 DEF EditInTurn, TakesChildren, There
  <2>6. crossed \in BOOLEAN /\ e.at # "commit"
    BY <1>2, <2>2 DEF TreesTypeOK
  <2> QED  BY <1>5, <2>3, <2>4, <2>5, <2>6
<1>11. ASSUME NEW n \in Node, NEW p \in Node \cup {Top}, createNode(k, n, p) PROVE TreesInv'
  <2>1. p # n
    BY <1>11 DEF createNode, TakesChildren
  <2> QED  BY <1>10, <1>11, <2>1 DEF createNode
<1>12. ASSUME NEW n \in Node, NEW p \in Node \cup {Top}, assertMoveAllowed(k, n, p)
       PROVE  TreesInv'
  BY <1>10, <1>12 DEF assertMoveAllowed
<1>13. ASSUME NEW n \in Node, archiveNode(k, n) PROVE TreesInv'
  BY <1>10, <1>13 DEF archiveNode
<1>20. ASSUME EditEnds(k), UNCHANGED crossed, There \subseteq There', UNCHANGED kind, Top \notin There',
              \/ \A t \in There : parent'[t] \in {parent[t], Top}
              \/ Straight => \A j \in Clerk : j # k => editing[j].at # "commit"
       PROVE  /\ editing'[k] = NotEditing /\ NotEditing.at = "idle"
              /\ \A j \in Clerk : j # k => editing'[j] = editing[j]
              /\ EditReads(k)' /\ EditInTurn(k)' /\ EditCommits(k)'
              /\ editing' \in [Clerk -> {NotEditing} \cup Editing]
              /\ Straight' = Straight
              /\ Straight => \A j \in Clerk : j # k => EditCommits(j)'
  <2>1. /\ editing'[k] = NotEditing /\ NotEditing.at = "idle"
        /\ \A j \in Clerk : j # k => editing'[j] = editing[j]
    BY <1>2, <1>20 DEF EditEnds, NotEditing
  <2>2. EditReads(k)' /\ EditInTurn(k)' /\ EditCommits(k)'
    BY <2>1 DEF EditReads, EditInTurn, EditCommits
  <2>3. editing' \in [Clerk -> {NotEditing} \cup Editing]
    BY <1>2, <1>20 DEF EditEnds
  <2>4. Straight' = Straight
    BY <1>20 DEF Straight, InTurn
  <2>5. ASSUME Straight, NEW j \in Clerk, j # k PROVE EditCommits(j)'
    <3>1. PICK n, p : n = editing[j].node /\ p = editing[j].under
      OBVIOUS
    <3>2. CASE editing[j].at = "commit"
      <4>1. /\ Clear(n, p) /\ n \in There /\ p \in There \cup {Top}
            /\ \A t \in There : parent'[t] \in {parent[t], Top}
        BY <1>4, <1>20, <2>5, <3>1, <3>2 DEF EditCommits, EditReads
      <4>2. Clear(n, p)'
        BY <1>2, <1>20, <4>1, ClearStays
      <4> QED  BY <2>1, <2>5, <3>1, <4>2 DEF EditCommits, Clear
    <3>3. CASE editing[j].at # "commit"
      BY <2>1, <2>5, <3>3 DEF EditCommits
    <3> QED  BY <3>2, <3>3
  <2> QED  BY <2>1, <2>2, <2>3, <2>4, <2>5
<1>14. CASE insertNode(k)
  <2>1. editing[k] \in Editing /\ k \in desk /\ editing[k].at = "insert"
    BY <1>7, <1>14 DEF insertNode
  <2>2. PICK n, p : n = editing[k].node /\ p = editing[k].under
    OBVIOUS
  <2>3. n \in Node /\ p \in There \cup {Top} /\ p # n /\ n # Top
    BY <1>3, <2>1, <2>2 DEF EditReads
  <2>4. EditEnds(k) /\ UNCHANGED <<kind, archived, crossed>>
    BY <1>14 DEF insertNode
  <2>5. CASE n \in There
    BY <1>9, <1>14, <2>1, <2>2, <2>4, <2>5 DEF insertNode
  <2>6. CASE n \notin There
    <3>1. parent' = [m \in There \cup {n} |-> IF m = n THEN p ELSE parent[m]]
      BY <1>14, <2>2, <2>6 DEF insertNode
    <3>2. /\ There' = There \cup {n} /\ parent'[n] = p
          /\ \A m \in There : parent'[m] = parent[m]
      BY <2>6, <3>1 DEF There
    <3>3. /\ editing'[k] = NotEditing /\ NotEditing.at = "idle"
          /\ \A j \in Clerk : j # k => editing'[j] = editing[j]
          /\ EditReads(k)' /\ EditInTurn(k)' /\ EditCommits(k)'
          /\ editing' \in [Clerk -> {NotEditing} \cup Editing]
          /\ Straight' = Straight
          /\ Straight => \A j \in Clerk : j # k => EditCommits(j)'
      BY <1>2, <1>20, <2>3, <2>4, <3>2
    <3>4. Straight => NoTrap'
      BY <1>2, <1>4, <2>3, <2>6, <3>1, NewTrapsNone
    <3>7. TreesTypeOK'
      BY <1>2, <2>3, <2>4, <3>2, <3>3 DEF TreesTypeOK, Editing, EditSteps
    <3>8. ASSUME InTurn PROVE (\A m \in There \ archived : parent[m] \notin archived)'
      <4>1. p \notin archived
        BY <1>3, <2>1, <2>2, <3>8 DEF EditInTurn
      <4> QED  BY <1>4, <2>4, <3>2, <3>8, <4>1
    <3> QED  BY <2>1, <2>4, <3>2, <3>3, <3>4, <3>7, <3>8, EditGoesOn
  <2> QED  BY <2>5, <2>6
<1>15. CASE listAncestorIds(k)
  <2>1. editing[k] \in Editing /\ k \in desk /\ editing[k].at = "ancestors"
    BY <1>7, <1>15 DEF listAncestorIds
  <2>2. PICK n, p : n = editing[k].node /\ p = editing[k].under
    OBVIOUS
  <2>3. /\ UNCHANGED <<kind, parent, archived, crossed>> /\ ~ InACycle(p)
        /\ crossed' \in BOOLEAN
    BY <1>2, <1>15, <2>2 DEF listAncestorIds, TreesTypeOK
  <2>4. CASE n \in Ancestors(p)
    <3>1. EditEnds(k)
      BY <1>15, <2>2, <2>4 DEF listAncestorIds
    <3> QED  BY <1>9, <2>1, <2>3, <3>1
  <2>5. CASE n \notin Ancestors(p)
    <3>1. EditsAt(k, "update")
      BY <1>15, <2>2, <2>5 DEF listAncestorIds
    <3>2. p # n /\ n # Top
      BY <1>3, <2>1, <2>2 DEF EditReads
    <3>3. Clear(n, p)
      BY <1>2, <2>3, <2>5, <3>2, ClearOfAncestors
    <3>4. "update" \in EditSteps
      BY DEF EditSteps
    <3> QED  BY <1>8, <2>1, <2>2, <2>3, <3>1, <3>3, <3>4
  <2> QED  BY <2>4, <2>5
<1>21. CASE org_node_prevent_cycle(k)
  <2>1. /\ editing[k] \in Editing /\ k \in desk /\ editing[k].at = "update"
        /\ kind = "org_node" /\ UNCHANGED <<kind, parent, archived>>
    BY <1>7, <1>21 DEF org_node_prevent_cycle
  <2>2. PICK n, p : n = editing[k].node /\ p = editing[k].under
    OBVIOUS
  <2>3. CASE n \in Ancestors(p)
    <3>1. EditEnds(k) /\ UNCHANGED crossed
      BY <1>21, <2>2, <2>3 DEF org_node_prevent_cycle
    <3> QED  BY <1>9, <2>1, <3>1
  <2>4. CASE n \notin Ancestors(p)
    <3>1. /\ ~ InACycle(p) /\ EditsAt(k, "commit") /\ p # Top
          /\ crossed' = (crossed \/ \E j \in Clerk : editing[j].at = "commit")
      BY <1>21, <2>2, <2>4 DEF org_node_prevent_cycle
    <3>2. p # n /\ n # Top
      BY <1>3, <2>1, <2>2 DEF EditReads
    <3>3. Clear(n, p)
      BY <1>2, <2>4, <3>1, <3>2, ClearOfAncestors
    <3>4. "commit" \in EditSteps
      BY DEF EditSteps
    <3>5. /\ crossed' \in BOOLEAN /\ (crossed => crossed')
          /\ ~ crossed' => \A j \in Clerk : j # k => editing[j].at # "commit"
      BY <3>1
    <3> QED  BY <1>8, <2>1, <2>2, <3>1, <3>3, <3>4, <3>5
  <2> QED  BY <2>3, <2>4
<1>16. CASE updateNodeFields(k)
  <2>1. /\ editing[k] \in Editing /\ k \in desk
        /\ \/ editing[k].at = "commit"
           \/ editing[k].at = "update" /\ (kind = "org_node" => editing[k].under = Top)
    BY <1>7, <1>16 DEF updateNodeFields
  <2>2. PICK n, p : n = editing[k].node /\ p = editing[k].under
    OBVIOUS
  <2>3. n \in There /\ p \in There \cup {Top} /\ p # n /\ n # Top
    BY <1>2, <1>3, <2>1, <2>2 DEF EditReads
  <2>4. EditEnds(k) /\ UNCHANGED <<kind, archived, crossed>>
    BY <1>16 DEF updateNodeFields
  <2>5. parent' = [parent EXCEPT ![n] = p]
    BY <1>16, <2>2 DEF updateNodeFields
  <2>6. There' = There /\ parent'[n] = p /\ \A m \in There \ {n} : parent'[m] = parent[m]
    BY <2>3, <2>5 DEF There
  <2>7. Straight /\ p # Top => Clear(n, p)
    <3>1. CASE editing[k].at = "commit"
      BY <1>4, <2>2, <3>1 DEF EditCommits
    <3>2. CASE editing[k].at = "update"
      <4>1. Straight /\ p # Top => InTurn
        BY <2>1, <2>2, <3>2 DEF Straight
      <4> QED  BY <1>3, <2>2, <3>2, <4>1 DEF EditInTurn
    <3> QED  BY <2>1, <3>1, <3>2
  <2>8. Straight => NoTrap'
    BY <1>2, <1>4, <2>3, <2>5, <2>7, MoveTrapsNone
  <2>9. \/ \A t \in There : parent'[t] \in {parent[t], Top}
        \/ Straight => \A j \in Clerk : j # k => editing[j].at # "commit"
    <3>1. CASE p = Top
      BY <2>6, <3>1
    <3>2. CASE editing[k].at = "commit"
      <4>1. ~ crossed => \A j \in Clerk : j # k => editing[j].at # "commit"
        BY <3>2 DEF TreesInv
      <4>2. InTurn => \A j \in Clerk : j # k => editing[j].at # "commit"
        <5>1. ASSUME InTurn, NEW j \in Clerk, j # k PROVE editing[j] = NotEditing
          BY <1>4, <2>1, <5>1 DEF EditReads, InTurn
        <5> QED  BY <5>1 DEF NotEditing
      <4> QED  BY <4>1, <4>2 DEF Straight
    <3>3. CASE editing[k].at = "update" /\ p # Top
      BY <1>4, <2>1, <2>2, <3>3 DEF EditReads
    <3> QED  BY <2>1, <3>1, <3>2, <3>3
  <2>10. /\ editing'[k] = NotEditing /\ NotEditing.at = "idle"
         /\ \A j \in Clerk : j # k => editing'[j] = editing[j]
         /\ EditReads(k)' /\ EditInTurn(k)' /\ EditCommits(k)'
         /\ editing' \in [Clerk -> {NotEditing} \cup Editing]
         /\ Straight' = Straight
         /\ Straight => \A j \in Clerk : j # k => EditCommits(j)'
    BY <1>2, <1>20, <2>4, <2>6, <2>9
  <2>11. TreesTypeOK'
    BY <1>2, <2>3, <2>4, <2>6, <2>10 DEF TreesTypeOK, Editing, EditSteps
  <2>12. ASSUME InTurn PROVE (\A m \in There \ archived : parent[m] \notin archived)'
    <3>1. p \notin archived
      BY <1>3, <2>1, <2>2, <2>12 DEF EditInTurn
    <3> QED  BY <1>4, <2>4, <2>6, <2>12, <3>1
  <2> QED  BY <2>1, <2>4, <2>6, <2>8, <2>10, <2>11, <2>12, EditGoesOn
<1>17. CASE countActiveChildren(k)
  <2>1. /\ editing[k] \in Editing /\ k \in desk /\ editing[k].at = "children"
        /\ UNCHANGED <<kind, parent, archived, crossed>> /\ crossed' \in BOOLEAN
    BY <1>2, <1>7, <1>17 DEF countActiveChildren, TreesTypeOK
  <2>2. CASE \E m \in There \ archived : parent[m] = editing[k].node
    BY <1>9, <1>17, <2>1, <2>2 DEF countActiveChildren
  <2>3. CASE ~ \E m \in There \ archived : parent[m] = editing[k].node
    <3>1. "archive" \in EditSteps /\ EditsAt(k, "archive")
      BY <1>17, <2>3 DEF countActiveChildren, EditSteps
    <3> QED  BY <1>8, <2>1, <2>3, <3>1
  <2> QED  BY <2>2, <2>3
<1>18. CASE setNodeStatus(k)
  <2>1. editing[k] \in Editing /\ k \in desk /\ editing[k].at = "archive"
    BY <1>7, <1>18 DEF setNodeStatus
  <2>2. PICK n \in There : n = editing[k].node
    BY <1>3, <2>1 DEF EditReads
  <2>3. EditEnds(k) /\ UNCHANGED <<kind, parent, crossed>> /\ archived' = archived \cup {n}
    BY <1>18, <2>2 DEF setNodeStatus
  <2>4. There' = There /\ \A t \in There : parent'[t] \in {parent[t], Top}
    BY <2>3 DEF There
  <2>5. /\ editing'[k] = NotEditing /\ NotEditing.at = "idle"
        /\ \A j \in Clerk : j # k => editing'[j] = editing[j]
        /\ EditReads(k)' /\ EditInTurn(k)' /\ EditCommits(k)'
        /\ editing' \in [Clerk -> {NotEditing} \cup Editing]
        /\ Straight' = Straight
        /\ Straight => \A j \in Clerk : j # k => EditCommits(j)'
    BY <1>2, <1>20, <2>3, <2>4
  <2>7. TreesTypeOK'
    BY <1>2, <2>3, <2>4, <2>5 DEF TreesTypeOK, Editing, EditSteps
  <2>8. Straight => NoTrap'
    BY <1>4, <2>3 DEF NoTrap, Trap, There
  <2>9. ASSUME InTurn PROVE (\A m \in There \ archived : parent[m] \notin archived)'
    <3>1. \A m \in There \ archived : parent[m] # n
      BY <1>3, <2>1, <2>2, <2>9 DEF EditInTurn
    <3> QED  BY <1>4, <2>3, <2>4, <2>9, <3>1
  <2> QED  BY <2>1, <2>3, <2>4, <2>5, <2>7, <2>8, <2>9, EditGoesOn
<1>19. CASE EditDies(k)
  <2>1. k \in desk
    BY <1>3, <1>19 DEF EditReads, EditDies
  <2> QED  BY <1>9, <1>19, <2>1 DEF EditDies
<1> QED  BY <1>1, <1>11, <1>12, <1>13, <1>14, <1>15, <1>16, <1>17, <1>18, <1>19, <1>21

(* The invariant of the trees office holds. *)
LEMMA TreesAlways == Spec => []TreesInv
<1>1. Init => TreesInv
  BY TreesBegin DEF Init
<1>2. TreesInv /\ [Next]_vars => TreesInv'
  <2> SUFFICES ASSUME TreesInv, [Next]_vars PROVE TreesInv'
    OBVIOUS
  <2>1. CASE TreesNext /\ UNCHANGED desk
    BY <2>1, TreesStep
  <2>2. CASE UNCHANGED <<treeVars, desk>>
    BY <2>2 DEF treeVars, TreesInv, TreesTypeOK, EditReads, EditInTurn, EditCommits, Straight,
                NoTrap, Trap, Clear, There, InTurn
  <2> QED  BY <2>1, <2>2 DEF Next, vars
<1>3. QED
  BY <1>1, <1>2, PTL DEF Spec

(* Every node's ancestors lead to the top: of org nodes even when requests *)
(* overlap, as long as no two moves are past the trigger at a time; of     *)
(* categories when they come in turn.  In turn, what is archived has no    *)
(* child that is not (0000_organization_core.sql:60-89,                    *)
(* organization.service.ts:132-155, catalog.service.ts:109-126).           *)
THEOREM TreesStaySound == Spec => []TreeIsSound
<1>1. TreesInv => TreeIsSound
  BY CycleIsTrap DEF TreesInv, TreeIsSound, Straight
<1>2. QED
  BY <1>1, TreesAlways, PTL

=============================================================================
