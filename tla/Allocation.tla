----------------------------- MODULE Allocation -----------------------------
(***************************************************************************)
(* Allocation: one overhead pool, its entries, its policies and what they  *)
(* allocate of it to work orders (cost.service.ts).  An entry is one unit  *)
(* of expense, and every work order has the same base quantity; amounts    *)
(* allocated count parts of a unit, Shares * Orders of which make one.     *)
(***************************************************************************)
EXTENDS Desk, Naturals, FiniteSets, Functions

CONSTANTS
  Policy,     \* policies that may be created, each for any share of the pool
  Shares,     \* a whole pool has this many shares (100%)
  Orders,     \* how many work orders the pool's period has
  MaxEntries  \* bound: entries of the pool

ASSUME AllocationAssumption ==
  /\ IsFiniteSet(Policy)
  /\ Shares \in Nat \ {0} /\ Orders \in Nat \ {0} /\ MaxEntries \in Nat

VARIABLES
  pool,       \* overhead_pool: status, total
  entries,    \* rows of overhead_pool_entry
  share,      \* the share of each policy, 0 before it is created
  allocated,  \* the sum of each policy's allocation_result rows
  costing     \* each clerk's request: step, policy, what it read, rows left to insert

allocationVars == <<pool, entries, share, allocated, costing>>

NoCosting == [at |-> "idle", policy |-> {}, read |-> 0, left |-> 0]

Costing ==
  [at : {"idle", "entry", "sum", "total", "activate", "active", "policy", "delete", "insert",
         "allocated"},
   policy : {{}} \cup Policy, read : Nat, left : 0..Orders]

AllocationTypeOK ==
  /\ pool \in [status : {"draft", "active", "allocated"}, total : 0..MaxEntries]
  /\ entries \in 0..MaxEntries
  /\ share \in [Policy -> 0..Shares]
  /\ allocated \in [Policy -> Nat]
  /\ costing \in [Clerk -> Costing]

AllocationInit ==
  /\ pool = [status |-> "draft", total |-> 0]
  /\ entries = 0
  /\ share = [p \in Policy |-> 0]
  /\ allocated = [p \in Policy |-> 0]
  /\ costing = [k \in Clerk |-> NoCosting]

StartsCosting(k, step, p, read) ==
  /\ k \in desk /\ costing[k] = NoCosting
  /\ costing' = [costing EXCEPT ![k] =
                   [at |-> step, policy |-> p, read |-> read, left |-> Orders]]
  /\ UNCHANGED <<pool, entries, share, allocated>>
CostingAt(k, step) == costing' = [costing EXCEPT ![k].at = step]
CostingEnds(k) == costing' = [costing EXCEPT ![k] = NoCosting]

(* addPoolEntry: refused unless draft or active *)
addPoolEntry(k) ==
  /\ pool.status \in {"draft", "active"}
  /\ entries < MaxEntries
  /\ StartsCosting(k, "entry", {}, 0)

insertPoolEntry(k) ==
  /\ costing[k].at = "entry"
  /\ entries < MaxEntries
  /\ entries' = entries + 1
  /\ CostingAt(k, "sum")
  /\ UNCHANGED <<pool, share, allocated>>

getPoolTotal(k) ==
  /\ costing[k].at = "sum"
  /\ costing' = [costing EXCEPT ![k].at = "total", ![k].read = entries]
  /\ UNCHANGED <<pool, entries, share, allocated>>

(* The last statement of addPoolEntry, the last but one of activatePool *)
updatePoolTotal(k) ==
  /\ costing[k].at \in {"total", "activate"}
  /\ pool' = [pool EXCEPT !.total = costing[k].read]
  /\ IF costing[k].at = "total" THEN CostingEnds(k) ELSE CostingAt(k, "active")
  /\ UNCHANGED <<entries, share, allocated>>

(* activatePool: refused unless a draft with entries *)
activatePool(k) ==
  /\ pool.status = "draft" /\ entries > 0
  /\ StartsCosting(k, "activate", {}, entries)

(* createPolicy: refused when the code is in use, or the shares that the   *)
(* pool's policies have by now and this one's are more than the whole *)
createPolicy(k, p, s) ==
  /\ share[p] = 0
  /\ SumFunction(share) + s <= Shares
  /\ StartsCosting(k, "policy", p, s)

insertPolicy(k) ==
  /\ costing[k].at = "policy"
  /\ share' = IF share[costing[k].policy] = 0
              THEN [share EXCEPT ![costing[k].policy] = costing[k].read] ELSE share
  /\ CostingEnds(k)
  /\ UNCHANGED <<pool, entries, allocated>>

(* executeAllocation: refused unless the pool is active *)
executeAllocation(k, p) ==
  /\ share[p] > 0
  /\ pool.status = "active"
  /\ StartsCosting(k, "delete", p, pool.total)

(* Mutant: the results of an earlier, failed execution stay *)
KeepsOldResults(k) ==
  /\ costing[k].at = "delete"
  /\ CostingAt(k, "insert")
  /\ UNCHANGED <<pool, entries, share, allocated>>

deleteResultsByPolicy(k) ==
  /\ costing[k].at = "delete"
  /\ allocated' = [allocated EXCEPT ![costing[k].policy] = 0]
  /\ CostingAt(k, "insert")
  /\ UNCHANGED <<pool, entries, share>>

insertAllocationResult(k) ==
  LET p == costing[k].policy IN
  /\ costing[k].at = "insert"
  /\ allocated' = [allocated EXCEPT ![p] = @ + share[p] * costing[k].read]
  /\ costing' = [costing EXCEPT ![k].left = @ - 1,
                                ![k].at = IF costing[k].left = 1 THEN "allocated" ELSE "insert"]
  /\ UNCHANGED <<pool, entries, share>>

(* By id, whatever the status is by now: the last statement of             *)
(* activatePool, and of executeAllocation *)
setPoolStatus(k) ==
  /\ costing[k].at \in {"active", "allocated"}
  /\ pool' = [pool EXCEPT !.status = costing[k].at]
  /\ CostingEnds(k)
  /\ UNCHANGED <<entries, share, allocated>>

CostingDies(k) ==
  /\ costing[k] # NoCosting
  /\ CostingEnds(k)
  /\ UNCHANGED <<pool, entries, share, allocated>>

AllocationNext ==
  \E k \in Clerk :
    \/ addPoolEntry(k) \/ insertPoolEntry(k) \/ getPoolTotal(k) \/ updatePoolTotal(k)
    \/ activatePool(k)
    \/ \E p \in Policy, s \in 1..Shares : createPolicy(k, p, s)
    \/ insertPolicy(k)
    \/ \E p \in Policy : executeAllocation(k, p)
    \/ deleteResultsByPolicy(k) \/ insertAllocationResult(k)
    \/ setPoolStatus(k)
    \/ CostingDies(k)

-----------------------------------------------------------------------------
(* Executed in turn, also again after executions that died in their loop,  *)
(* the policies of a pool never allocate more than it has, and the pool    *)
(* never shows more than its entries, in turn or not.  Two executions of   *)
(* one policy at once double its rows (cost.service.ts:166-178).           *)
NeverMoreThanThePool ==
  /\ pool.total <= entries
  /\ InTurn => SumFunction(allocated) <= pool.total * Shares * Orders

=============================================================================
