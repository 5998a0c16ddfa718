----------------------------- MODULE LandedCost -----------------------------
(***************************************************************************)
(* LandedCost: posting a landed cost voucher (inventory.service.ts).  Item *)
(* by item, the stock's value is read, overwritten with the sum, and a     *)
(* ledger line inserted; then the journal entry, under the voucher's       *)
(* idempotency key; then the voucher's status.  Movements of the same      *)
(* items overwrite the value too.  Values count units of one: an item's    *)
(* share of the expense, or a movement's value.                            *)
(***************************************************************************)
EXTENDS Desk, Naturals

CONSTANTS
  Items,     \* the voucher has items 1..Items
  Mapped,    \* whether the inventory account is configured
  MaxValue   \* bound: no request starts once a value, or the lines of an
             \* item, have reached it

ASSUME LandedCostAssumption == Items \in Nat \ {0} /\ Mapped \in BOOLEAN /\ MaxValue \in Nat

VARIABLES
  voucher,    \* its status
  stockValue, \* stock_balance.total_value of each item
  revalued,   \* each item's ledger lines: of the voucher, and of movements
  costEntry,  \* the journal entry with the voucher's key
  landing     \* each clerk's request: step, item, value read

landedVars == <<voucher, stockValue, revalued, costEntry, landing>>

NotLanding == [at |-> "idle", item |-> 0, read |-> 0]

LandedCostTypeOK ==
  /\ voucher \in {"draft", "posted", "cancelled"}
  /\ stockValue \in [1..Items -> Nat]
  /\ revalued \in [1..Items -> [voucher : Nat, movements : Nat]]
  /\ costEntry \in {"none", "draft", "posted"}
  /\ landing \in [Clerk -> {NotLanding} \cup
       [at : {"read", "value", "line", "create", "post", "mark", "moveValue", "moveLine", "cancel"},
        item : 1..Items, read : Nat]]

LandedCostInit ==
  /\ voucher = "draft"
  /\ stockValue = [i \in 1..Items |-> 0]
  /\ revalued = [i \in 1..Items |-> [voucher |-> 0, movements |-> 0]]
  /\ costEntry = "none"
  /\ landing = [k \in Clerk |-> NotLanding]

Asks(k, step, i, read) ==
  /\ k \in desk /\ landing[k] = NotLanding
  /\ \A j \in 1..Items : /\ stockValue[j] < MaxValue
                         /\ revalued[j].voucher + revalued[j].movements < MaxValue
  /\ landing' = [landing EXCEPT ![k] = [at |-> step, item |-> i, read |-> read]]
  /\ UNCHANGED <<voucher, stockValue, revalued, costEntry>>
LandsAt(k, step) == landing' = [landing EXCEPT ![k].at = step]
Lands(k) == landing' = [landing EXCEPT ![k] = NotLanding]

(* Refused unless a draft *)
postLandedCostVoucher(k) == voucher = "draft" /\ Asks(k, "read", 1, 0)

findBalance(k) ==
  /\ landing[k].at = "read"
  /\ landing' = [landing EXCEPT ![k].at = "value", ![k].read = stockValue[landing[k].item]]
  /\ UNCHANGED <<voucher, stockValue, revalued, costEntry>>

(* applyValuation: of the voucher's item, or of a movement *)
applyValuation(k) ==
  /\ landing[k].at \in {"value", "moveValue"}
  /\ stockValue' = [stockValue EXCEPT ![landing[k].item] = landing[k].read + 1]
  /\ LandsAt(k, IF landing[k].at = "value" THEN "line" ELSE "moveLine")
  /\ UNCHANGED <<voucher, revalued, costEntry>>

(* Mutant: the loop ends one item early *)
LeavesTheLast(k) ==
  /\ landing[k].at = "line"
  /\ revalued' = [revalued EXCEPT ![landing[k].item].voucher = @ + 1]
  /\ IF landing[k].item + 1 < Items
     THEN landing' = [landing EXCEPT ![k].at = "read", ![k].item = @ + 1]
     ELSE LandsAt(k, IF Mapped THEN "create" ELSE "mark")
  /\ UNCHANGED <<voucher, stockValue, costEntry>>

insertLedgerEntry(k) ==
  /\ landing[k].at = "line"
  /\ revalued' = [revalued EXCEPT ![landing[k].item].voucher = @ + 1]
  /\ IF landing[k].item < Items
     THEN landing' = [landing EXCEPT ![k].at = "read", ![k].item = @ + 1]
     ELSE LandsAt(k, IF Mapped THEN "create" ELSE "mark")
  /\ UNCHANGED <<voucher, stockValue, costEntry>>

(* createEntry is refused when the voucher's key is in use *)
CreatesCostEntry(k) ==
  /\ landing[k].at = "create"
  /\ IF costEntry = "none" THEN costEntry' = "draft" /\ LandsAt(k, "post")
                           ELSE UNCHANGED costEntry /\ Lands(k)
  /\ UNCHANGED <<voucher, stockValue, revalued>>

PostsCostEntry(k) ==
  /\ landing[k].at = "post"
  /\ costEntry' = "posted"
  /\ LandsAt(k, "mark")
  /\ UNCHANGED <<voucher, stockValue, revalued>>

(* setLandedCostVoucherStatus, by id *)
MarksVoucher(k) ==
  /\ landing[k].at \in {"mark", "cancel"}
  /\ voucher' = IF landing[k].at = "mark" THEN "posted" ELSE "cancelled"
  /\ Lands(k)
  /\ UNCHANGED <<stockValue, revalued, costEntry>>

(* Refused only if posted *)
cancelLandedCostVoucher(k) == voucher # "posted" /\ Asks(k, "cancel", 1, 0)

(* A receipt of an item, from where it reads the balance (see Stock) *)
Moves(k, i) == Asks(k, "moveValue", i, stockValue[i])

MoveLedgerLine(k) ==
  /\ landing[k].at = "moveLine"
  /\ revalued' = [revalued EXCEPT ![landing[k].item].movements = @ + 1]
  /\ Lands(k)
  /\ UNCHANGED <<voucher, stockValue, costEntry>>

LandingDies(k) ==
  /\ landing[k] # NotLanding
  /\ Lands(k)
  /\ UNCHANGED <<voucher, stockValue, revalued, costEntry>>

LandedCostNext ==
  \E k \in Clerk :
    \/ postLandedCostVoucher(k)
    \/ findBalance(k)
    \/ applyValuation(k)
    \/ insertLedgerEntry(k)
    \/ CreatesCostEntry(k)
    \/ PostsCostEntry(k)
    \/ MarksVoucher(k)
    \/ cancelLandedCostVoucher(k)
    \/ \E i \in 1..Items : Moves(k, i)
    \/ MoveLedgerLine(k)
    \/ LandingDies(k)

-----------------------------------------------------------------------------
(* A posted voucher's expense is on every item's ledger, at least once,    *)
(* and in the journal, however many attempts died before.  With requests   *)
(* in turn every ledger line's value is also in the balance: overlapping   *)
(* ones overwrite each other's (inventory.service.ts:484).                 *)
PostedIsCapitalized ==
  /\ voucher = "posted" =>
       /\ \A i \in 1..Items : revalued[i].voucher > 0
       /\ Mapped => costEntry = "posted"
  /\ InTurn => \A i \in 1..Items :
       stockValue[i] >= revalued[i].voucher + revalued[i].movements

=============================================================================
