-------------------------------- MODULE Stock --------------------------------
(***************************************************************************)
(* Stock: InventoryService's movements, stock counts and reservations, and *)
(* the tables stock_balance, stock_movement, stock_ledger_entry and        *)
(* stock_reservation.                                                      *)
(*                                                                         *)
(* As in the journal there is no transaction: a movement is four           *)
(* statements or more, other requests run between them, and a request may  *)
(* die after any of them.  Quantities are integers, in the unit of         *)
(* numeric(24,6).  Of the valuation only the quantity it was computed for  *)
(* is kept, the costs are left out.                                        *)
(***************************************************************************)
EXTENDS Integers, FiniteSets, Functions

CONSTANTS
  Cell,         \* an item in a warehouse
  Movement,     \* requests to createMovement and reconcileStock
  Reservation,  \* requests to reserveStock
  Clerk,        \* concurrent calls of releaseReservation
  Quantity,     \* the quantities asked for
  Counted,      \* the results of physical counts
  AtOnce,       \* a bound: how many requests are under way at a time
  None

ASSUME QuantityAssumption == Quantity \subseteq Nat \ {0} /\ Counted \subseteq Nat
ASSUME AtOnceAssumption == AtOnce \in Nat
ASSUME NothingAssumption == None \notin Cell \cup Reservation

VARIABLES
  balance,      \* stock_balance, and whether the row is there
  movement,     \* each movement's request, and the rows it has written
  reservation,  \* each reservation's request, and its row
  release       \* the local state of each releaseReservation call

vars == <<balance, movement, reservation, release>>

-----------------------------------------------------------------------------
(* valued: the quantity behind total_value *)
Balance == [kept : BOOLEAN, onHand : Nat, reserved : Nat, valued : Int]

MovementStep == {"unused", "reread", "movement", "delta", "insert", "valuation",
                 "ledger", "entry", "ended", "failed"}

(* in: receipt, transfer_in and adjustment through createMovement.         *)
(* out: issue and transfer_out.  count: reconcileStock.                    *)
(* change: the signed quantity; after: balance_qty_after, computed early.  *)
MovementState ==
  [at : MovementStep, kind : {"none", "in", "out", "count"}, cell : {None} \cup Cell,
   change : Int, after : Int, wrote : SUBSET {"movement", "balance", "ledger"},
   entry : {"none", "draft", "posted"}]

(* held: how often the quantity was added to balance.reserved, less how    *)
(* often it was subtracted (a history variable, no column of the table)    *)
ReservationState ==
  [at : {"unused", "reservation", "delta", "ended", "failed"},
   cell : {None} \cup Cell, quantity : {0} \cup Quantity,
   status : {"none", "active", "released"}, held : Int]

ReleaseState == [at : {"idle", "subtract", "mark"}, reservation : {None} \cup Reservation]

TypeOK ==
  /\ balance \in [Cell -> Balance]
  /\ movement \in [Movement -> MovementState]
  /\ reservation \in [Reservation -> ReservationState]
  /\ release \in [Clerk -> ReleaseState]

-----------------------------------------------------------------------------
(* A cell without a row has nothing on hand, and nothing reserved *)
NoBalance == [kept |-> FALSE, onHand |-> 0, reserved |-> 0, valued |-> 0]
NoMovement == [at |-> "unused", kind |-> "none", cell |-> None, change |-> 0, after |-> 0,
               wrote |-> {}, entry |-> "none"]
NoReservation == [at |-> "unused", cell |-> None, quantity |-> 0, status |-> "none", held |-> 0]
Idle == [at |-> "idle", reservation |-> None]

Available(c) == balance[c].onHand - balance[c].reserved

Resting == {"unused", "ended", "failed"}
Moving == {m \in Movement : movement[m].at \notin Resting}
Reserving == {r \in Reservation : reservation[r].at \notin Resting}
Releasing == {k \in Clerk : release[k].at # "idle"}
MayBegin == Cardinality(Moving) + Cardinality(Reserving) + Cardinality(Releasing) < AtOnce

Init ==
  /\ balance = [c \in Cell |-> NoBalance]
  /\ movement = [m \in Movement |-> NoMovement]
  /\ reservation = [r \in Reservation |-> NoReservation]
  /\ release = [k \in Clerk |-> Idle]

-----------------------------------------------------------------------------
(* createMovement and reconcileStock: what they read *)

Begin(m, request) ==
  /\ movement[m].at = "unused"
  /\ MayBegin
  /\ movement' = [movement EXCEPT ![m] = request]
  /\ UNCHANGED <<balance, reservation, release>>

(* findBalance, on which the whole request is computed: the quantity that  *)
(* will be left in it, and for a count also the change                     *)
Receive(m, c, q) ==
  Begin(m, [NoMovement EXCEPT !.at = "movement", !.kind = "in", !.cell = c,
                              !.change = q, !.after = balance[c].onHand + q])

Count(m, c, physical) ==
  /\ physical # balance[c].onHand
  /\ Begin(m, [NoMovement EXCEPT !.at = "movement", !.kind = "count", !.cell = c,
                                 !.change = physical - balance[c].onHand, !.after = physical])

(* Mutant: does not look at the reservations *)
AskToIssueOnHand(m, c, q) ==
  /\ balance[c].onHand >= q
  /\ Begin(m, [NoMovement EXCEPT !.at = "reread", !.kind = "out", !.cell = c, !.change = -q])

(* An issue reads twice: once for what is available... *)
AskToIssue(m, c, q) ==
  /\ Available(c) >= q
  /\ Begin(m, [NoMovement EXCEPT !.at = "reread", !.kind = "out", !.cell = c, !.change = -q])

(* Mutant: adds what is issued *)
ReadAgainAdds(m) ==
  /\ movement[m].at = "reread"
  /\ movement' = [movement EXCEPT
                    ![m].at = "movement",
                    ![m].after = balance[movement[m].cell].onHand - movement[m].change]
  /\ UNCHANGED <<balance, reservation, release>>

(* ...and once for what will be left *)
ReadAgain(m) ==
  /\ movement[m].at = "reread"
  /\ movement' = [movement EXCEPT
                    ![m].at = "movement",
                    ![m].after = balance[movement[m].cell].onHand + movement[m].change]
  /\ UNCHANGED <<balance, reservation, release>>

-----------------------------------------------------------------------------
(* createMovement and reconcileStock: what they write *)

(* The request's next step, and the row it has written *)
Advance(m, step, row) ==
  movement' = [movement EXCEPT ![m].at = step, ![m].wrote = movement[m].wrote \cup row]

Refuse(m) == movement' = [movement EXCEPT ![m].at = "failed"]

InsertMovement(m) ==
  /\ movement[m].at = "movement"
  /\ Advance(m, "delta", {"movement"})
  /\ UNCHANGED <<balance, reservation, release>>

(* Mutants: on_hand is written from what was read; no CHECK on on_hand *)
WriteBalance(m) ==
  /\ movement[m].at = "delta"
  /\ balance[movement[m].cell].kept
  /\ movement[m].after >= 0
  /\ balance' = [balance EXCEPT ![movement[m].cell].onHand = movement[m].after]
  /\ Advance(m, "valuation", {"balance"})
  /\ UNCHANGED <<reservation, release>>

UpdateUnchecked(m) ==
  /\ movement[m].at = "delta"
  /\ balance[movement[m].cell].kept
  /\ balance' = [balance EXCEPT ![movement[m].cell].onHand = @ + movement[m].change]
  /\ Advance(m, "valuation", {"balance"})
  /\ UNCHANGED <<reservation, release>>

(* applyDelta, if findBalance found the row: on_hand = on_hand + delta in  *)
(* one statement, unless the CHECK on on_hand refuses it.  Rows are never  *)
(* deleted, so the look-up and the update can be one step.                 *)
UpdateBalance(m) ==
  /\ movement[m].at = "delta"
  /\ LET c == movement[m].cell
         left == balance[c].onHand + movement[m].change
     IN /\ balance[c].kept
        /\ \/ /\ left >= 0
              /\ balance' = [balance EXCEPT ![c].onHand = left]
              /\ Advance(m, "valuation", {"balance"})
           \/ /\ left < 0
              /\ Refuse(m)
              /\ UNCHANGED balance
  /\ UNCHANGED <<reservation, release>>

(* applyDelta, if it did not: only an increase comes here, a decrease was  *)
(* checked against a row.                                                  *)
FindNoBalance(m) ==
  /\ movement[m].at = "delta"
  /\ ~balance[movement[m].cell].kept
  /\ Advance(m, "insert", {})
  /\ UNCHANGED <<balance, reservation, release>>

(* The first row of a cell; the UNIQUE constraint refuses a second *)
InsertBalance(m) ==
  /\ movement[m].at = "insert"
  /\ LET c == movement[m].cell
     IN \/ /\ ~balance[c].kept
           /\ balance' = [balance EXCEPT ![c].kept = TRUE, ![c].onHand = movement[m].change]
           /\ Advance(m, "valuation", {"balance"})
        \/ /\ balance[c].kept
           /\ Refuse(m)
           /\ UNCHANGED balance
  /\ UNCHANGED <<reservation, release>>

(* applyValuation: an absolute value, computed from what was read *)
ApplyValuation(m) ==
  /\ movement[m].at = "valuation"
  /\ balance' = [balance EXCEPT ![movement[m].cell].valued = movement[m].after]
  /\ Advance(m, "ledger", {})
  /\ UNCHANGED <<reservation, release>>

InsertLedgerEntry(m) ==
  /\ movement[m].at = "ledger"
  /\ Advance(m, "entry", {"ledger"})
  /\ UNCHANGED <<balance, reservation, release>>

(* postStockMovement, under a key of the movement's own: skipped without   *)
(* accounts or value, left as a draft, or posted.  Module Journal has the  *)
(* steps.                                                                  *)
PostStockMovement(m, outcome) ==
  /\ movement[m].at = "entry"
  /\ movement' = [movement EXCEPT ![m].at = "ended", ![m].entry = outcome]
  /\ UNCHANGED <<balance, reservation, release>>

MovementFails(m) ==
  /\ m \in Moving
  /\ Refuse(m)
  /\ UNCHANGED <<balance, reservation, release>>

-----------------------------------------------------------------------------
(* reserveStock *)

AskToReserve(r, c, q) ==
  /\ reservation[r].at = "unused"
  /\ MayBegin
  /\ Available(c) >= q
  /\ reservation' = [reservation EXCEPT
                       ![r] = [NoReservation EXCEPT !.at = "reservation", !.cell = c, !.quantity = q]]
  /\ UNCHANGED <<balance, movement, release>>

InsertReservation(r) ==
  /\ reservation[r].at = "reservation"
  /\ reservation' = [reservation EXCEPT ![r].at = "delta", ![r].status = "active"]
  /\ UNCHANGED <<balance, movement, release>>

(* applyReservedDelta: the row is there, something was available in it *)
AddToReserved(r) ==
  /\ reservation[r].at = "delta"
  /\ balance' = [balance EXCEPT ![reservation[r].cell].reserved = @ + reservation[r].quantity]
  /\ reservation' = [reservation EXCEPT ![r].at = "ended", ![r].held = @ + 1]
  /\ UNCHANGED <<movement, release>>

ReservationFails(r) ==
  /\ r \in Reserving
  /\ reservation' = [reservation EXCEPT ![r].at = "failed"]
  /\ UNCHANGED <<balance, movement, release>>

-----------------------------------------------------------------------------
(* releaseReservation *)

(* Mutant: marks first, subtracts next *)
MarkThenSubtract(k, r) ==
  /\ release[k] = Idle
  /\ MayBegin
  /\ reservation[r].status = "active"
  /\ reservation' = [reservation EXCEPT ![r].status = "released"]
  /\ release' = [release EXCEPT ![k] = [at |-> "subtract", reservation |-> r]]
  /\ UNCHANGED <<balance, movement>>

ReadReservation(k, r) ==
  /\ release[k] = Idle
  /\ MayBegin
  /\ reservation[r].status = "active"
  /\ release' = [release EXCEPT ![k] = [at |-> "subtract", reservation |-> r]]
  /\ UNCHANGED <<balance, movement, reservation>>

(* applyReservedDelta, unless the CHECK on reserved refuses it *)
SubtractFromReserved(k) ==
  /\ release[k].at = "subtract"
  /\ LET r == release[k].reservation
         c == reservation[r].cell
         left == balance[c].reserved - reservation[r].quantity
     IN \/ /\ left >= 0
           /\ balance' = [balance EXCEPT ![c].reserved = left]
           /\ reservation' = [reservation EXCEPT ![r].held = @ - 1]
           /\ release' = [release EXCEPT ![k].at = "mark"]
        \/ /\ left < 0
           /\ release' = [release EXCEPT ![k] = Idle]
           /\ UNCHANGED <<balance, reservation>>
  /\ UNCHANGED movement

SetReservationReleased(k) ==
  /\ release[k].at = "mark"
  /\ reservation' = [reservation EXCEPT ![release[k].reservation].status = "released"]
  /\ release' = [release EXCEPT ![k] = Idle]
  /\ UNCHANGED <<balance, movement>>

ReleaseFails(k) ==
  /\ k \in Releasing
  /\ release' = [release EXCEPT ![k] = Idle]
  /\ UNCHANGED <<balance, movement, reservation>>

-----------------------------------------------------------------------------
MovementNext ==
  \E m \in Movement :
    \/ \E c \in Cell, q \in Quantity : Receive(m, c, q) \/ AskToIssue(m, c, q)
    \/ \E c \in Cell, physical \in Counted : Count(m, c, physical)
    \/ ReadAgain(m)
    \/ InsertMovement(m)
    \/ UpdateBalance(m)
    \/ FindNoBalance(m)
    \/ InsertBalance(m)
    \/ ApplyValuation(m)
    \/ InsertLedgerEntry(m)
    \/ \E outcome \in {"none", "draft", "posted"} : PostStockMovement(m, outcome)
    \/ MovementFails(m)

ReserveNext ==
  \E r \in Reservation :
    \/ \E c \in Cell, q \in Quantity : AskToReserve(r, c, q)
    \/ InsertReservation(r)
    \/ AddToReserved(r)
    \/ ReservationFails(r)

ReleaseNext ==
  \E k \in Clerk :
    \/ \E r \in Reservation : ReadReservation(k, r)
    \/ SubtractFromReserved(k)
    \/ SetReservationReleased(k)
    \/ ReleaseFails(k)

Next == MovementNext \/ ReserveNext \/ ReleaseNext

Spec == Init /\ [][Next]_vars

-----------------------------------------------------------------------------
(* Properties *)

MovedIn(c) == {m \in Movement : movement[m].cell = c /\ "balance" \in movement[m].wrote}
ReservedIn(c) == {r \in Reservation : reservation[r].cell = c}

(* Balances change through traced movements only, and lose none: however   *)
(* requests overlap or die, the quantity on hand is the sum of the signed  *)
(* quantities of the movements that reached it, each with its row in       *)
(* stock_movement.                                                         *)
OnHandIsTraced ==
  \A c \in Cell :
    /\ balance[c].onHand = SumFunction([m \in MovedIn(c) |-> movement[m].change])
    /\ \A m \in MovedIn(c) : "movement" \in movement[m].wrote

(* releaseReservation subtracts before it marks: a reservation that reads  *)
(* as released holds nothing back any more, even if its release died or    *)
(* ran twice, or came before reserveStock had added the quantity.          *)
ReleasedHoldsNothing ==
  \A r \in Reservation \ Reserving : reservation[r].status = "released" => reservation[r].held <= 0

(* With requests one at a time: what is reserved stays on the shelf.  Only *)
(* a physical count that came out short can leave less on hand than is     *)
(* reserved (reconcileStock does not look at the reservations).            *)
OnlyCountsOverdraw ==
  \A c \in Cell : Available(c) < 0 =>
    \E m \in MovedIn(c) : movement[m].kind = "count" /\ movement[m].change < 0

(* With requests one at a time: a movement that got as far as the stock    *)
(* ledger leaves the quantity on hand, the valuation and the ledger's      *)
(* balance in agreement, whatever earlier requests left undone.            *)
LedgerTellsTheBalance ==
  \A m \in Movement : movement[m].at = "entry" =>
    LET b == balance[movement[m].cell]
    IN b.onHand = movement[m].after /\ b.valued = b.onHand

(* What the decisions say, and the code does not keep: "a quantity that is *)
(* reserved for one order does not appear as available to another", so     *)
(* that no more is promised than there is.                                 *)
NothingPromisedTwice ==
  \A c \in Cell :
    LET active == {r \in ReservedIn(c) : reservation[r].status = "active"}
    IN SumFunction([r \in active |-> reservation[r].quantity]) <= balance[c].onHand

=============================================================================
