----------------------------- MODULE StockProofs -----------------------------
(***************************************************************************)
(* Proofs about module Stock.                                              *)
(***************************************************************************)
EXTENDS Stock, Sums

(* How far a movement's rows go along with its steps *)
MovementInv ==
  \A m \in Movement :
    LET at == movement[m].at
        wrote == movement[m].wrote
    IN /\ at # "unused" => movement[m].cell \in Cell
       /\ at \in {"unused", "reread", "movement", "delta", "insert"} => "balance" \notin wrote
       /\ at \in {"delta", "insert", "valuation", "ledger", "entry", "ended"} => "movement" \in wrote
       /\ "balance" \in wrote => "movement" \in wrote

ReservationInv ==
  \A r \in Reservation :
    LET at == reservation[r].at
    IN /\ at # "unused" => reservation[r].cell \in Cell /\ reservation[r].quantity \in Quantity
       /\ at \in {"unused", "reservation"} => reservation[r].status = "none"

ReleaseInv ==
  \A k \in Clerk :
    release[k].at # "idle" => /\ release[k].reservation \in Reservation
                              /\ reservation[release[k].reservation].status # "none"

(* A cell without a row has nothing on hand, and waits for an increase *)
NoRowInv ==
  /\ \A c \in Cell : balance[c].kept \/ balance[c].onHand = 0
  /\ \A m \in Movement : movement[m].at # "unused" =>
       balance[movement[m].cell].kept \/ movement[m].change \in Nat

RowsInv == TypeOK /\ MovementInv /\ ReservationInv /\ ReleaseInv /\ NoRowInv

(* Nothing has been asked for. *)
LEMMA RowsInit == Init => RowsInv
BY QuantityAssumption DEF Init, RowsInv, TypeOK, MovementInv, ReservationInv, ReleaseInv, NoRowInv,
   NoBalance, NoMovement, NoReservation, Idle, Balance, MovementState, MovementStep, ReservationState, ReleaseState

(* What has not been asked for has its type. *)
LEMMA BlankTypes == NoMovement \in MovementState /\ NoReservation \in ReservationState
BY DEF NoMovement, MovementState, MovementStep, NoReservation, ReservationState

(* A request to move goods has its type. *)
LEMMA RequestType ==
  ASSUME NEW at \in MovementStep, NEW kind \in {"in", "out", "count"}, NEW c \in Cell,
         NEW change \in Int, NEW after \in Int
  PROVE  /\ [NoMovement EXCEPT !.at = at, !.kind = kind, !.cell = c,
                               !.change = change, !.after = after] \in MovementState
         /\ [NoMovement EXCEPT !.at = at, !.kind = kind, !.cell = c,
                               !.change = change] \in MovementState
BY BlankTypes DEF MovementState

(* A movement in a state of its type. *)
LEMMA MovementType ==
  ASSUME TypeOK, NEW m \in Movement, NEW x \in MovementState, movement' = [movement EXCEPT ![m] = x]
  PROVE  movement' \in [Movement -> MovementState]
BY DEF TypeOK

(* A movement that goes on keeps its type, whatever row it has written. *)
LEMMA AdvanceType ==
  ASSUME TypeOK, NEW m \in Movement, NEW step \in MovementStep,
         NEW row \in SUBSET {"movement", "balance", "ledger"}, Advance(m, step, row)
  PROVE  movement' \in [Movement -> MovementState]
<1> DEFINE wrote == movement[m].wrote \cup row
           next == [movement[m] EXCEPT !.at = step, !.wrote = wrote]
<1>1. movement[m] \in MovementState
  BY DEF TypeOK
<1>2. wrote \in SUBSET {"movement", "balance", "ledger"}
  BY <1>1 DEF MovementState
<1> HIDE DEF wrote
<1>3. next \in MovementState
  BY <1>1, <1>2 DEF MovementState
<1>4. movement' = [movement EXCEPT ![m] = next]
  BY DEF Advance, TypeOK, wrote
<1> HIDE DEF next
<1> QED  BY <1>3, <1>4 DEF TypeOK

(* So does one that is refused. *)
LEMMA RefuseType ==
  ASSUME TypeOK, NEW m \in Movement, Refuse(m)
  PROVE  movement' \in [Movement -> MovementState]
BY DEF Refuse, TypeOK, MovementState, MovementStep

(* A cell keeps its type when one of its quantities changes. *)
LEMMA BalanceType ==
  ASSUME TypeOK, NEW c \in Cell, NEW b \in Balance, balance' = [balance EXCEPT ![c] = b]
  PROVE  balance' \in [Cell -> Balance]
BY DEF TypeOK

(* Every step keeps the rows in order. *)
LEMMA RowsStep == RowsInv /\ [Next]_vars => RowsInv'
<1> SUFFICES ASSUME RowsInv, [Next]_vars PROVE RowsInv'
  OBVIOUS
<1> USE QuantityAssumption
<1>1. ASSUME NEW m \in Movement, NEW c \in Cell, NEW q \in Quantity, Receive(m, c, q) PROVE RowsInv'
  <2>1. TypeOK'
    <3> DEFINE request == [NoMovement EXCEPT !.at = "movement", !.kind = "in", !.cell = c,
                                               !.change = q, !.after = balance[c].onHand + q]
    <3>1. balance[c].onHand \in Int
      BY <1>1 DEF RowsInv, TypeOK, Balance
    <3>2. request \in MovementState
      <4>1. "movement" \in MovementStep
        BY DEF MovementStep
      <4>2. q \in Int
        OBVIOUS
      <4>3. balance[c].onHand + q \in Int
        BY <3>1, <4>2
      <4> QED  BY <4>1, <4>2, <4>3, RequestType
    <3>3. Begin(m, request)
      BY <1>1 DEF Receive
    <3> HIDE DEF request
    <3> QED  BY <1>1, <3>2, <3>3, MovementType DEF Begin, RowsInv, TypeOK
  <2>2. MovementInv' /\ NoRowInv'
    BY <1>1 DEF Receive, Begin, NoMovement, RowsInv, TypeOK, MovementState, MovementStep, Balance, MovementInv, NoRowInv
  <2>3. ReservationInv' /\ ReleaseInv'
    BY <1>1 DEF Receive, Begin, NoMovement, RowsInv, TypeOK, ReservationState, ReleaseState, ReservationInv, ReleaseInv
  <2> QED  BY <2>1, <2>2, <2>3 DEF RowsInv
<1>2. ASSUME NEW m \in Movement, NEW c \in Cell, NEW q \in Quantity, AskToIssue(m, c, q) PROVE RowsInv'
  <2>1. TypeOK'
    <3> DEFINE request == [NoMovement EXCEPT !.at = "reread", !.kind = "out", !.cell = c, !.change = -q]
    <3>1. balance[c].onHand \in Int
      BY <1>2 DEF RowsInv, TypeOK, Balance
    <3>2. request \in MovementState
      <4>1. "reread" \in MovementStep
        BY DEF MovementStep
      <4>2. q \in Int
        OBVIOUS
      <4>3. -q \in Int /\ 0 \in Int
        BY <4>2
      <4> QED  BY <4>1, <4>3, RequestType
    <3>3. Begin(m, request)
      BY <1>2 DEF AskToIssue
    <3> HIDE DEF request
    <3> QED  BY <1>2, <3>2, <3>3, MovementType DEF Begin, RowsInv, TypeOK
  <2>2. MovementInv' /\ NoRowInv'
    BY <1>2 DEF AskToIssue, Begin, Available, NoMovement, RowsInv, TypeOK, MovementState, MovementStep, Balance, MovementInv, NoRowInv
  <2>3. ReservationInv' /\ ReleaseInv'
    BY <1>2 DEF AskToIssue, Begin, Available, NoMovement, RowsInv, TypeOK, ReservationState, ReleaseState, ReservationInv, ReleaseInv
  <2> QED  BY <2>1, <2>2, <2>3 DEF RowsInv
<1>3. ASSUME NEW m \in Movement, NEW c \in Cell, NEW physical \in Counted, Count(m, c, physical) PROVE RowsInv'
  <2>1. TypeOK'
    <3> DEFINE request == [NoMovement EXCEPT !.at = "movement", !.kind = "count", !.cell = c,
                                               !.change = physical - balance[c].onHand,
                                               !.after = physical]
    <3>1. balance[c].onHand \in Int
      BY <1>3 DEF RowsInv, TypeOK, Balance
    <3>2. request \in MovementState
      <4>1. "movement" \in MovementStep
        BY DEF MovementStep
      <4>2. physical \in Int
        OBVIOUS
      <4>3. physical - balance[c].onHand \in Int
        BY <3>1, <4>2
      <4> QED  BY <4>1, <4>2, <4>3, RequestType
    <3>3. Begin(m, request)
      BY <1>3 DEF Count
    <3> HIDE DEF request
    <3> QED  BY <1>3, <3>2, <3>3, MovementType DEF Begin, RowsInv, TypeOK
  <2>2. MovementInv' /\ NoRowInv'
    BY <1>3 DEF Count, Begin, NoMovement, RowsInv, TypeOK, MovementState, MovementStep, Balance, MovementInv, NoRowInv
  <2>3. ReservationInv' /\ ReleaseInv'
    BY <1>3 DEF Count, Begin, NoMovement, RowsInv, TypeOK, ReservationState, ReleaseState, ReservationInv, ReleaseInv
  <2> QED  BY <2>1, <2>2, <2>3 DEF RowsInv
<1>4. ASSUME NEW m \in Movement, ReadAgain(m) PROVE RowsInv'
  <2>1. TypeOK'
    <3> DEFINE after == balance[movement[m].cell].onHand + movement[m].change
               next == [movement[m] EXCEPT !.at = "movement", !.after = after]
    <3>1. after \in Int
      BY <1>4 DEF ReadAgain, RowsInv, TypeOK, MovementState, MovementInv, Balance
    <3>2. movement' = [movement EXCEPT ![m] = next]
      BY <1>4 DEF ReadAgain, RowsInv, TypeOK
    <3> HIDE DEF after
    <3>3. next \in MovementState
      <4>1. movement[m] \in MovementState
        BY DEF RowsInv, TypeOK
      <4> QED  BY <3>1, <4>1 DEF MovementState, MovementStep
    <3> HIDE DEF next
    <3> QED  BY <1>4, <3>2, <3>3, MovementType DEF ReadAgain, RowsInv, TypeOK
  <2>2. MovementInv' /\ NoRowInv'
    BY <1>4 DEF ReadAgain, RowsInv, TypeOK, MovementState, MovementStep, Balance, MovementInv, NoRowInv
  <2>3. ReservationInv' /\ ReleaseInv'
    BY <1>4 DEF ReadAgain, RowsInv, TypeOK, ReservationState, ReleaseState, ReservationInv, ReleaseInv
  <2> QED  BY <2>1, <2>2, <2>3 DEF RowsInv
<1>5. ASSUME NEW m \in Movement, InsertMovement(m) PROVE RowsInv'
  <2>1. TypeOK'
    <3>1. Advance(m, "delta", {"movement"})
      BY <1>5 DEF InsertMovement
    <3>2. "delta" \in MovementStep /\ {"movement"} \in SUBSET {"movement", "balance", "ledger"}
      BY DEF MovementStep
    <3>3. movement' \in [Movement -> MovementState]
      BY <3>1, <3>2, AdvanceType DEF RowsInv
    <3> QED  BY <1>5, <3>3 DEF InsertMovement, RowsInv, TypeOK
  <2>2. MovementInv' /\ NoRowInv'
    BY <1>5 DEF InsertMovement, Advance, RowsInv, TypeOK, MovementState, MovementStep, Balance, MovementInv, NoRowInv
  <2>3. ReservationInv' /\ ReleaseInv'
    BY <1>5 DEF InsertMovement, Advance, RowsInv, TypeOK, ReservationState, ReleaseState, ReservationInv, ReleaseInv
  <2> QED  BY <2>1, <2>2, <2>3 DEF RowsInv
<1>6. ASSUME NEW m \in Movement, UpdateBalance(m) PROVE RowsInv'
  <2>1. TypeOK'
    <3>1. Advance(m, "valuation", {"balance"}) \/ Refuse(m)
      BY <1>6 DEF UpdateBalance
    <3>2. "valuation" \in MovementStep /\ {"balance"} \in SUBSET {"movement", "balance", "ledger"}
      BY DEF MovementStep
    <3>3. movement' \in [Movement -> MovementState]
      BY <3>1, <3>2, AdvanceType, RefuseType DEF RowsInv
    <3>4. balance' \in [Cell -> Balance]
      BY <1>6 DEF UpdateBalance, RowsInv, TypeOK, MovementInv, NoRowInv, MovementState, Balance
    <3> QED  BY <1>6, <3>3, <3>4 DEF UpdateBalance, RowsInv, TypeOK
  <2>2. MovementInv' /\ NoRowInv'
    <3>1. MovementInv'
      BY <1>6 DEF UpdateBalance, Advance, Refuse, RowsInv, TypeOK, MovementState, MovementStep, MovementInv
    <3>2. \A n \in Movement : /\ movement'[n].at # "unused" => movement[n].at # "unused"
                             /\ movement'[n].cell = movement[n].cell
                             /\ movement'[n].change = movement[n].change
      BY <1>6 DEF UpdateBalance, Advance, Refuse, RowsInv, TypeOK, MovementState
    <3>3. \A d \in Cell : balance'[d].kept = balance[d].kept /\ (~ balance[d].kept => balance'[d] = balance[d])
      BY <1>6 DEF UpdateBalance, RowsInv, TypeOK, Balance
    <3>4. \A n \in Movement : movement[n].at # "unused" => movement[n].cell \in Cell
      BY DEF RowsInv, MovementInv
    <3>5. NoRowInv'
      BY <3>2, <3>3, <3>4 DEF RowsInv, NoRowInv
    <3> QED  BY <3>1, <3>5
  <2>3. ReservationInv' /\ ReleaseInv'
    BY <1>6 DEF UpdateBalance, Advance, Refuse, RowsInv, TypeOK, ReservationState, ReleaseState, ReservationInv, ReleaseInv
  <2> QED  BY <2>1, <2>2, <2>3 DEF RowsInv
<1>7. ASSUME NEW m \in Movement, FindNoBalance(m) PROVE RowsInv'
  <2>1. TypeOK'
    <3>1. Advance(m, "insert", {})
      BY <1>7 DEF FindNoBalance
    <3>2. "insert" \in MovementStep /\ {} \in SUBSET {"movement", "balance", "ledger"}
      BY DEF MovementStep
    <3>3. movement' \in [Movement -> MovementState]
      BY <3>1, <3>2, AdvanceType DEF RowsInv
    <3> QED  BY <1>7, <3>3 DEF FindNoBalance, RowsInv, TypeOK
  <2>2. MovementInv' /\ NoRowInv'
    BY <1>7 DEF FindNoBalance, Advance, RowsInv, TypeOK, MovementState, MovementStep, Balance, MovementInv, NoRowInv
  <2>3. ReservationInv' /\ ReleaseInv'
    BY <1>7 DEF FindNoBalance, Advance, RowsInv, TypeOK, ReservationState, ReleaseState, ReservationInv, ReleaseInv
  <2> QED  BY <2>1, <2>2, <2>3 DEF RowsInv
<1>8. ASSUME NEW m \in Movement, InsertBalance(m) PROVE RowsInv'
  <2>1. TypeOK'
    <3>1. Advance(m, "valuation", {"balance"}) \/ Refuse(m)
      BY <1>8 DEF InsertBalance
    <3>2. "valuation" \in MovementStep /\ {"balance"} \in SUBSET {"movement", "balance", "ledger"}
      BY DEF MovementStep
    <3>3. movement' \in [Movement -> MovementState]
      BY <3>1, <3>2, AdvanceType, RefuseType DEF RowsInv
    <3>4. balance' \in [Cell -> Balance]
      <4> DEFINE c == movement[m].cell
      <4>1. c \in Cell /\ balance[c] \in Balance
        BY <1>8 DEF InsertBalance, RowsInv, TypeOK, MovementInv
      <4>2. CASE balance[c].kept
        BY <1>8, <4>2 DEF InsertBalance, RowsInv, TypeOK
      <4>3. CASE ~balance[c].kept
        <5> DEFINE b == [balance[c] EXCEPT !.kept = TRUE, !.onHand = movement[m].change]
        <5>1. movement[m].change \in Nat
          BY <1>8, <4>3 DEF InsertBalance, RowsInv, NoRowInv
        <5>2. b \in Balance
          BY <4>1, <5>1 DEF Balance
        <5>3. balance' = [balance EXCEPT ![c] = b]
          BY <1>8, <4>3 DEF InsertBalance, RowsInv, TypeOK
        <5> HIDE DEF b, c
        <5> QED  BY <4>1, <5>2, <5>3, BalanceType DEF RowsInv
      <4> QED  BY <4>2, <4>3
    <3> QED  BY <1>8, <3>3, <3>4 DEF InsertBalance, RowsInv, TypeOK
  <2>2. MovementInv' /\ NoRowInv'
    <3>1. MovementInv'
      BY <1>8 DEF InsertBalance, Advance, Refuse, RowsInv, TypeOK, MovementState, MovementInv
    <3>2. \A c \in Cell : balance'[c] = balance[c] \/ balance'[c].kept
      BY <1>8 DEF InsertBalance, RowsInv, TypeOK, Balance, MovementInv
    <3>4. \A n \in Movement : /\ movement'[n].cell = movement[n].cell
                              /\ movement'[n].change = movement[n].change
                              /\ movement'[n].at # "unused" => movement[n].at # "unused"
      BY <1>8 DEF InsertBalance, Advance, Refuse, RowsInv, TypeOK, MovementState
    <3>3. NoRowInv'
      <4>1. ASSUME NEW c \in Cell PROVE balance'[c].kept \/ balance'[c].onHand = 0
        BY <3>2 DEF RowsInv, NoRowInv
      <4>2. ASSUME NEW n \in Movement, movement'[n].at # "unused"
            PROVE  balance'[movement'[n].cell].kept \/ movement'[n].change \in Nat
        <5>1. movement[n].at # "unused" /\ movement[n].cell \in Cell
          BY <3>4, <4>2 DEF RowsInv, MovementInv
        <5>2. balance[movement[n].cell].kept \/ movement[n].change \in Nat
          BY <5>1 DEF RowsInv, NoRowInv
        <5> QED  BY <3>2, <3>4, <5>1, <5>2
      <4> QED  BY <4>1, <4>2 DEF NoRowInv
    <3> QED  BY <3>1, <3>3
  <2>3. ReservationInv' /\ ReleaseInv'
    BY <1>8 DEF InsertBalance, Advance, Refuse, RowsInv, TypeOK, ReservationState, ReleaseState, ReservationInv, ReleaseInv
  <2> QED  BY <2>1, <2>2, <2>3 DEF RowsInv
<1>9. ASSUME NEW m \in Movement, ApplyValuation(m) PROVE RowsInv'
  <2>1. TypeOK'
    <3>1. Advance(m, "ledger", {})
      BY <1>9 DEF ApplyValuation
    <3>2. "ledger" \in MovementStep /\ {} \in SUBSET {"movement", "balance", "ledger"}
      BY DEF MovementStep
    <3>3. movement' \in [Movement -> MovementState]
      BY <3>1, <3>2, AdvanceType DEF RowsInv
    <3>4. balance' \in [Cell -> Balance]
      BY <1>9 DEF ApplyValuation, RowsInv, TypeOK, MovementInv, NoRowInv, MovementState, Balance
    <3> QED  BY <1>9, <3>3, <3>4 DEF ApplyValuation, RowsInv, TypeOK
  <2>2. MovementInv' /\ NoRowInv'
    BY <1>9 DEF ApplyValuation, Advance, RowsInv, TypeOK, MovementState, MovementStep, Balance, MovementInv, NoRowInv
  <2>3. ReservationInv' /\ ReleaseInv'
    BY <1>9 DEF ApplyValuation, Advance, RowsInv, TypeOK, ReservationState, ReleaseState, ReservationInv, ReleaseInv
  <2> QED  BY <2>1, <2>2, <2>3 DEF RowsInv
<1>10. ASSUME NEW m \in Movement, InsertLedgerEntry(m) PROVE RowsInv'
  <2>1. TypeOK'
    <3>1. Advance(m, "entry", {"ledger"})
      BY <1>10 DEF InsertLedgerEntry
    <3>2. "entry" \in MovementStep /\ {"ledger"} \in SUBSET {"movement", "balance", "ledger"}
      BY DEF MovementStep
    <3>3. movement' \in [Movement -> MovementState]
      BY <3>1, <3>2, AdvanceType DEF RowsInv
    <3> QED  BY <1>10, <3>3 DEF InsertLedgerEntry, RowsInv, TypeOK
  <2>2. MovementInv' /\ NoRowInv'
    BY <1>10 DEF InsertLedgerEntry, Advance, RowsInv, TypeOK, MovementState, MovementStep, Balance, MovementInv, NoRowInv
  <2>3. ReservationInv' /\ ReleaseInv'
    BY <1>10 DEF InsertLedgerEntry, Advance, RowsInv, TypeOK, ReservationState, ReleaseState, ReservationInv, ReleaseInv
  <2> QED  BY <2>1, <2>2, <2>3 DEF RowsInv
<1>11. ASSUME NEW m \in Movement, NEW outcome \in {"none", "draft", "posted"}, PostStockMovement(m, outcome) PROVE RowsInv'
  <2>1. TypeOK'
    <3> DEFINE next == [movement[m] EXCEPT !.at = "ended", !.entry = outcome]
    <3>1. next \in MovementState /\ movement' = [movement EXCEPT ![m] = next]
      <4>1. movement[m] \in MovementState
        BY DEF RowsInv, TypeOK
      <4>2. next \in MovementState
        BY <4>1 DEF MovementState, MovementStep
      <4> QED  BY <1>11, <4>2 DEF PostStockMovement, RowsInv, TypeOK
    <3> HIDE DEF next
    <3> QED  BY <1>11, <3>1, MovementType DEF PostStockMovement, RowsInv, TypeOK
  <2>2. MovementInv' /\ NoRowInv'
    BY <1>11 DEF PostStockMovement, RowsInv, TypeOK, MovementState, MovementStep, Balance, MovementInv, NoRowInv
  <2>3. ReservationInv' /\ ReleaseInv'
    BY <1>11 DEF PostStockMovement, RowsInv, TypeOK, ReservationState, ReleaseState, ReservationInv, ReleaseInv
  <2> QED  BY <2>1, <2>2, <2>3 DEF RowsInv
<1>12. ASSUME NEW m \in Movement, MovementFails(m) PROVE RowsInv'
  <2>1. TypeOK'
    BY <1>12, RefuseType DEF MovementFails, RowsInv, TypeOK
  <2>2. MovementInv' /\ NoRowInv'
    BY <1>12 DEF MovementFails, Moving, Resting, Refuse, RowsInv, TypeOK, MovementState, MovementStep, Balance, MovementInv, NoRowInv
  <2>3. ReservationInv' /\ ReleaseInv'
    BY <1>12 DEF MovementFails, Moving, Resting, Refuse, RowsInv, TypeOK, ReservationState, ReleaseState, ReservationInv, ReleaseInv
  <2> QED  BY <2>1, <2>2, <2>3 DEF RowsInv
<1>13. ASSUME NEW r \in Reservation, NEW c \in Cell, NEW q \in Quantity, AskToReserve(r, c, q) PROVE RowsInv'
  <2>1. TypeOK'
    <3> DEFINE row == [NoReservation EXCEPT !.at = "reservation", !.cell = c, !.quantity = q]
    <3>1. row \in ReservationState
      BY <1>13, BlankTypes DEF ReservationState
    <3>2. reservation' = [reservation EXCEPT ![r] = row]
      BY <1>13 DEF AskToReserve
    <3> HIDE DEF row
    <3> QED  BY <1>13, <3>1, <3>2 DEF AskToReserve, RowsInv, TypeOK
  <2>2. MovementInv' /\ NoRowInv'
    BY <1>13 DEF AskToReserve, NoReservation, RowsInv, TypeOK, MovementState, MovementStep, Balance, MovementInv, NoRowInv
  <2>3. ReservationInv' /\ ReleaseInv'
    BY <1>13 DEF AskToReserve, NoReservation, RowsInv, TypeOK, ReservationState, ReleaseState, ReservationInv, ReleaseInv
  <2> QED  BY <2>1, <2>2, <2>3 DEF RowsInv
<1>14. ASSUME NEW r \in Reservation, InsertReservation(r) PROVE RowsInv'
  <2>1. TypeOK'
    BY <1>14 DEF InsertReservation, RowsInv, TypeOK, ReservationState, ReleaseState, Balance, ReservationInv, ReleaseInv, Idle
  <2>2. MovementInv' /\ NoRowInv'
    BY <1>14 DEF InsertReservation, RowsInv, TypeOK, MovementState, MovementStep, Balance, MovementInv, NoRowInv
  <2>3. ReservationInv' /\ ReleaseInv'
    BY <1>14 DEF InsertReservation, RowsInv, TypeOK, ReservationState, ReleaseState, ReservationInv, ReleaseInv
  <2> QED  BY <2>1, <2>2, <2>3 DEF RowsInv
<1>15. ASSUME NEW r \in Reservation, AddToReserved(r) PROVE RowsInv'
  <2>1. TypeOK'
    BY <1>15 DEF AddToReserved, RowsInv, TypeOK, ReservationState, ReleaseState, Balance, ReservationInv, ReleaseInv, Idle
  <2>2. MovementInv' /\ NoRowInv'
    BY <1>15 DEF AddToReserved, RowsInv, TypeOK, MovementState, MovementStep, Balance, MovementInv, NoRowInv
  <2>3. ReservationInv' /\ ReleaseInv'
    BY <1>15 DEF AddToReserved, RowsInv, TypeOK, ReservationState, ReleaseState, ReservationInv, ReleaseInv
  <2> QED  BY <2>1, <2>2, <2>3 DEF RowsInv
<1>16. ASSUME NEW r \in Reservation, ReservationFails(r) PROVE RowsInv'
  <2>1. TypeOK'
    BY <1>16 DEF ReservationFails, RowsInv, TypeOK, ReservationState, ReleaseState, Balance, ReservationInv, ReleaseInv, Idle
  <2>2. MovementInv' /\ NoRowInv'
    BY <1>16 DEF ReservationFails, Reserving, Resting, RowsInv, TypeOK, MovementState, MovementStep, Balance, MovementInv, NoRowInv
  <2>3. ReservationInv' /\ ReleaseInv'
    BY <1>16 DEF ReservationFails, Reserving, Resting, RowsInv, TypeOK, ReservationState, ReleaseState, ReservationInv, ReleaseInv
  <2> QED  BY <2>1, <2>2, <2>3 DEF RowsInv
<1>17. ASSUME NEW k \in Clerk, NEW r \in Reservation, ReadReservation(k, r) PROVE RowsInv'
  <2>1. TypeOK'
    BY <1>17 DEF ReadReservation, RowsInv, TypeOK, ReservationState, ReleaseState, Balance, ReservationInv, ReleaseInv, Idle
  <2>2. MovementInv' /\ NoRowInv'
    BY <1>17 DEF ReadReservation, Idle, RowsInv, TypeOK, MovementState, MovementStep, Balance, MovementInv, NoRowInv
  <2>3. ReservationInv' /\ ReleaseInv'
    BY <1>17 DEF ReadReservation, Idle, RowsInv, TypeOK, ReservationState, ReleaseState, ReservationInv, ReleaseInv
  <2> QED  BY <2>1, <2>2, <2>3 DEF RowsInv
<1>18. ASSUME NEW k \in Clerk, SubtractFromReserved(k) PROVE RowsInv'
  <2> DEFINE r == release[k].reservation
             c == reservation[r].cell
             left == balance[c].reserved - reservation[r].quantity
  <2>1. /\ release[k] \in ReleaseState /\ release[k].at = "subtract"
        /\ r \in Reservation /\ reservation[r] \in ReservationState /\ reservation[r].status # "none"
    BY <1>18 DEF SubtractFromReserved, RowsInv, TypeOK, ReleaseInv
  <2>2. c \in Cell /\ reservation[r].quantity \in Nat /\ balance[c] \in Balance
    BY <2>1 DEF RowsInv, TypeOK, ReservationInv
  <2>3. MovementInv' /\ NoRowInv'
    <3>1. \A d \in Cell : balance'[d].kept = balance[d].kept /\ balance'[d].onHand = balance[d].onHand
      BY <1>18, <2>2 DEF SubtractFromReserved, RowsInv, TypeOK, Balance
    <3> QED  BY <1>18, <3>1 DEF SubtractFromReserved, RowsInv, MovementInv, NoRowInv
  <2>4. CASE UNCHANGED <<balance, reservation>> /\ release' = [release EXCEPT ![k] = Idle]
    <3>1. TypeOK'
      BY <1>18, <2>4 DEF SubtractFromReserved, RowsInv, TypeOK, ReleaseState, Idle
    <3>2. ReservationInv' /\ ReleaseInv'
      BY <2>4 DEF RowsInv, TypeOK, ReservationInv, ReleaseInv, Idle
    <3> QED  BY <2>3, <3>1, <3>2 DEF RowsInv
  <2>5. CASE /\ left >= 0
             /\ balance' = [balance EXCEPT ![c].reserved = left]
             /\ reservation' = [reservation EXCEPT ![r].held = @ - 1]
             /\ release' = [release EXCEPT ![k].at = "mark"]
    <3>1. left \in Nat
      <4>1. balance[c].reserved \in Int /\ reservation[r].quantity \in Int
        BY <2>2 DEF Balance
      <4>2. \A a, b \in Int : a - b \in Int
        OBVIOUS
      <4>3. left \in Int
        BY <4>1, <4>2
      <4>4. left >= 0
        BY <2>5
      <4> HIDE DEF left
      <4> QED  BY <4>3, <4>4
    <3> HIDE DEF left
    <3>2. balance' \in [Cell -> Balance]
      BY <2>2, <2>5, <3>1 DEF RowsInv, TypeOK, Balance
    <3>3. reservation' \in [Reservation -> ReservationState]
      BY <2>1, <2>5 DEF RowsInv, TypeOK, ReservationState
    <3>4. release' \in [Clerk -> ReleaseState]
      BY <2>1, <2>5 DEF RowsInv, TypeOK, ReleaseState
    <3>5. ReservationInv' /\ ReleaseInv'
      BY <2>1, <2>5 DEF RowsInv, TypeOK, ReservationState, ReleaseState, ReservationInv, ReleaseInv
    <3>6. TypeOK'
      BY <1>18, <3>2, <3>3, <3>4 DEF SubtractFromReserved, RowsInv, TypeOK
    <3> QED  BY <2>3, <3>5, <3>6 DEF RowsInv
  <2> QED  BY <1>18, <2>4, <2>5 DEF SubtractFromReserved
<1>19. ASSUME NEW k \in Clerk, SetReservationReleased(k) PROVE RowsInv'
  <2>1. TypeOK'
    BY <1>19 DEF SetReservationReleased, RowsInv, TypeOK, ReservationState, ReleaseState, Balance, ReservationInv, ReleaseInv, Idle
  <2>2. MovementInv' /\ NoRowInv'
    BY <1>19 DEF SetReservationReleased, Idle, RowsInv, TypeOK, MovementState, MovementStep, Balance, MovementInv, NoRowInv
  <2>3. ReservationInv' /\ ReleaseInv'
    BY <1>19 DEF SetReservationReleased, Idle, RowsInv, TypeOK, ReservationState, ReleaseState, ReservationInv, ReleaseInv
  <2> QED  BY <2>1, <2>2, <2>3 DEF RowsInv
<1>20. ASSUME NEW k \in Clerk, ReleaseFails(k) PROVE RowsInv'
  <2>1. TypeOK'
    BY <1>20 DEF ReleaseFails, RowsInv, TypeOK, ReservationState, ReleaseState, Balance, ReservationInv, ReleaseInv, Idle
  <2>2. MovementInv' /\ NoRowInv'
    BY <1>20 DEF ReleaseFails, Releasing, Idle, RowsInv, TypeOK, MovementState, MovementStep, Balance, MovementInv, NoRowInv
  <2>3. ReservationInv' /\ ReleaseInv'
    BY <1>20 DEF ReleaseFails, Releasing, Idle, RowsInv, TypeOK, ReservationState, ReleaseState, ReservationInv, ReleaseInv
  <2> QED  BY <2>1, <2>2, <2>3 DEF RowsInv
<1>21. CASE UNCHANGED vars
  BY <1>21 DEF vars, RowsInv, TypeOK, MovementInv, ReservationInv, ReleaseInv, NoRowInv
<1>22. CASE MovementNext
  BY <1>22, <1>1, <1>2, <1>3, <1>4, <1>5, <1>6, <1>7, <1>8, <1>9, <1>10, <1>11, <1>12 DEF MovementNext
<1>23. CASE ReserveNext
  BY <1>23, <1>13, <1>14, <1>15, <1>16 DEF ReserveNext
<1>24. CASE ReleaseNext
  BY <1>24, <1>17, <1>18, <1>19, <1>20 DEF ReleaseNext
<1> QED  BY <1>21, <1>22, <1>23, <1>24 DEF Next

(* Every row has its type, whatever overlaps and whatever fails. *)
THEOREM StockRows == Spec => []RowsInv
BY RowsInit, RowsStep, PTL DEF Spec

(* TypeOK for any cells, requests and quantities. *)
THEOREM StockTypes == Spec => []TypeOK
<1>1. RowsInv => TypeOK
  BY DEF RowsInv
<1> QED  BY <1>1, StockRows, PTL

-----------------------------------------------------------------------------
(* What is on hand: a sum that grows with the movements that reached it *)

Moved(c) == [m \in MovedIn(c) |-> movement[m].change]

TracedInv ==
  \A c \in Cell : IsFiniteSet(MovedIn(c)) /\ balance[c].onHand = SumFunction(Moved(c))

(* No movement reaches the cell, and nothing changes in those that have *)
CellKept(c) ==
  /\ MovedIn(c)' = MovedIn(c)
  /\ \A m \in MovedIn(c) : movement[m].change = movement'[m].change
  /\ balance'[c].onHand = balance[c].onHand

(* Movement m reaches the cell *)
CellMoved(c, m) ==
  /\ m \in Movement \ MovedIn(c)
  /\ MovedIn(c)' = MovedIn(c) \cup {m}
  /\ movement[m].change \in Int
  /\ \A n \in MovedIn(c) \cup {m} : movement[n].change = movement'[n].change
  /\ balance'[c].onHand = balance[c].onHand + movement[m].change

(* Each of the two keeps the sum, for a cell of its own. *)
LEMMA TracedWhenKept ==
  ASSUME TypeOK, NEW c \in Cell, IsFiniteSet(MovedIn(c)), balance[c].onHand = SumFunction(Moved(c)),
         CellKept(c)
  PROVE  IsFiniteSet(MovedIn(c)') /\ balance'[c].onHand = SumFunction(Moved(c)')
<1> DEFINE f == Moved(c)
           g == Moved(c)'
           S == MovedIn(c)
<1>1. DOMAIN f = S /\ DOMAIN g = S /\ \A m \in S : f[m] = g[m]
  BY DEF CellKept, Moved
<1>2. SumFunction(f) = SumFunctionOnSet(f, S) /\ SumFunction(g) = SumFunctionOnSet(g, S)
  BY <1>1 DEF SumFunction
<1>3. IsFiniteSet(S) /\ MovedIn(c)' = S
  BY DEF CellKept
<1> HIDE DEF f, g, S
<1>4. SumFunctionOnSet(f, S) = SumFunctionOnSet(g, S)
  BY <1>1, <1>3, SumSame
<1> QED  BY <1>2, <1>3, <1>4 DEF f, g, CellKept

LEMMA TracedWhenMoved ==
  ASSUME TypeOK, NEW c \in Cell, IsFiniteSet(MovedIn(c)), balance[c].onHand = SumFunction(Moved(c)),
         NEW m, CellMoved(c, m)
  PROVE  IsFiniteSet(MovedIn(c)') /\ balance'[c].onHand = SumFunction(Moved(c)')
<1> DEFINE f == Moved(c)
           g == Moved(c)'
           S == MovedIn(c)
           T == S \cup {m}
<1>1. /\ DOMAIN f = S /\ \A n \in S : f[n] = g[n]
      /\ DOMAIN g = T /\ \A n \in T : g[n] \in Int
      /\ g[m] = movement[m].change
  BY DEF CellMoved, Moved, MovedIn, TypeOK, MovementState
<1>2. SumFunction(f) = SumFunctionOnSet(f, S) /\ SumFunction(g) = SumFunctionOnSet(g, T)
  BY <1>1 DEF SumFunction
<1>3. IsFiniteSet(S) /\ MovedIn(c)' = T /\ m \notin S
  BY DEF CellMoved
<1>4. IsFiniteSet(T)
  BY <1>3, FS_AddElement
<1> HIDE DEF f, g, S
<1>5. SumFunctionOnSet(f, S) = SumFunctionOnSet(g, S)
  BY <1>1, <1>3, SumSame
<1>6. SumFunctionOnSet(g, T) = SumFunctionOnSet(g, S) + g[m]
  BY <1>1, <1>3, SumAdds
<1> QED  BY <1>1, <1>2, <1>3, <1>4, <1>5, <1>6 DEF f, g, CellMoved

(* A request that does not write the balance keeps every cell. *)
LEMMA OthersKeep ==
  ASSUME RowsInv, NEW c \in Cell,
         balance'[c].onHand = balance[c].onHand,
         \A m \in Movement :
           \/ /\ movement'[m].cell = movement[m].cell /\ movement'[m].change = movement[m].change
              /\ "balance" \in movement'[m].wrote <=> "balance" \in movement[m].wrote
           \/ "balance" \notin movement[m].wrote /\ "balance" \notin movement'[m].wrote
  PROVE  CellKept(c)
BY DEF CellKept, MovedIn

(* Every step keeps a cell, or a movement reaches it. *)
LEMMA CellStep ==
  ASSUME RowsInv, [Next]_vars, NEW c \in Cell
  PROVE  CellKept(c) \/ \E m \in Movement : CellMoved(c, m)
<1>1. ASSUME NEW m \in Movement, NEW d \in Cell, NEW q \in Quantity, Receive(m, d, q) PROVE CellKept(c)
  BY <1>1, OthersKeep DEF Receive, Begin, NoMovement, RowsInv, MovementInv, TypeOK, MovementState
<1>2. ASSUME NEW m \in Movement, NEW d \in Cell, NEW q \in Quantity, AskToIssue(m, d, q) PROVE CellKept(c)
  BY <1>2, OthersKeep DEF AskToIssue, Begin, NoMovement, RowsInv, MovementInv, TypeOK, MovementState
<1>3. ASSUME NEW m \in Movement, NEW d \in Cell, NEW physical \in Counted, Count(m, d, physical) PROVE CellKept(c)
  BY <1>3, OthersKeep DEF Count, Begin, NoMovement, RowsInv, MovementInv, TypeOK, MovementState
<1>4. ASSUME NEW m \in Movement, ReadAgain(m) PROVE CellKept(c)
  BY <1>4, OthersKeep DEF ReadAgain, RowsInv, TypeOK, MovementState
<1>5. ASSUME NEW m \in Movement, InsertMovement(m) PROVE CellKept(c)
  BY <1>5, OthersKeep DEF InsertMovement, Advance, RowsInv, TypeOK, MovementState
<1>6. ASSUME NEW m \in Movement, UpdateBalance(m) PROVE CellKept(c) \/ CellMoved(c, m)
  <2>1. CASE movement[m].cell = c /\ balance[c].onHand + movement[m].change >= 0
    <3>1. /\ balance'[c].onHand = balance[c].onHand + movement[m].change
          /\ movement'[m].cell = c /\ movement'[m].change = movement[m].change
          /\ movement[m].change \in Int
          /\ "balance" \in movement'[m].wrote /\ "balance" \notin movement[m].wrote
          /\ \A n \in Movement \ {m} : movement'[n] = movement[n]
      BY <1>6, <2>1 DEF UpdateBalance, Advance, RowsInv, TypeOK, MovementState, MovementInv, Balance
    <3> QED  BY <2>1, <3>1 DEF CellMoved, MovedIn
  <2>2. CASE movement[m].cell = c /\ balance[c].onHand + movement[m].change < 0
    <3>1. Refuse(m) /\ UNCHANGED balance
      BY <1>6, <2>2 DEF UpdateBalance, RowsInv, TypeOK, MovementState, Balance
    <3> QED  BY <3>1, OthersKeep DEF Refuse, RowsInv, TypeOK, MovementState
  <2>3. CASE movement[m].cell # c
    <3>1. balance'[c].onHand = balance[c].onHand
      BY <1>6, <2>3 DEF UpdateBalance, RowsInv, TypeOK, MovementInv
    <3>2. /\ movement'[m].cell = movement[m].cell
          /\ \A n \in Movement \ {m} : movement'[n] = movement[n]
      BY <1>6 DEF UpdateBalance, Advance, Refuse, RowsInv, TypeOK, MovementState
    <3> QED  BY <2>3, <3>1, <3>2 DEF CellKept, MovedIn
  <2> QED  BY <2>1, <2>2, <2>3 DEF RowsInv, TypeOK, MovementState, Balance
<1>7. ASSUME NEW m \in Movement, FindNoBalance(m) PROVE CellKept(c)
  BY <1>7, OthersKeep DEF FindNoBalance, Advance, RowsInv, TypeOK, MovementState
<1>8. ASSUME NEW m \in Movement, InsertBalance(m) PROVE CellKept(c) \/ CellMoved(c, m)
  <2>1. CASE movement[m].cell = c /\ ~balance[c].kept
    <3>1. /\ balance'[c].onHand = movement[m].change /\ balance[c].onHand = 0
          /\ movement'[m].cell = c /\ movement'[m].change = movement[m].change
          /\ movement[m].change \in Int
          /\ "balance" \in movement'[m].wrote /\ "balance" \notin movement[m].wrote
          /\ \A n \in Movement \ {m} : movement'[n] = movement[n]
      BY <1>8, <2>1 DEF InsertBalance, Advance, RowsInv, TypeOK, MovementState, MovementInv, NoRowInv, Balance
    <3> QED  BY <2>1, <3>1 DEF CellMoved, MovedIn
  <2>2. CASE movement[m].cell = c /\ balance[c].kept
    <3>1. Refuse(m) /\ balance' = balance
      BY <1>8, <2>2 DEF InsertBalance
    <3> QED  BY <3>1, OthersKeep DEF Refuse, RowsInv, TypeOK, MovementState
  <2>3. CASE movement[m].cell # c
    <3>1. balance'[c].onHand = balance[c].onHand
      BY <1>8, <2>3 DEF InsertBalance, RowsInv, TypeOK, MovementInv
    <3>2. /\ movement'[m].cell = movement[m].cell
          /\ \A n \in Movement \ {m} : movement'[n] = movement[n]
      BY <1>8 DEF InsertBalance, Advance, Refuse, RowsInv, TypeOK, MovementState
    <3> QED  BY <2>3, <3>1, <3>2 DEF CellKept, MovedIn
  <2> QED  BY <2>1, <2>2, <2>3
<1>9. ASSUME NEW m \in Movement, ApplyValuation(m) PROVE CellKept(c)
  BY <1>9, OthersKeep DEF ApplyValuation, Advance, RowsInv, TypeOK, MovementState, MovementInv, Balance
<1>10. ASSUME NEW m \in Movement, InsertLedgerEntry(m) PROVE CellKept(c)
  BY <1>10, OthersKeep DEF InsertLedgerEntry, Advance, RowsInv, TypeOK, MovementState
<1>11. ASSUME NEW m \in Movement, NEW outcome \in {"none", "draft", "posted"}, PostStockMovement(m, outcome)
       PROVE  CellKept(c)
  BY <1>11, OthersKeep DEF PostStockMovement, RowsInv, TypeOK, MovementState
<1>12. ASSUME NEW m \in Movement, MovementFails(m) PROVE CellKept(c)
  BY <1>12, OthersKeep DEF MovementFails, Refuse, RowsInv, TypeOK, MovementState
<1>13. ASSUME NEW r \in Reservation, AddToReserved(r) PROVE CellKept(c)
  BY <1>13, OthersKeep DEF AddToReserved, RowsInv, TypeOK, ReservationState, ReservationInv, Balance
<1>14. ASSUME NEW k \in Clerk, SubtractFromReserved(k) PROVE CellKept(c)
  <2>1. balance'[c].onHand = balance[c].onHand
    BY <1>14 DEF SubtractFromReserved, RowsInv, TypeOK, Balance
  <2> QED  BY <1>14, <2>1, OthersKeep DEF SubtractFromReserved
<1>15. CASE UNCHANGED <<balance, movement>>
  BY <1>15, OthersKeep
<1>16. CASE MovementNext
  BY <1>16, <1>1, <1>2, <1>3, <1>4, <1>5, <1>6, <1>7, <1>8, <1>9, <1>10, <1>11, <1>12 DEF MovementNext
<1>17. CASE ReserveNext
  BY <1>17, <1>13, <1>15 DEF ReserveNext, AskToReserve, InsertReservation, ReservationFails
<1>18. CASE ReleaseNext
  BY <1>18, <1>14, <1>15 DEF ReleaseNext, ReadReservation, SetReservationReleased, ReleaseFails
<1> QED  BY <1>15, <1>16, <1>17, <1>18 DEF Next, vars

(* Nothing has moved, and the sum over no movement is 0. *)
LEMMA TracedInit == Init => TracedInv
<1> SUFFICES ASSUME Init, NEW c \in Cell
             PROVE  IsFiniteSet(MovedIn(c)) /\ balance[c].onHand = SumFunction(Moved(c))
  BY DEF TracedInv
<1>1. MovedIn(c) = {} /\ balance[c].onHand = 0
  BY DEF Init, MovedIn, NoMovement, NoBalance
<1>2. DOMAIN Moved(c) = {}
  BY <1>1 DEF Moved
<1>3. SumFunction(Moved(c)) = 0
  BY <1>2, SumOfNothing DEF SumFunction
<1> QED  BY <1>1, <1>3, FS_EmptySet

(* Whatever requests overlap and die, what is on hand in a cell is the sum *)
(* of the movements that reached it, each with its row in stock_movement.  *)
THEOREM OnHandTraced == Spec => []OnHandIsTraced
<1>1. RowsInv /\ TracedInv /\ [Next]_vars => TracedInv'
  <2> SUFFICES ASSUME RowsInv, TracedInv, [Next]_vars, NEW c \in Cell
               PROVE  IsFiniteSet(MovedIn(c)') /\ balance'[c].onHand = SumFunction(Moved(c)')
    BY DEF TracedInv
  <2>1. IsFiniteSet(MovedIn(c)) /\ balance[c].onHand = SumFunction(Moved(c)) /\ TypeOK
    BY DEF TracedInv, RowsInv
  <2>2. CellKept(c) \/ \E m \in Movement : CellMoved(c, m)
    BY CellStep
  <2> QED  BY <2>1, <2>2, TracedWhenKept, TracedWhenMoved
<1>2. RowsInv /\ TracedInv => OnHandIsTraced
  BY DEF RowsInv, MovementInv, TracedInv, OnHandIsTraced, Moved, MovedIn
<1> QED  BY <1>1, <1>2, RowsInit, RowsStep, TracedInit, PTL DEF Spec

-----------------------------------------------------------------------------
(* What a reservation holds *)

(* reserveStock adds the quantity once, at its end; a release that is to   *)
(* mark the reservation, or has marked it, has subtracted it first.        *)
Added(r) == IF reservation[r].at = "ended" THEN 1 ELSE 0

Subtracted(r) ==
  \/ reservation[r].status = "released"
  \/ \E k \in Clerk : release[k].at = "mark" /\ release[k].reservation = r

HeldInv ==
  \A r \in Reservation : /\ reservation[r].held <= Added(r)
                         /\ Subtracted(r) => reservation[r].held < Added(r)

(* Nothing is reserved, nothing is held. *)
LEMMA HeldInit == Init => HeldInv
BY DEF Init, HeldInv, Added, Subtracted, NoReservation, Idle

(* Every step adds once at most, and marks only what it has subtracted. *)
LEMMA HeldStep == RowsInv /\ HeldInv /\ [Next]_vars => HeldInv'
<1> SUFFICES ASSUME RowsInv, HeldInv, [Next]_vars PROVE HeldInv'
  OBVIOUS
<1> USE DEF RowsInv, TypeOK, ReservationState, ReleaseState, HeldInv, Added, Subtracted
<1>1. CASE UNCHANGED <<reservation, release>>
  BY <1>1
<1>2. ASSUME NEW r \in Reservation, NEW c \in Cell, NEW q \in Quantity, AskToReserve(r, c, q) PROVE HeldInv'
  BY <1>2 DEF AskToReserve, NoReservation, ReservationInv, ReleaseInv
<1>3. ASSUME NEW r \in Reservation, InsertReservation(r) PROVE HeldInv'
  BY <1>3 DEF InsertReservation, ReservationInv, ReleaseInv
<1>4. ASSUME NEW r \in Reservation, AddToReserved(r) PROVE HeldInv'
  BY <1>4 DEF AddToReserved
<1>5. ASSUME NEW r \in Reservation, ReservationFails(r) PROVE HeldInv'
  BY <1>5 DEF ReservationFails, Reserving, Resting
<1>6. ASSUME NEW k \in Clerk, NEW r \in Reservation, ReadReservation(k, r) PROVE HeldInv'
  BY <1>6 DEF ReadReservation, Idle
<1>7. ASSUME NEW k \in Clerk, SubtractFromReserved(k) PROVE HeldInv'
  <2>1. PICK s \in Reservation : s = release[k].reservation /\ release[k].at = "subtract"
    BY <1>7 DEF SubtractFromReserved, ReleaseInv
  <2>2. CASE UNCHANGED reservation /\ release' = [release EXCEPT ![k] = Idle]
    BY <2>2 DEF Idle
  <2>3. CASE /\ reservation' = [reservation EXCEPT ![s].held = @ - 1]
             /\ release' = [release EXCEPT ![k].at = "mark"]
    <3>1. reservation'[s].held < Added(s)'
      BY <2>1, <2>3
    <3>2. ASSUME NEW r \in Reservation \ {s}
          PROVE  Subtracted(r)' => Subtracted(r)
      BY <2>1, <2>3
    <3>3. \A r \in Reservation \ {s} : reservation'[r] = reservation[r]
      BY <2>1, <2>3
    <3>4. \A r \in Reservation : reservation'[r].held \in Int
      BY <2>1, <2>3
    <3> HIDE DEF Subtracted
    <3>5. reservation'[s].held <= Added(s)'
      BY <2>1, <3>1, <3>4
    <3>6. ASSUME NEW r \in Reservation
          PROVE  /\ reservation'[r].held <= Added(r)'
                 /\ Subtracted(r)' => reservation'[r].held < Added(r)'
      <4>1. CASE r = s
        BY <4>1, <3>1, <3>5
      <4>2. CASE r # s
        BY <4>2, <3>2, <3>3
      <4> QED  BY <4>1, <4>2
    <3> HIDE DEF Added
    <3> QED  BY <3>6
  <2> QED  BY <1>7, <2>1, <2>2, <2>3 DEF SubtractFromReserved
<1>8. ASSUME NEW k \in Clerk, SetReservationReleased(k) PROVE HeldInv'
  BY <1>8 DEF SetReservationReleased, Idle, ReleaseInv
<1>9. ASSUME NEW k \in Clerk, ReleaseFails(k) PROVE HeldInv'
  BY <1>9 DEF ReleaseFails, Idle
<1>10. CASE MovementNext
  BY <1>10, <1>1 DEF MovementNext, Begin, Receive, AskToIssue, Count, ReadAgain, InsertMovement, UpdateBalance,
     FindNoBalance, InsertBalance, ApplyValuation, InsertLedgerEntry, PostStockMovement, MovementFails
<1>11. CASE ReserveNext
  BY <1>11, <1>2, <1>3, <1>4, <1>5 DEF ReserveNext
<1>12. CASE ReleaseNext
  BY <1>12, <1>6, <1>7, <1>8, <1>9 DEF ReleaseNext
<1> QED  BY <1>1, <1>10, <1>11, <1>12 DEF Next, vars

(* However often a reservation is released, and whichever release dies: it *)
(* never reads as released while its quantity is still held back.          *)
THEOREM ReleasedIsFree == Spec => []ReleasedHoldsNothing
<1>1. RowsInv /\ HeldInv => ReleasedHoldsNothing
  BY DEF RowsInv, TypeOK, ReservationState, HeldInv, Added, Subtracted, ReleasedHoldsNothing
<1> QED  BY <1>1, RowsInit, RowsStep, HeldInit, HeldStep, PTL DEF Spec

-----------------------------------------------------------------------------
(* One request at a time *)

AloneInv ==
  /\ \A m, n \in Moving : m = n
  /\ \A r, s \in Reserving : r = s
  /\ \A k, l \in Releasing : k = l
  /\ Moving = {} \/ (Reserving = {} /\ Releasing = {})
  /\ Reserving = {} \/ Releasing = {}

(* What a request read is still there: nothing else writes the balance.    *)
MovementAlone(m) ==
  LET at == movement[m].at
      b == balance[movement[m].cell]
      change == movement[m].change
      after == movement[m].after
  IN /\ at \in {"reread", "movement", "delta", "insert"} =>
          \/ change >= 0
          \/ b.onHand - b.reserved + change >= 0
          \/ movement[m].kind = "count"
     /\ at \in {"movement", "delta", "insert"} => after = b.onHand + change
     /\ at \in {"valuation", "ledger", "entry"} => after = b.onHand
     /\ at \in {"ledger", "entry"} => b.valued = after

ReservationAlone(r) ==
  reservation[r].at \in {"reservation", "delta"} =>
    Available(reservation[r].cell) >= reservation[r].quantity

TurnInv ==
  /\ AloneInv
  /\ \A m \in Movement : MovementAlone(m)
  /\ \A r \in Reservation : ReservationAlone(r)
  /\ OnlyCountsOverdraw

(* A set with no two elements is finite, and empty if it has no element to *)
(* count.                                                                  *)
LEMMA AtMostOne ==
  ASSUME NEW S, \A x, y \in S : x = y
  PROVE  Cardinality(S) \in Nat /\ (Cardinality(S) = 0 => S = {})
<1>1. CASE S = {}
  BY <1>1, FS_EmptySet
<1>2. CASE \E x : S = {x}
  <2>1. PICK x : S = {x}
    BY <1>2
  <2>2. Cardinality({x}) = 1
    BY FS_Singleton
  <2> QED  BY <2>1, <2>2
<1> QED  BY <1>1, <1>2

(* A request begins only when no other is under way. *)
LEMMA BeginsAlone ==
  ASSUME AtOnce = 1, AloneInv, MayBegin
  PROVE  Moving = {} /\ Reserving = {} /\ Releasing = {}
<1>1. /\ Cardinality(Moving) \in Nat /\ (Cardinality(Moving) = 0 => Moving = {})
      /\ Cardinality(Reserving) \in Nat /\ (Cardinality(Reserving) = 0 => Reserving = {})
      /\ Cardinality(Releasing) \in Nat /\ (Cardinality(Releasing) = 0 => Releasing = {})
  <2>1. /\ \A m, n \in Moving : m = n
        /\ \A r, s \in Reserving : r = s
        /\ \A k, l \in Releasing : k = l
    BY DEF AloneInv
  <2> QED  BY <2>1, AtMostOne
<1>2. Cardinality(Moving) + Cardinality(Reserving) + Cardinality(Releasing) < 1
  BY DEF MayBegin
<1>3. Cardinality(Moving) = 0 /\ Cardinality(Reserving) = 0 /\ Cardinality(Releasing) = 0
  BY <1>1, <1>2
<1> QED  BY <1>1, <1>3

(* A movement that goes on, or ends, leaves the others where they are. *)
LEMMA AloneGoesOn ==
  ASSUME AloneInv, Moving' \subseteq Moving, Reserving' \subseteq Reserving, Releasing' \subseteq Releasing
  PROVE  AloneInv'
BY DEF AloneInv

(* The first of them begins. *)
LEMMA AloneBegins ==
  ASSUME AloneInv, Moving = {}, Reserving = {}, Releasing = {},
         \/ \E m : Moving' = {m} /\ Reserving' = {} /\ Releasing' = {}
         \/ \E r : Reserving' = {r} /\ Moving' = {} /\ Releasing' = {}
         \/ \E k : Releasing' = {k} /\ Moving' = {} /\ Reserving' = {}
  PROVE  AloneInv'
BY DEF AloneInv

(* Every step keeps requests one at a time. *)
LEMMA AloneStep ==
  ASSUME AtOnce = 1, RowsInv, AloneInv, [Next]_vars
  PROVE  AloneInv'
<1> USE DEF RowsInv, TypeOK
<1>1. ASSUME NEW m \in Movement, MayBegin, movement'[m].at \notin Resting,
             \A n \in Movement \ {m} : movement'[n] = movement[n], UNCHANGED <<reservation, release>>
      PROVE  AloneInv'
  <2>1. Moving = {} /\ Reserving = {} /\ Releasing = {}
    BY <1>1, BeginsAlone
  <2>2. Moving' = {m}
    BY <1>1, <2>1 DEF Moving
  <2>3. Reserving' = {} /\ Releasing' = {}
    BY <1>1, <2>1 DEF Reserving, Releasing
  <2> QED  BY <2>1, <2>2, <2>3, AloneBegins
<1>2. ASSUME NEW m \in Moving, \A n \in Movement \ {m} : movement'[n] = movement[n],
             UNCHANGED <<reservation, release>>
      PROVE  AloneInv'
  <2>1. Moving' \subseteq Moving
    BY <1>2 DEF Moving
  <2>2. Reserving' \subseteq Reserving /\ Releasing' \subseteq Releasing
    BY <1>2 DEF Reserving, Releasing
  <2> QED  BY <2>1, <2>2, AloneGoesOn
<1>3. ASSUME NEW r \in Reserving, \A s \in Reservation \ {r} : reservation'[s] = reservation[s],
             UNCHANGED <<movement, release>>
      PROVE  AloneInv'
  <2>1. Reserving' \subseteq Reserving
    BY <1>3 DEF Reserving
  <2>2. Moving' \subseteq Moving /\ Releasing' \subseteq Releasing
    BY <1>3 DEF Moving, Releasing
  <2> QED  BY <2>1, <2>2, AloneGoesOn
<1>4. ASSUME NEW k \in Releasing, \A l \in Clerk \ {k} : release'[l] = release[l],
             \A r \in Reservation : reservation'[r].at = reservation[r].at, UNCHANGED movement
      PROVE  AloneInv'
  <2>1. Releasing' \subseteq Releasing
    BY <1>4 DEF Releasing
  <2>2. Moving' \subseteq Moving /\ Reserving' \subseteq Reserving
    BY <1>4 DEF Moving, Reserving
  <2> QED  BY <2>1, <2>2, AloneGoesOn
<1>5. ASSUME NEW m \in Movement, NEW c \in Cell, NEW q \in Quantity, Receive(m, c, q) \/ AskToIssue(m, c, q)
      PROVE  AloneInv'
  <2>1. /\ MayBegin /\ movement'[m].at \notin Resting
        /\ \A n \in Movement \ {m} : movement'[n] = movement[n]
        /\ UNCHANGED <<reservation, release>>
    BY <1>5 DEF Receive, AskToIssue, Begin, NoMovement, Resting
  <2> QED  BY <2>1, <1>1
<1>6. ASSUME NEW m \in Movement, NEW c \in Cell, NEW physical \in Counted, Count(m, c, physical)
      PROVE  AloneInv'
  <2>1. /\ MayBegin /\ movement'[m].at \notin Resting
        /\ \A n \in Movement \ {m} : movement'[n] = movement[n]
        /\ UNCHANGED <<reservation, release>>
    BY <1>6 DEF Count, Begin, NoMovement, Resting
  <2> QED  BY <2>1, <1>1
<1>7. ASSUME NEW m \in Movement,
             \/ ReadAgain(m) \/ InsertMovement(m) \/ UpdateBalance(m) \/ FindNoBalance(m) \/ InsertBalance(m)
             \/ ApplyValuation(m) \/ InsertLedgerEntry(m) \/ MovementFails(m)
             \/ \E outcome \in {"none", "draft", "posted"} : PostStockMovement(m, outcome)
      PROVE  AloneInv'
  <2>1. m \in Moving /\ (\A n \in Movement \ {m} : movement'[n] = movement[n]) /\ UNCHANGED <<reservation, release>>
    BY <1>7 DEF Moving, Resting, ReadAgain, InsertMovement, UpdateBalance, FindNoBalance, InsertBalance, ApplyValuation,
       InsertLedgerEntry, MovementFails, PostStockMovement, Advance, Refuse
  <2> QED  BY <2>1, <1>2
<1>8. ASSUME NEW r \in Reservation, NEW c \in Cell, NEW q \in Quantity, AskToReserve(r, c, q) PROVE AloneInv'
  <2>1. Moving = {} /\ Reserving = {} /\ Releasing = {}
    BY <1>8, BeginsAlone DEF AskToReserve
  <2>2. Reserving' = {r}
    BY <1>8, <2>1 DEF AskToReserve, Reserving, Resting, NoReservation
  <2>3. Moving' = {} /\ Releasing' = {}
    BY <1>8, <2>1 DEF AskToReserve, Moving, Releasing
  <2> QED  BY <2>1, <2>2, <2>3, AloneBegins
<1>9. ASSUME NEW r \in Reservation, InsertReservation(r) \/ AddToReserved(r) \/ ReservationFails(r) PROVE AloneInv'
  <2>1. r \in Reserving /\ (\A s \in Reservation \ {r} : reservation'[s] = reservation[s]) /\ UNCHANGED <<movement, release>>
    BY <1>9 DEF Reserving, Resting, InsertReservation, AddToReserved, ReservationFails
  <2> QED  BY <2>1, <1>3
<1>10. ASSUME NEW k \in Clerk, NEW r \in Reservation, ReadReservation(k, r) PROVE AloneInv'
  <2>1. Moving = {} /\ Reserving = {} /\ Releasing = {}
    BY <1>10, BeginsAlone DEF ReadReservation
  <2>2. Releasing' = {k}
    BY <1>10, <2>1 DEF ReadReservation, Releasing
  <2>3. Moving' = {} /\ Reserving' = {}
    BY <1>10, <2>1 DEF ReadReservation, Moving, Reserving
  <2> QED  BY <2>1, <2>2, <2>3, AloneBegins
<1>11. ASSUME NEW k \in Clerk, SubtractFromReserved(k) \/ SetReservationReleased(k) \/ ReleaseFails(k)
       PROVE  AloneInv'
  <2>1. /\ k \in Releasing
        /\ \A l \in Clerk \ {k} : release'[l] = release[l]
        /\ \A r \in Reservation : reservation'[r].at = reservation[r].at
        /\ UNCHANGED movement
    BY <1>11 DEF Releasing, SubtractFromReserved, SetReservationReleased, ReleaseFails, ReservationState
  <2> QED  BY <2>1, <1>4
<1>12. CASE UNCHANGED vars
  BY <1>12, AloneGoesOn DEF vars, Moving, Reserving, Releasing
<1>13. CASE MovementNext
  BY <1>13, <1>5, <1>6, <1>7 DEF MovementNext
<1>14. CASE ReserveNext
  BY <1>14, <1>8, <1>9 DEF ReserveNext
<1>15. CASE ReleaseNext
  BY <1>15, <1>10, <1>11 DEF ReleaseNext
<1> QED  BY <1>12, <1>13, <1>14, <1>15 DEF Next

(* Nothing is under way, and nothing on hand. *)
LEMMA TurnInit == Init => TurnInv
<1> SUFFICES ASSUME Init PROVE TurnInv
  OBVIOUS
<1>1. Moving = {} /\ Reserving = {} /\ Releasing = {}
  BY DEF Init, Moving, Reserving, Releasing, Resting, NoMovement, NoReservation, Idle
<1>2. AloneInv
  BY <1>1 DEF AloneInv
<1>3. (\A m \in Movement : MovementAlone(m)) /\ (\A r \in Reservation : ReservationAlone(r))
  BY DEF Init, MovementAlone, ReservationAlone, NoMovement, NoReservation
<1>4. OnlyCountsOverdraw
  BY DEF Init, OnlyCountsOverdraw, Available, NoBalance
<1> QED  BY <1>2, <1>3, <1>4 DEF TurnInv

(* Movements that reached a cell stay what they are. *)
LEMMA MovedStays ==
  ASSUME RowsInv, [Next]_vars, NEW c \in Cell, NEW m \in MovedIn(c)
  PROVE  m \in MovedIn(c)' /\ movement'[m].kind = movement[m].kind /\ movement'[m].change = movement[m].change
<1> USE DEF RowsInv, TypeOK, MovementState, MovementInv
<1>1. m \in Movement /\ movement[m].cell = c /\ "balance" \in movement[m].wrote
  BY DEF MovedIn
<1> SUFFICES /\ movement'[m].cell = c /\ "balance" \in movement'[m].wrote
             /\ movement'[m].kind = movement[m].kind /\ movement'[m].change = movement[m].change
  BY <1>1 DEF MovedIn
<1>2. CASE movement'[m] = movement[m]
  BY <1>1, <1>2
<1>3. ASSUME NEW n \in Movement,
             \/ \E d \in Cell, q \in Quantity : Receive(n, d, q) \/ AskToIssue(n, d, q)
             \/ \E d \in Cell, physical \in Counted : Count(n, d, physical)
      PROVE  movement'[m] = movement[m]
  BY <1>1, <1>3 DEF Receive, AskToIssue, Count, Begin
<1>4. ASSUME NEW n \in Movement,
             \/ ReadAgain(n) \/ InsertMovement(n) \/ UpdateBalance(n) \/ FindNoBalance(n) \/ InsertBalance(n)
             \/ ApplyValuation(n) \/ InsertLedgerEntry(n) \/ MovementFails(n)
             \/ \E outcome \in {"none", "draft", "posted"} : PostStockMovement(n, outcome)
      PROVE  /\ movement'[m].cell = c /\ "balance" \in movement'[m].wrote
             /\ movement'[m].kind = movement[m].kind /\ movement'[m].change = movement[m].change
  <2>1. ASSUME ReadAgain(n) \/ (\E outcome \in {"none", "draft", "posted"} : PostStockMovement(n, outcome))
        PROVE  /\ movement'[m].cell = c /\ "balance" \in movement'[m].wrote
               /\ movement'[m].kind = movement[m].kind /\ movement'[m].change = movement[m].change
    BY <1>1, <2>1 DEF ReadAgain, PostStockMovement
  <2>2. ASSUME NEW step, NEW wrote, Advance(n, step, wrote)
        PROVE  /\ movement'[m].cell = c /\ "balance" \in movement'[m].wrote
               /\ movement'[m].kind = movement[m].kind /\ movement'[m].change = movement[m].change
    BY <1>1, <2>2 DEF Advance
  <2>3. ASSUME Refuse(n)
        PROVE  /\ movement'[m].cell = c /\ "balance" \in movement'[m].wrote
               /\ movement'[m].kind = movement[m].kind /\ movement'[m].change = movement[m].change
    BY <1>1, <2>3 DEF Refuse
  <2> QED
    BY <1>4, <2>1, <2>2, <2>3 DEF InsertMovement, UpdateBalance, FindNoBalance, InsertBalance, ApplyValuation,
       InsertLedgerEntry, MovementFails
<1>5. CASE MovementNext
  BY <1>2, <1>3, <1>4, <1>5 DEF MovementNext
<1>6. CASE ~MovementNext
  BY <1>2, <1>6 DEF Next, vars, ReserveNext, ReleaseNext, AskToReserve, InsertReservation, AddToReserved,
     ReservationFails, ReadReservation, SubtractFromReserved, SetReservationReleased, ReleaseFails
<1> QED  BY <1>5, <1>6

(* How a step may leave a cell that is overdrawn *)
Covered(c) ==
  \/ Available(c)' >= Available(c)
  \/ Available(c)' >= 0
  \/ \E m \in MovedIn(c)' : movement'[m].kind = "count" /\ movement'[m].change < 0

(* Then only a count that came out short overdraws it. *)
LEMMA OverdrawStep ==
  ASSUME RowsInv, TurnInv, [Next]_vars, RowsInv', \A c \in Cell : Covered(c)
  PROVE  OnlyCountsOverdraw'
<1> SUFFICES ASSUME NEW c \in Cell, Available(c)' < 0
             PROVE  \E m \in MovedIn(c)' : movement'[m].kind = "count" /\ movement'[m].change < 0
  BY DEF OnlyCountsOverdraw
<1>1. Available(c) \in Int /\ Available(c)' \in Int
  BY DEF RowsInv, TypeOK, Balance, Available
<1>2. CASE Available(c)' >= Available(c)
  <2>1. Available(c) < 0
    BY <1>1, <1>2
  <2>2. PICK m \in MovedIn(c) : movement[m].kind = "count" /\ movement[m].change < 0
    BY <2>1 DEF TurnInv, OnlyCountsOverdraw
  <2> QED  BY <2>2, MovedStays
<1> QED  BY <1>1, <1>2 DEF Covered

(* A step of the only movement, of the only reservation, of a release. *)
LEMMA TurnOfMovement ==
  ASSUME RowsInv, NEW m \in Movement, Moving \subseteq {m}, Reserving = {},
         \A n \in Movement \ {m} : movement'[n] = movement[n], UNCHANGED reservation,
         MovementAlone(m)'
  PROVE  (\A n \in Movement : MovementAlone(n)') /\ (\A r \in Reservation : ReservationAlone(r)')
BY DEF Moving, Reserving, Resting, MovementAlone, ReservationAlone

LEMMA TurnOfReservation ==
  ASSUME RowsInv, NEW r \in Reservation, Moving = {}, Reserving \subseteq {r},
         \A s \in Reservation \ {r} : reservation'[s] = reservation[s], UNCHANGED movement,
         ReservationAlone(r)'
  PROVE  (\A m \in Movement : MovementAlone(m)') /\ (\A s \in Reservation : ReservationAlone(s)')
BY DEF Moving, Reserving, Resting, MovementAlone, ReservationAlone

LEMMA TurnOfRelease ==
  ASSUME RowsInv, Moving = {}, Reserving = {}, UNCHANGED movement,
         \A r \in Reservation : reservation'[r].at = reservation[r].at
  PROVE  (\A m \in Movement : MovementAlone(m)') /\ (\A r \in Reservation : ReservationAlone(r)')
BY DEF Moving, Reserving, Resting, MovementAlone, ReservationAlone

(* What the step of a movement has to show *)
MovementTurn(m) ==
  /\ Moving \subseteq {m} /\ Reserving = {}
  /\ \A n \in Movement \ {m} : movement'[n] = movement[n]
  /\ UNCHANGED reservation
  /\ MovementAlone(m)'
  /\ \A c \in Cell : Covered(c)

(* Every step keeps the requests, taken one at a time, right. *)
LEMMA TurnStep ==
  ASSUME AtOnce = 1, RowsInv, TurnInv, [Next]_vars, RowsInv'
  PROVE  TurnInv'
<1>1. AloneInv'
  BY AloneStep DEF TurnInv
<1>2. SUFFICES /\ \A m \in Movement : MovementAlone(m)'
               /\ \A r \in Reservation : ReservationAlone(r)'
               /\ \A c \in Cell : Covered(c)
  BY <1>1, OverdrawStep DEF TurnInv
<1>3. ASSUME NEW m \in Movement, MovementTurn(m)
      PROVE  /\ \A n \in Movement : MovementAlone(n)'
             /\ \A r \in Reservation : ReservationAlone(r)'
             /\ \A c \in Cell : Covered(c)
  BY <1>3, TurnOfMovement DEF MovementTurn
<1>4. ASSUME NEW m \in Moving PROVE Moving \subseteq {m} /\ Reserving = {}
  BY <1>4 DEF TurnInv, AloneInv
<1>5. ASSUME MayBegin PROVE Moving = {} /\ Reserving = {}
  BY <1>5, BeginsAlone DEF TurnInv
<1>6. ASSUME UNCHANGED balance, NEW c \in Cell PROVE Covered(c)
  BY <1>6 DEF Covered, Available, RowsInv, TypeOK, Balance
<1>7. \A c \in Cell : balance[c] \in Balance
  BY DEF RowsInv, TypeOK
<1>8. ASSUME NEW m \in Movement, NEW c \in Cell, NEW q \in Quantity, Receive(m, c, q) PROVE MovementTurn(m)
  <2>1. Moving = {} /\ Reserving = {}
    BY <1>8, <1>5 DEF Receive, Begin
  <2>2. MovementAlone(m)'
    BY <1>8, <1>7, QuantityAssumption DEF Receive, Begin, NoMovement, Available, Balance, MovementAlone, RowsInv, TypeOK
  <2> QED  BY <1>8, <1>6, <2>1, <2>2 DEF Receive, Begin, MovementTurn
<1>9. ASSUME NEW m \in Movement, NEW c \in Cell, NEW q \in Quantity, AskToIssue(m, c, q) PROVE MovementTurn(m)
  <2>1. Moving = {} /\ Reserving = {}
    BY <1>9, <1>5 DEF AskToIssue, Begin
  <2>2. MovementAlone(m)'
    BY <1>9, <1>7, QuantityAssumption DEF AskToIssue, Begin, NoMovement, Available, Balance, MovementAlone, RowsInv, TypeOK
  <2> QED  BY <1>9, <1>6, <2>1, <2>2 DEF AskToIssue, Begin, MovementTurn
<1>10. ASSUME NEW m \in Movement, NEW c \in Cell, NEW physical \in Counted, Count(m, c, physical) PROVE MovementTurn(m)
  <2>1. Moving = {} /\ Reserving = {}
    BY <1>10, <1>5 DEF Count, Begin
  <2>2. MovementAlone(m)'
    BY <1>10, <1>7, QuantityAssumption DEF Count, Begin, NoMovement, Available, Balance, MovementAlone, RowsInv, TypeOK
  <2> QED  BY <1>10, <1>6, <2>1, <2>2 DEF Count, Begin, MovementTurn
<1>11. ASSUME NEW m \in Movement, ReadAgain(m)
       PROVE  MovementTurn(m)
  <2>1. m \in Moving
    BY <1>11 DEF ReadAgain, Moving, Resting
  <2>2. MovementAlone(m)'
    <3>1. /\ movement[m].cell \in Cell /\ movement[m].at = "reread" /\ balance' = balance
          /\ movement'[m] = [movement[m] EXCEPT !.at = "movement",
                                 !.after = balance[movement[m].cell].onHand + movement[m].change]
          /\ MovementAlone(m)
      BY <1>11 DEF ReadAgain, TurnInv, RowsInv, TypeOK, MovementInv
    <3>2. movement[m] \in MovementState
      BY DEF RowsInv, TypeOK
    <3>3. /\ movement'[m].at = "movement" /\ movement'[m].cell = movement[m].cell
          /\ movement'[m].change = movement[m].change /\ movement'[m].kind = movement[m].kind
          /\ movement'[m].after = balance[movement[m].cell].onHand + movement[m].change
      BY <3>1, <3>2 DEF MovementState
    <3> QED  BY <3>1, <3>3 DEF MovementAlone
  <2>3. ASSUME NEW c \in Cell PROVE Covered(c)
    BY <1>11, <1>6 DEF ReadAgain
  <2>4. (\A k \in Movement \ {m} : movement'[k] = movement[k]) /\ UNCHANGED reservation
    BY <1>11 DEF ReadAgain, RowsInv, TypeOK
  <2> QED  BY <1>4, <2>1, <2>2, <2>3, <2>4 DEF MovementTurn
<1>12. ASSUME NEW m \in Movement, InsertMovement(m)
       PROVE  MovementTurn(m)
  <2>1. m \in Moving
    BY <1>12 DEF InsertMovement, Moving, Resting
  <2>2. MovementAlone(m)'
    BY <1>12 DEF InsertMovement, Advance, TurnInv, MovementAlone, RowsInv, TypeOK, MovementState, Balance, MovementInv
  <2>3. ASSUME NEW c \in Cell PROVE Covered(c)
    BY <1>12, <1>6 DEF InsertMovement
  <2>4. (\A k \in Movement \ {m} : movement'[k] = movement[k]) /\ UNCHANGED reservation
    BY <1>12 DEF InsertMovement, Advance, RowsInv, TypeOK
  <2> QED  BY <1>4, <2>1, <2>2, <2>3, <2>4 DEF MovementTurn
<1>13. ASSUME NEW m \in Movement, UpdateBalance(m)
       PROVE  MovementTurn(m)
  <2>1. m \in Moving
    BY <1>13 DEF UpdateBalance, Moving, Resting
  <2>2. MovementAlone(m)'
    BY <1>13 DEF UpdateBalance, Advance, Refuse, TurnInv, MovementAlone, RowsInv, TypeOK, MovementState, Balance, MovementInv
  <2>3. ASSUME NEW c \in Cell PROVE Covered(c)
    BY <1>13 DEF UpdateBalance, Advance, Refuse, TurnInv, MovementAlone, Covered, Available, MovedIn, RowsInv, TypeOK, MovementState, Balance, MovementInv
  <2>4. (\A k \in Movement \ {m} : movement'[k] = movement[k]) /\ UNCHANGED reservation
    BY <1>13 DEF UpdateBalance, Advance, Refuse, RowsInv, TypeOK
  <2> QED  BY <1>4, <2>1, <2>2, <2>3, <2>4 DEF MovementTurn
<1>14. ASSUME NEW m \in Movement, FindNoBalance(m)
       PROVE  MovementTurn(m)
  <2>1. m \in Moving
    BY <1>14 DEF FindNoBalance, Moving, Resting
  <2>2. MovementAlone(m)'
    BY <1>14 DEF FindNoBalance, Advance, TurnInv, MovementAlone, RowsInv, TypeOK, MovementState, Balance, MovementInv
  <2>3. ASSUME NEW c \in Cell PROVE Covered(c)
    BY <1>14, <1>6 DEF FindNoBalance
  <2>4. (\A k \in Movement \ {m} : movement'[k] = movement[k]) /\ UNCHANGED reservation
    BY <1>14 DEF FindNoBalance, Advance, RowsInv, TypeOK
  <2> QED  BY <1>4, <2>1, <2>2, <2>3, <2>4 DEF MovementTurn
<1>15. ASSUME NEW m \in Movement, InsertBalance(m)
       PROVE  MovementTurn(m)
  <2>1. m \in Moving
    BY <1>15 DEF InsertBalance, Moving, Resting
  <2>2. MovementAlone(m)'
    BY <1>15 DEF InsertBalance, Advance, Refuse, NoRowInv, TurnInv, MovementAlone, RowsInv, TypeOK, MovementState, Balance, MovementInv
  <2>3. ASSUME NEW c \in Cell PROVE Covered(c)
    <3>1. CASE balance[movement[m].cell].kept
      BY <1>15, <1>6, <3>1 DEF InsertBalance
    <3>2. CASE ~balance[movement[m].cell].kept /\ movement[m].cell = c
      <4>1. balance[c].onHand = 0 /\ movement[m].change \in Nat
        BY <1>15, <3>2 DEF InsertBalance, RowsInv, NoRowInv
      <4>2. balance'[c].onHand = movement[m].change /\ balance'[c].reserved = balance[c].reserved
        BY <1>15, <3>2 DEF InsertBalance, RowsInv, TypeOK, Balance
      <4>3. balance[c].reserved \in Nat
        BY <1>7 DEF Balance
      <4> QED  BY <4>1, <4>2, <4>3 DEF Covered, Available
    <3>3. CASE movement[m].cell # c
      <4>1. balance'[c] = balance[c]
        BY <1>15, <3>3 DEF InsertBalance, RowsInv, TypeOK
      <4>2. Available(c) \in Int
        BY <1>7 DEF Available, Balance
      <4> QED  BY <4>1, <4>2 DEF Covered, Available
    <3> QED  BY <3>1, <3>2, <3>3
  <2>4. (\A k \in Movement \ {m} : movement'[k] = movement[k]) /\ UNCHANGED reservation
    BY <1>15 DEF InsertBalance, Advance, Refuse, NoRowInv, RowsInv, TypeOK
  <2> QED  BY <1>4, <2>1, <2>2, <2>3, <2>4 DEF MovementTurn
<1>16. ASSUME NEW m \in Movement, ApplyValuation(m)
       PROVE  MovementTurn(m)
  <2>1. m \in Moving
    BY <1>16 DEF ApplyValuation, Moving, Resting
  <2>2. MovementAlone(m)'
    BY <1>16 DEF ApplyValuation, Advance, TurnInv, MovementAlone, RowsInv, TypeOK, MovementState, Balance, MovementInv
  <2>3. ASSUME NEW c \in Cell PROVE Covered(c)
    BY <1>16 DEF ApplyValuation, Advance, TurnInv, MovementAlone, Covered, Available, MovedIn, RowsInv, TypeOK, MovementState, Balance, MovementInv
  <2>4. (\A k \in Movement \ {m} : movement'[k] = movement[k]) /\ UNCHANGED reservation
    BY <1>16 DEF ApplyValuation, Advance, RowsInv, TypeOK
  <2> QED  BY <1>4, <2>1, <2>2, <2>3, <2>4 DEF MovementTurn
<1>17. ASSUME NEW m \in Movement, InsertLedgerEntry(m)
       PROVE  MovementTurn(m)
  <2>1. m \in Moving
    BY <1>17 DEF InsertLedgerEntry, Moving, Resting
  <2>2. MovementAlone(m)'
    BY <1>17 DEF InsertLedgerEntry, Advance, TurnInv, MovementAlone, RowsInv, TypeOK, MovementState, Balance, MovementInv
  <2>3. ASSUME NEW c \in Cell PROVE Covered(c)
    BY <1>17, <1>6 DEF InsertLedgerEntry
  <2>4. (\A k \in Movement \ {m} : movement'[k] = movement[k]) /\ UNCHANGED reservation
    BY <1>17 DEF InsertLedgerEntry, Advance, RowsInv, TypeOK
  <2> QED  BY <1>4, <2>1, <2>2, <2>3, <2>4 DEF MovementTurn
<1>18. ASSUME NEW m \in Movement, NEW outcome \in {"none", "draft", "posted"}, PostStockMovement(m, outcome)
       PROVE  MovementTurn(m)
  <2>1. m \in Moving
    BY <1>18 DEF PostStockMovement, Moving, Resting
  <2>2. MovementAlone(m)'
    BY <1>18 DEF PostStockMovement, TurnInv, MovementAlone, RowsInv, TypeOK, MovementState, Balance, MovementInv
  <2>3. ASSUME NEW c \in Cell PROVE Covered(c)
    BY <1>18, <1>6 DEF PostStockMovement
  <2>4. (\A k \in Movement \ {m} : movement'[k] = movement[k]) /\ UNCHANGED reservation
    BY <1>18 DEF PostStockMovement, RowsInv, TypeOK
  <2> QED  BY <1>4, <2>1, <2>2, <2>3, <2>4 DEF MovementTurn
<1>19. ASSUME NEW m \in Movement, MovementFails(m)
       PROVE  MovementTurn(m)
  <2>1. m \in Moving
    BY <1>19 DEF MovementFails, Moving, Resting
  <2>2. MovementAlone(m)'
    BY <1>19 DEF MovementFails, Refuse, TurnInv, MovementAlone, RowsInv, TypeOK, MovementState, Balance, MovementInv
  <2>3. ASSUME NEW c \in Cell PROVE Covered(c)
    BY <1>19, <1>6 DEF MovementFails
  <2>4. (\A k \in Movement \ {m} : movement'[k] = movement[k]) /\ UNCHANGED reservation
    BY <1>19 DEF MovementFails, Refuse, RowsInv, TypeOK
  <2> QED  BY <1>4, <2>1, <2>2, <2>3, <2>4 DEF MovementTurn
<1>20. CASE MovementNext
  BY <1>20, <1>3, <1>8, <1>9, <1>10, <1>11, <1>12, <1>13, <1>14, <1>15, <1>16, <1>17, <1>18, <1>19 DEF MovementNext
<1>21. ASSUME NEW r \in Reservation, NEW d \in Cell, NEW q \in Quantity, AskToReserve(r, d, q)
       PROVE  /\ \A n \in Movement : MovementAlone(n)'
              /\ \A s \in Reservation : ReservationAlone(s)'
              /\ \A c \in Cell : Covered(c)
  <2>1. Moving = {} /\ Reserving \subseteq {r}
    BY <1>21, <1>5 DEF AskToReserve
  <2>2. ReservationAlone(r)'
    BY <1>21 DEF AskToReserve, NoReservation, TurnInv, ReservationAlone, Available, RowsInv, TypeOK, ReservationState, ReservationInv, Balance
  <2>3. ASSUME NEW c \in Cell PROVE Covered(c)
    BY <1>21, <1>6 DEF AskToReserve
  <2>4. UNCHANGED movement /\ \A s \in Reservation \ {r} : reservation'[s] = reservation[s]
    BY <1>21 DEF AskToReserve, RowsInv, TypeOK
  <2> QED  BY <2>1, <2>2, <2>3, <2>4, TurnOfReservation
<1>22. ASSUME NEW r \in Reservation, InsertReservation(r)
       PROVE  /\ \A n \in Movement : MovementAlone(n)'
              /\ \A s \in Reservation : ReservationAlone(s)'
              /\ \A c \in Cell : Covered(c)
  <2>1. Moving = {} /\ Reserving \subseteq {r}
    BY <1>22 DEF InsertReservation, Reserving, Resting, TurnInv, AloneInv
  <2>2. ReservationAlone(r)'
    BY <1>22 DEF InsertReservation, TurnInv, ReservationAlone, Available, RowsInv, TypeOK, ReservationState, ReservationInv, Balance
  <2>3. ASSUME NEW c \in Cell PROVE Covered(c)
    BY <1>22, <1>6 DEF InsertReservation
  <2>4. UNCHANGED movement /\ \A s \in Reservation \ {r} : reservation'[s] = reservation[s]
    BY <1>22 DEF InsertReservation, RowsInv, TypeOK
  <2> QED  BY <2>1, <2>2, <2>3, <2>4, TurnOfReservation
<1>23. ASSUME NEW r \in Reservation, AddToReserved(r)
       PROVE  /\ \A n \in Movement : MovementAlone(n)'
              /\ \A s \in Reservation : ReservationAlone(s)'
              /\ \A c \in Cell : Covered(c)
  <2>1. Moving = {} /\ Reserving \subseteq {r}
    BY <1>23 DEF AddToReserved, Reserving, Resting, TurnInv, AloneInv
  <2>2. ReservationAlone(r)'
    BY <1>23 DEF AddToReserved, TurnInv, ReservationAlone, Available, RowsInv, TypeOK, ReservationState, ReservationInv, Balance
  <2>3. ASSUME NEW c \in Cell PROVE Covered(c)
    BY <1>23, QuantityAssumption DEF AddToReserved, TurnInv, ReservationAlone, Covered, Available, RowsInv, TypeOK, ReservationState, ReservationInv, Balance
  <2>4. UNCHANGED movement /\ \A s \in Reservation \ {r} : reservation'[s] = reservation[s]
    BY <1>23 DEF AddToReserved, RowsInv, TypeOK
  <2> QED  BY <2>1, <2>2, <2>3, <2>4, TurnOfReservation
<1>24. ASSUME NEW r \in Reservation, ReservationFails(r)
       PROVE  /\ \A n \in Movement : MovementAlone(n)'
              /\ \A s \in Reservation : ReservationAlone(s)'
              /\ \A c \in Cell : Covered(c)
  <2>1. Moving = {} /\ Reserving \subseteq {r}
    BY <1>24 DEF ReservationFails, Reserving, Resting, TurnInv, AloneInv
  <2>2. ReservationAlone(r)'
    BY <1>24 DEF ReservationFails, TurnInv, ReservationAlone, Available, RowsInv, TypeOK, ReservationState, ReservationInv, Balance
  <2>3. ASSUME NEW c \in Cell PROVE Covered(c)
    BY <1>24, <1>6 DEF ReservationFails
  <2>4. UNCHANGED movement /\ \A s \in Reservation \ {r} : reservation'[s] = reservation[s]
    BY <1>24 DEF ReservationFails, RowsInv, TypeOK
  <2> QED  BY <2>1, <2>2, <2>3, <2>4, TurnOfReservation
<1>25. CASE ReserveNext
  BY <1>25, <1>21, <1>22, <1>23, <1>24 DEF ReserveNext
<1>26. ASSUME NEW k \in Clerk, NEW r \in Reservation, ReadReservation(k, r)
       PROVE  /\ \A n \in Movement : MovementAlone(n)'
              /\ \A s \in Reservation : ReservationAlone(s)'
              /\ \A c \in Cell : Covered(c)
  <2>1. Moving = {} /\ Reserving = {}
    BY <1>26, <1>5 DEF ReadReservation
  <2>3. ASSUME NEW c \in Cell PROVE Covered(c)
    BY <1>26, <1>6 DEF ReadReservation
  <2>4. UNCHANGED movement /\ \A s \in Reservation : reservation'[s].at = reservation[s].at
    BY <1>26 DEF ReadReservation, RowsInv, TypeOK, ReservationState
  <2> QED  BY <2>1, <2>3, <2>4, TurnOfRelease
<1>27. ASSUME NEW k \in Clerk, SubtractFromReserved(k)
       PROVE  /\ \A n \in Movement : MovementAlone(n)'
              /\ \A s \in Reservation : ReservationAlone(s)'
              /\ \A c \in Cell : Covered(c)
  <2>1. Moving = {} /\ Reserving = {}
    BY <1>27 DEF SubtractFromReserved, Releasing, TurnInv, AloneInv
  <2>3. ASSUME NEW c \in Cell PROVE Covered(c)
    <3> DEFINE r == release[k].reservation
               left == balance[reservation[r].cell].reserved - reservation[r].quantity
    <3>1. balance[c].onHand \in Int /\ balance[c].reserved \in Int
      BY DEF RowsInv, TypeOK, Balance
    <3>2. r \in Reservation
      BY <1>27 DEF SubtractFromReserved, RowsInv, ReleaseInv
    <3>3. reservation[r].quantity \in Nat
      <4>1. reservation[r] \in ReservationState
        BY <3>2 DEF RowsInv, TypeOK
      <4>2. reservation[r].quantity \in {0} \cup Quantity
        BY <4>1 DEF ReservationState
      <4>3. {0} \cup Quantity \subseteq Nat
        BY QuantityAssumption
      <4> QED  BY <4>2, <4>3
    <3>4. \/ balance' = balance
          \/ balance' = [balance EXCEPT ![reservation[r].cell].reserved = left]
      BY <1>27 DEF SubtractFromReserved
    <3>5. balance'[c].onHand = balance[c].onHand
      BY <3>4 DEF RowsInv, TypeOK, Balance
    <3>6. balance'[c].reserved = balance[c].reserved \/ balance'[c].reserved = balance[c].reserved - reservation[r].quantity
      BY <3>4 DEF RowsInv, TypeOK, Balance
    <3>7. Available(c)' >= Available(c)
      <4>1. \A h, b, n \in Int : n >= 0 => h - b >= h - b /\ h - (b - n) >= h - b
        OBVIOUS
      <4>2. reservation[r].quantity \in Int /\ reservation[r].quantity >= 0
        BY <3>3
      <4>3. Available(c) = balance[c].onHand - balance[c].reserved
        BY DEF Available
      <4>4. Available(c)' = balance'[c].onHand - balance'[c].reserved
        BY DEF Available
      <4> HIDE DEF r
      <4>5. CASE balance'[c].reserved = balance[c].reserved
        BY <3>1, <3>5, <4>1, <4>2, <4>3, <4>4, <4>5
      <4>6. CASE balance'[c].reserved = balance[c].reserved - reservation[r].quantity
        BY <3>1, <3>5, <4>1, <4>2, <4>3, <4>4, <4>6
      <4> QED  BY <3>6, <4>5, <4>6
    <3> QED  BY <3>7 DEF Covered
  <2>4. UNCHANGED movement /\ \A s \in Reservation : reservation'[s].at = reservation[s].at
    BY <1>27 DEF SubtractFromReserved, RowsInv, TypeOK, ReservationState
  <2> QED  BY <2>1, <2>3, <2>4, TurnOfRelease
<1>28. ASSUME NEW k \in Clerk, SetReservationReleased(k)
       PROVE  /\ \A n \in Movement : MovementAlone(n)'
              /\ \A s \in Reservation : ReservationAlone(s)'
              /\ \A c \in Cell : Covered(c)
  <2>1. Moving = {} /\ Reserving = {}
    BY <1>28 DEF SetReservationReleased, Releasing, TurnInv, AloneInv
  <2>3. ASSUME NEW c \in Cell PROVE Covered(c)
    BY <1>28, <1>6 DEF SetReservationReleased
  <2>4. UNCHANGED movement /\ \A s \in Reservation : reservation'[s].at = reservation[s].at
    BY <1>28 DEF SetReservationReleased, RowsInv, TypeOK, ReservationState
  <2> QED  BY <2>1, <2>3, <2>4, TurnOfRelease
<1>29. ASSUME NEW k \in Clerk, ReleaseFails(k)
       PROVE  /\ \A n \in Movement : MovementAlone(n)'
              /\ \A s \in Reservation : ReservationAlone(s)'
              /\ \A c \in Cell : Covered(c)
  <2>1. Moving = {} /\ Reserving = {}
    BY <1>29 DEF ReleaseFails, Releasing, TurnInv, AloneInv
  <2>3. ASSUME NEW c \in Cell PROVE Covered(c)
    BY <1>29, <1>6 DEF ReleaseFails
  <2>4. UNCHANGED movement /\ \A s \in Reservation : reservation'[s].at = reservation[s].at
    BY <1>29 DEF ReleaseFails, RowsInv, TypeOK, ReservationState
  <2> QED  BY <2>1, <2>3, <2>4, TurnOfRelease
<1>30. CASE ReleaseNext
  BY <1>30, <1>26, <1>27, <1>28, <1>29 DEF ReleaseNext
<1>31. CASE UNCHANGED vars
  BY <1>31, <1>6 DEF vars, TurnInv, MovementAlone, ReservationAlone, Available
<1> QED  BY <1>20, <1>25, <1>30, <1>31 DEF Next

(* With requests one at a time only a count that came out short leaves     *)
(* less on hand than is reserved.                                          *)
THEOREM OverdrawnByCountsOnly == ASSUME AtOnce = 1 PROVE Spec => []OnlyCountsOverdraw
<1>1. RowsInv /\ TurnInv /\ [Next]_vars => TurnInv'
  BY RowsStep, TurnStep
<1>2. TurnInv => OnlyCountsOverdraw
  BY DEF TurnInv
<1> QED  BY <1>1, <1>2, RowsInit, RowsStep, TurnInit, PTL DEF Spec

(* And a movement that reached the stock ledger leaves the quantity, the   *)
(* valuation and the ledger in agreement.                                  *)
THEOREM LedgerAgrees == ASSUME AtOnce = 1 PROVE Spec => []LedgerTellsTheBalance
<1>1. RowsInv /\ TurnInv /\ [Next]_vars => TurnInv'
  BY RowsStep, TurnStep
<1>2. RowsInv /\ TurnInv => LedgerTellsTheBalance
  BY DEF TurnInv, MovementAlone, LedgerTellsTheBalance
<1> QED  BY <1>1, <1>2, RowsInit, RowsStep, TurnInit, PTL DEF Spec

=============================================================================
