---------------------------- MODULE JournalProofs ----------------------------
(***************************************************************************)
(* What Journal keeps for every set of entries, calls, accounts, keys and  *)
(* inputs, and every number of periods.                                    *)
(***************************************************************************)
EXTENDS Journal, FiniteSetTheorems, TLAPS

-----------------------------------------------------------------------------
(* The lines of an accepted input are a sequence of lines. *)
LEMMA LinesType ==
  ASSUME NEW e \in Entry, creating[e].input \in Input
  PROVE  /\ Lines(e) \in Seq(Line)
         /\ Len(Lines(e)) \in Nat
         /\ \A n \in 1..Len(Lines(e)) : Lines(e)[n] \in Line
BY InputAssumption DEF Lines

(* The initial state has the type. *)
LEMMA TypeInit == Init => TypeOK
BY DEF Init, TypeOK, PeriodStatus, AccountState, Creating, CreateStep, Row, RowStatus,
       CallState, CallStep, Fresh, NoRow, Idle

(* Updates of one field keep a record in its type. *)
LEMMA CreatingUpdate ==
  ASSUME NEW r \in Creating
  PROVE  /\ \A s \in CreateStep : [r EXCEPT !.step = s] \in Creating
         /\ \A n \in Nat : [r EXCEPT !.checked = n] \in Creating
         /\ \A s \in CreateStep, n \in Nat : [r EXCEPT !.step = s, !.sequence = n] \in Creating
BY DEF Creating

LEMMA RowUpdate ==
  ASSUME NEW r \in Row
  PROVE  /\ \A s \in RowStatus : [r EXCEPT !.status = s] \in Row
         /\ \A n \in Nat : [r EXCEPT !.lines = n] \in Row
         /\ \A s \in RowStatus, n \in Nat : [r EXCEPT !.status = s, !.covered = n] \in Row
BY DEF Row

(* A row, once inserted, is never deleted: a step that does not insert a   *)
(* header leaves the set of rows as it is.                                 *)
LEMMA RowsKept ==
  ASSUME TypeOK, CallInv
  PROVE  /\ \A e \in Entry : InsertLine(e) => Rows' = Rows
         /\ \A c \in Call : PostWrites(c) => Rows' = Rows
         /\ \A c \in Call : CancelWrites(c) => Rows' = Rows
<1> USE DEF Rows, TypeOK
<1>1. ASSUME NEW e \in Entry, InsertLine(e)
      PROVE  \A f \in Entry : row'[f].status = row[f].status
  BY <1>1 DEF InsertLine, Row
<1>2. ASSUME NEW c \in Call, PostWrites(c)
      PROVE  \A f \in Entry : row'[f].status # "none" <=> row[f].status # "none"
  BY <1>2 DEF PostWrites, Row, CallInv
<1>3. ASSUME NEW c \in Call, CancelWrites(c)
      PROVE  \A f \in Entry : row'[f].status # "none" <=> row[f].status # "none"
  BY <1>3 DEF CancelWrites, Row, CallInv
<1>4. QED
  BY <1>1, <1>2, <1>3

(* Inserting a header is refused, or adds exactly its own row. *)
LEMMA RowsGrow ==
  ASSUME TypeOK, NEW e \in Entry, InsertHeader(e)
  PROVE  \/ Rows' = Rows /\ row' = row
            /\ creating' = [creating EXCEPT ![e].step = "failed"]
         \/ Rows' = Rows \cup {e}
            /\ row' = [row EXCEPT ![e].status = "draft"]
            /\ creating' = [creating EXCEPT ![e].step = "lines"]
BY DEF InsertHeader, Rows, TypeOK, Row

(* Each step of each handler leaves every table and every local state in   *)
(* its type.                                                               *)
LEMMA TypeStep ==
  ASSUME TypeOK, IsFiniteSet(Rows), CallInv, [Next]_vars
  PROVE  TypeOK' /\ IsFiniteSet(Rows)'
<1> USE DEF TypeOK
<1> DEFINE Kept == Rows' = Rows
<1>1. ASSUME UNCHANGED row
      PROVE  Kept
  BY <1>1 DEF Rows
<1>2. CASE UNCHANGED vars
  BY <1>1, <1>2 DEF vars
<1>3. CASE PeriodNext
  <2>1. ASSUME NEW p \in Period, NEW s \in PeriodStatus, SetPeriodStatus(p, s)
        PROVE  TypeOK' /\ Kept
    BY <2>1, <1>1 DEF SetPeriodStatus
  <2>2. ASSUME NEW p \in Period, InsertPeriod(p)
        PROVE  TypeOK' /\ Kept
    BY <2>2, <1>1 DEF InsertPeriod, PeriodStatus
  <2>3. QED
    BY <2>1, <2>2, <1>3 DEF PeriodNext, ClosePeriod, ReopenPeriod, PeriodStatus
<1>4. CASE AccountNext
  BY <1>1, <1>4 DEF AccountNext, OpenTopAccount, MarkAsParent, InsertAccount,
                    OpenAccountFails, AccountState
<1>5. ASSUME NEW e \in Entry, NEW in \in Input, BeginEntry(e, in)
      PROVE  TypeOK' /\ Kept
  BY <1>1, <1>5, InputAssumption
     DEF BeginEntry, PeriodStored, PeriodFound, Creating, CreateStep, Fresh
<1>6. ASSUME NEW e \in Entry, CheckLine(e)
      PROVE  TypeOK' /\ Kept
  <2>1. creating[e] \in Creating /\ creating[e].checked + 1 \in Nat
    BY DEF Creating
  <2>2. QED
    BY <1>1, <1>6, <2>1, CreatingUpdate DEF CheckLine, CreateStep
<1>7. ASSUME NEW e \in Entry, CountEntries(e)
      PROVE  TypeOK' /\ Kept
  <2>1. creating[e] \in Creating /\ NextSequence \in Nat
    BY FS_CardinalityType DEF NextSequence
  <2>2. QED
    BY <1>1, <1>7, <2>1, CreatingUpdate DEF CountEntries, CreateStep
<1>8. ASSUME NEW e \in Entry, InsertHeader(e)
      PROVE  TypeOK' /\ IsFiniteSet(Rows)'
  <2>1. creating[e] \in Creating /\ row[e] \in Row
    OBVIOUS
  <2>2. IsFiniteSet(Rows \cup {e})
    BY FS_AddElement
  <2>3. UNCHANGED <<period, account, call>>
    BY <1>8 DEF InsertHeader
  <2>4. QED
    BY <1>8, <2>1, <2>2, <2>3, RowsGrow, CreatingUpdate, RowUpdate DEF CreateStep, RowStatus
<1>9. ASSUME NEW e \in Entry, InsertLine(e)
      PROVE  TypeOK' /\ Kept
  <2>1. creating[e] \in Creating /\ row[e] \in Row /\ row[e].lines + 1 \in Nat
    BY DEF Row
  <2>2. row' \in [Entry -> Row]
    BY <1>9, <2>1, RowUpdate DEF InsertLine
  <2>3. creating' \in [Entry -> Creating]
    BY <1>9, <2>1, CreatingUpdate DEF InsertLine, CreateStep
  <2>4. QED
    BY <1>9, <2>2, <2>3, RowsKept DEF InsertLine
<1>10. ASSUME NEW e \in Entry, CreateEntryFails(e)
       PROVE  TypeOK' /\ Kept
  BY <1>1, <1>10, CreatingUpdate DEF CreateEntryFails, CreateStep
<1>11. CASE CreateNext
  BY <1>5, <1>6, <1>7, <1>8, <1>9, <1>10, <1>11 DEF CreateNext, CreateEntryStep
<1>12. ASSUME NEW c \in Call, NEW e \in Entry, PostReadsHeader(c, e) \/ CancelReads(c, e)
       PROVE  TypeOK' /\ Kept
  BY <1>1, <1>12 DEF PostReadsHeader, CancelReads, CallState, CallStep
<1>13. ASSUME NEW c \in Call, PostReadsLines(c)
       PROVE  TypeOK' /\ Kept
  <2>1. call[c].entry \in Entry /\ row[call[c].entry].lines \in Nat
    BY <1>13 DEF PostReadsLines, CallInv, Rows, Row
  <2>2. QED
    BY <1>1, <1>13, <2>1 DEF PostReadsLines, CallState, CallStep, Idle
<1>14. ASSUME NEW c \in Call, PostWrites(c) \/ CancelWrites(c)
       PROVE  TypeOK' /\ Kept
  <2>1. call[c].entry \in Entry /\ row[call[c].entry] \in Row /\ call[c].read \in Nat
    BY <1>14 DEF PostWrites, CancelWrites, CallInv, Rows, CallState
  <2>2. CASE PostWrites(c)
    <3>1. row' \in [Entry -> Row]
      BY <2>1, <2>2, RowUpdate DEF PostWrites, RowStatus
    <3>2. QED
      BY <2>2, <3>1, RowsKept DEF PostWrites, CallState, CallStep, Idle
  <2>3. CASE CancelWrites(c)
    <3>1. row' \in [Entry -> Row]
      BY <2>1, <2>3, RowUpdate DEF CancelWrites, RowStatus
    <3>2. QED
      BY <2>3, <3>1, RowsKept DEF CancelWrites, CallState, CallStep, Idle
  <2>4. QED
    BY <1>14, <2>2, <2>3
<1>15. ASSUME NEW c \in Call, CallFails(c)
       PROVE  TypeOK' /\ Kept
  BY <1>1, <1>15 DEF CallFails, CallState, CallStep, Idle
<1>16. CASE CallNext
  BY <1>12, <1>13, <1>14, <1>15, <1>16 DEF CallNext, CallStepOf
<1>17. QED
  BY <1>2, <1>3, <1>4, <1>11, <1>16 DEF Next

-----------------------------------------------------------------------------
(* What no step undoes: the input an entry was created from, the checks    *)
(* and the number behind a row, the lines a row has, and that an account   *)
(* is in the chart.                                                        *)
LEMMA Monotone ==
  ASSUME TypeOK, CallInv, RowInv, [Next]_vars
  PROVE  /\ \A e \in Entry : creating[e].step # "unused" =>
              /\ creating'[e].step # "unused"
              /\ creating'[e].input = creating[e].input
              /\ creating'[e].checked >= creating[e].checked
         /\ \A e \in Rows :
              /\ e \in Rows'
              /\ creating'[e].checked = creating[e].checked
              /\ creating'[e].sequence = creating[e].sequence
              /\ row'[e].lines >= row[e].lines
         /\ \A a \in Account :
              account[a] \in {"leaf", "parent"} => account'[a] \in {"leaf", "parent"}
<1> USE DEF TypeOK
<1> DEFINE Entries ==
             \A e \in Entry :
               /\ creating[e].step # "unused" =>
                    /\ creating'[e].step # "unused"
                    /\ creating'[e].input = creating[e].input
                    /\ creating'[e].checked >= creating[e].checked
               /\ row[e].status # "none" =>
                    /\ row'[e].status # "none"
                    /\ creating'[e].checked = creating[e].checked
                    /\ creating'[e].sequence = creating[e].sequence
                    /\ row'[e].lines >= row[e].lines
           Accounts ==
             \A a \in Account :
               account[a] \in {"leaf", "parent"} => account'[a] \in {"leaf", "parent"}
<1>1. ASSUME UNCHANGED <<creating, row>>
      PROVE  Entries
  BY <1>1 DEF Creating, Row
<1>2. ASSUME UNCHANGED account
      PROVE  Accounts
  BY <1>2
<1>3. ASSUME UNCHANGED vars
      PROVE  Entries /\ Accounts
  BY <1>1, <1>2, <1>3 DEF vars
<1>4. ASSUME PeriodNext
      PROVE  Entries /\ Accounts
  BY <1>1, <1>2, <1>4 DEF PeriodNext, InsertPeriod, SetPeriodStatus, ClosePeriod, ReopenPeriod
<1>5. ASSUME AccountNext
      PROVE  Entries /\ Accounts
  <2>1. UNCHANGED <<creating, row>>
    BY <1>5 DEF AccountNext, OpenTopAccount, MarkAsParent, InsertAccount, OpenAccountFails
  <2>2. Accounts
    BY <1>5 DEF AccountNext, OpenTopAccount, MarkAsParent, InsertAccount, OpenAccountFails
  <2>3. QED
    BY <1>1, <2>1, <2>2
<1>6. ASSUME CreateNext
      PROVE  Entries /\ Accounts
  <2>1. ASSUME NEW e \in Entry, NEW in \in Input, BeginEntry(e, in)
        PROVE  Entries /\ Accounts
    <3>1. row[e] = NoRow
      BY <2>1 DEF BeginEntry, RowInv
    <3>2. QED
      BY <2>1, <3>1, <1>2 DEF BeginEntry, Creating, Row, NoRow
  <2>2. ASSUME NEW e \in Entry, CheckLine(e)
        PROVE  Entries /\ Accounts
    <3>1. row[e] = NoRow
      BY <2>2 DEF CheckLine, RowInv
    <3>2. QED
      BY <2>2, <3>1, <1>2 DEF CheckLine, Creating, Row, NoRow
  <2>3. ASSUME NEW e \in Entry, CountEntries(e)
        PROVE  Entries /\ Accounts
    <3>1. row[e] = NoRow
      BY <2>3 DEF CountEntries, RowInv
    <3>2. QED
      BY <2>3, <3>1, <1>2 DEF CountEntries, Creating, Row, NoRow
  <2>4. ASSUME NEW e \in Entry, InsertHeader(e)
        PROVE  Entries /\ Accounts
    <3>1. row[e] = NoRow
      BY <2>4 DEF InsertHeader, RowInv
    <3>2. CASE creating' = [creating EXCEPT ![e].step = "failed"] /\ row' = row
      BY <2>4, <3>1, <3>2, <1>2 DEF InsertHeader, Creating, Row, NoRow
    <3>3. CASE /\ creating' = [creating EXCEPT ![e].step = "lines"]
               /\ row' = [row EXCEPT ![e].status = "draft"]
      BY <2>4, <3>1, <3>3, <1>2 DEF InsertHeader, Creating, Row, NoRow
    <3>4. QED
      BY <2>4, <3>2, <3>3 DEF InsertHeader
  <2>5. ASSUME NEW e \in Entry, InsertLine(e)
        PROVE  Entries /\ Accounts
    BY <2>5, <1>2 DEF InsertLine, Creating, Row
  <2>6. ASSUME NEW e \in Entry, CreateEntryFails(e)
        PROVE  Entries /\ Accounts
    BY <2>6, <1>2 DEF CreateEntryFails, Creating, Row
  <2>7. QED
    BY <2>1, <2>2, <2>3, <2>4, <2>5, <2>6, <1>6 DEF CreateNext, CreateEntryStep
<1>7. ASSUME CallNext
      PROVE  Entries /\ Accounts
  <2>1. ASSUME NEW c \in Call, PostWrites(c)
        PROVE  Entries /\ Accounts
    BY <2>1, <1>2 DEF PostWrites, CallInv, Rows, Creating, Row
  <2>2. ASSUME NEW c \in Call, CancelWrites(c)
        PROVE  Entries /\ Accounts
    BY <2>2, <1>2 DEF CancelWrites, CallInv, Rows, Creating, Row
  <2>3. QED
    BY <2>1, <2>2, <1>1, <1>2, <1>7 DEF CallNext, CallStepOf, PostReadsHeader, PostReadsLines,
                                        CancelReads, CallFails
<1>8. QED
  BY <1>3, <1>4, <1>5, <1>6, <1>7 DEF Next, Rows

(* Who may change what: the local state of a createEntry call only changes *)
(* by its own steps, a row by its creator or by a call that holds it, the  *)
(* local state of a call by its own steps.                                 *)
LEMMA CreatingChanges ==
  ASSUME TypeOK, [Next]_vars, NEW e \in Entry
  PROVE  \/ creating'[e] = creating[e]
         \/ \E in \in Input : BeginEntry(e, in)
         \/ CreateEntryStep(e)
         \/ CreateEntryFails(e)
<1> USE DEF TypeOK
<1>1. CASE UNCHANGED creating
  BY <1>1
<1>2. CASE CreateNext
  <2>1. PICK f \in Entry : \/ \E in \in Input : BeginEntry(f, in)
                           \/ CreateEntryStep(f)
                           \/ CreateEntryFails(f)
    BY <1>2 DEF CreateNext
  <2>2. CASE f = e
    BY <2>1, <2>2
  <2>3. CASE f # e
    BY <2>1, <2>3 DEF BeginEntry, CreateEntryStep, CheckLine, CountEntries, InsertHeader,
                      InsertLine, CreateEntryFails
  <2>4. QED
    BY <2>2, <2>3
<1>3. CASE ~CreateNext
  <2>1. UNCHANGED creating
    BY <1>3 DEF Next, vars, PeriodNext, InsertPeriod, SetPeriodStatus, ClosePeriod, ReopenPeriod,
                AccountNext, OpenTopAccount, MarkAsParent, InsertAccount, OpenAccountFails,
                CallNext, CallStepOf, PostReadsHeader, PostReadsLines, PostWrites, CancelReads,
                CancelWrites, CallFails
  <2>2. QED
    BY <2>1
<1>4. QED
  BY <1>2, <1>3

LEMMA RowChanges ==
  ASSUME TypeOK, CallInv, [Next]_vars, NEW e \in Entry
  PROVE  \/ row'[e] = row[e]
         \/ InsertHeader(e)
         \/ InsertLine(e)
         \/ \E c \in Call : call[c].entry = e /\ (PostWrites(c) \/ CancelWrites(c))
<1> USE DEF TypeOK
<1>1. CASE UNCHANGED row
  BY <1>1
<1>2. ASSUME NEW f \in Entry, InsertHeader(f) \/ InsertLine(f), f # e
      PROVE  row'[e] = row[e]
  BY <1>2 DEF InsertHeader, InsertLine
<1>3. ASSUME NEW c \in Call, PostWrites(c) \/ CancelWrites(c), call[c].entry # e
      PROVE  row'[e] = row[e]
  BY <1>3 DEF PostWrites, CancelWrites
<1>4. \/ UNCHANGED row
      \/ \E f \in Entry : InsertHeader(f) \/ InsertLine(f)
      \/ \E c \in Call : PostWrites(c) \/ CancelWrites(c)
  BY DEF Next, vars, PeriodNext, InsertPeriod, SetPeriodStatus, ClosePeriod, ReopenPeriod,
         AccountNext, OpenTopAccount, MarkAsParent, InsertAccount, OpenAccountFails,
         CreateNext, BeginEntry, CreateEntryStep, CheckLine, CountEntries, CreateEntryFails,
         CallNext, CallStepOf, PostReadsHeader, PostReadsLines, CancelReads, CallFails
<1>5. QED
  BY <1>1, <1>2, <1>3, <1>4

LEMMA CallChanges ==
  ASSUME TypeOK, [Next]_vars, NEW c \in Call
  PROVE  \/ call'[c] = call[c]
         \/ \E e \in Entry : PostReadsHeader(c, e) \/ CancelReads(c, e)
         \/ PostReadsLines(c)
         \/ call'[c] = Idle
<1> USE DEF TypeOK
<1>1. CASE CallNext
  <2>1. PICK d \in Call : \/ \E e \in Entry : PostReadsHeader(d, e) \/ CancelReads(d, e)
                          \/ CallStepOf(d)
                          \/ CallFails(d)
    BY <1>1 DEF CallNext
  <2>2. CASE d = c
    BY <2>1, <2>2 DEF CallStepOf, PostWrites, CancelWrites, CallFails
  <2>3. CASE d # c
    BY <2>1, <2>3 DEF CallStepOf, PostReadsHeader, CancelReads, PostReadsLines, PostWrites,
                      CancelWrites, CallFails
  <2>4. QED
    BY <2>2, <2>3
<1>2. CASE ~CallNext
  <2>1. UNCHANGED call
    BY <1>2 DEF Next, vars, PeriodNext, InsertPeriod, SetPeriodStatus, ClosePeriod, ReopenPeriod,
                AccountNext, OpenTopAccount, MarkAsParent, InsertAccount, OpenAccountFails,
                CreateNext, BeginEntry, CreateEntryStep, CheckLine, CountEntries, InsertHeader,
                InsertLine, CreateEntryFails
  <2>2. QED
    BY <2>1
<1>3. QED
  BY <1>1, <1>2

-----------------------------------------------------------------------------
(* Each part of the invariant is preserved. *)

(* The loop over the lines has checked exactly the lines it has counted,   *)
(* and an account it found to be a leaf stays in the chart.                *)
LEMMA CreatingPreserved ==
  ASSUME JournalInv, [Next]_vars
  PROVE  CreatingInv'
<1> USE DEF JournalInv
<1> DEFINE Good(line) ==
             ValidAmounts(line) /\ account[line.account] \in {"leaf", "parent"}
           Stays(line) ==
             account[line.account] \in {"leaf", "parent"}
               => account'[line.account] \in {"leaf", "parent"}
<1> SUFFICES ASSUME NEW e \in Entry, creating'[e].step # "unused"
             PROVE  /\ creating'[e].input \in Input
                    /\ Len(Lines(e)') >= 2
                    /\ creating'[e].checked <= Len(Lines(e)')
                    /\ \A n \in 1..creating'[e].checked :
                         /\ ValidAmounts(Lines(e)'[n])
                         /\ account'[Lines(e)'[n].account] \in {"leaf", "parent"}
  BY DEF CreatingInv
<1>1. creating[e] \in Creating
  BY DEF TypeOK
<1>2. CASE creating[e].step # "unused"
  <2>1. /\ Lines(e)' = Lines(e)
        /\ creating'[e].input = creating[e].input
        /\ creating[e].input \in Input
        /\ Len(Lines(e)) >= 2
    BY <1>2, Monotone DEF Lines, CreatingInv
  <2>2. ASSUME NEW n \in 1..Len(Lines(e))
        PROVE  Stays(Lines(e)[n])
    <3>1. Lines(e)[n].account \in Account
      BY <2>1, LinesType DEF Line
    <3>2. QED
      BY <3>1, Monotone
  <2>3. /\ creating[e].checked <= Len(Lines(e))
        /\ \A n \in 1..creating[e].checked : Good(Lines(e)[n])
    BY <1>2 DEF CreatingInv
  <2>4. CASE creating'[e].checked = creating[e].checked
    <3>1. ASSUME NEW n \in 1..creating[e].checked
          PROVE  n \in 1..Len(Lines(e)) /\ Good(Lines(e)[n])
      BY <1>1, <2>1, <2>3, LinesType DEF Creating
    <3>2. QED
      BY <2>1, <2>2, <2>3, <2>4, <3>1
  <2>5. CASE CheckLine(e) /\ creating'[e].checked # creating[e].checked
    <3>1. /\ creating[e].checked < Len(Lines(e))
          /\ creating'[e].checked = creating[e].checked + 1
          /\ Good(Lines(e)[creating[e].checked + 1])
      BY <2>5 DEF CheckLine, TypeOK, Creating
    <3>2. ASSUME NEW n \in 1..(creating[e].checked + 1)
          PROVE  n \in 1..Len(Lines(e)) /\ Good(Lines(e)[n])
      <4>1. n \in 1..creating[e].checked \/ n = creating[e].checked + 1
        BY <1>1 DEF Creating
      <4>2. QED
        BY <1>1, <2>1, <2>3, <3>1, <4>1, LinesType DEF Creating
    <3>3. creating'[e].checked <= Len(Lines(e))
      BY <1>1, <2>1, <3>1, LinesType DEF Creating
    <3>4. QED
      BY <2>1, <2>2, <3>1, <3>2, <3>3
  <2>6. \/ creating'[e].checked = creating[e].checked
        \/ CheckLine(e)
    <3>1. ASSUME CountEntries(e) \/ CreateEntryFails(e)
          PROVE  creating'[e].checked = creating[e].checked
      BY <3>1, <1>1 DEF CountEntries, CreateEntryFails, TypeOK, Creating
    <3>2. ASSUME InsertHeader(e)
          PROVE  creating'[e].checked = creating[e].checked
      BY <3>2, <1>1 DEF InsertHeader, TypeOK, Creating
    <3>3. ASSUME InsertLine(e)
          PROVE  creating'[e].checked = creating[e].checked
      BY <3>3, <1>1 DEF InsertLine, TypeOK, Creating
    <3>4. ASSUME NEW in \in Input, BeginEntry(e, in)
          PROVE  FALSE
      BY <3>4, <1>2 DEF BeginEntry
    <3>5. \/ creating'[e] = creating[e]
          \/ CheckLine(e) \/ CountEntries(e) \/ InsertHeader(e) \/ InsertLine(e)
          \/ CreateEntryFails(e)
      BY <3>4, CreatingChanges DEF CreateEntryStep
    <3>6. QED
      BY <3>1, <3>2, <3>3, <3>5
  <2>7. QED
    BY <2>4, <2>5, <2>6
<1>3. CASE creating[e].step = "unused"
  <2>1. PICK in \in Input : BeginEntry(e, in)
    BY <1>3, CreatingChanges
       DEF CreateEntryStep, CheckLine, CountEntries, InsertHeader, InsertLine, CreateEntryFails,
           InFlight
  <2>2. creating'[e].input = in /\ creating'[e].checked = 0 /\ Len(in.lines) >= 2
    BY <2>1 DEF BeginEntry, Refused, TypeOK, Creating, Fresh
  <2>3. Len(in.lines) \in Nat
    BY InputAssumption
  <2>4. QED
    BY <2>2, <2>3 DEF Lines
<1>4. QED
  BY <1>2, <1>3

(* Rows are never deleted, so their number never falls. *)
LEMMA CountGrows ==
  ASSUME JournalInv, [Next]_vars
  PROVE  /\ Cardinality(Rows) \in Nat
         /\ Cardinality(Rows)' \in Nat
         /\ Cardinality(Rows) <= Cardinality(Rows)'
<1>1. IsFiniteSet(Rows) /\ IsFiniteSet(Rows')
  BY TypeStep DEF JournalInv
<1>2. Rows \subseteq Rows'
  BY Monotone DEF JournalInv
<1>3. QED
  BY <1>1, <1>2, FS_Subset, FS_CardinalityType

(* A count taken earlier is at most the count now. *)
LEMMA HeaderPreserved ==
  ASSUME JournalInv, [Next]_vars
  PROVE  HeaderInv'
<1> SUFFICES ASSUME NEW e \in Entry, creating'[e].step = "header"
             PROVE  /\ creating'[e].checked = Len(Lines(e)')
                    /\ creating'[e].sequence <= Cardinality(Rows)' + 1
  BY DEF HeaderInv
<1>1. creating[e] \in Creating /\ TypeOK
  BY DEF JournalInv, TypeOK
<1>2. CASE creating'[e] = creating[e]
  BY <1>1, <1>2, CountGrows DEF JournalInv, HeaderInv, Lines, Creating
<1>3. CASE CountEntries(e)
  <2>1. /\ creating'[e].checked = Len(Lines(e))
        /\ creating'[e].sequence = Cardinality(Rows) + 1
        /\ Lines(e)' = Lines(e)
    BY <1>1, <1>3 DEF CountEntries, NextSequence, TypeOK, Creating, Lines
  <2>2. QED
    BY <2>1, CountGrows
<1>4. CASE CheckLine(e) \/ InsertLine(e) \/ CreateEntryFails(e)
  <2>1. CheckLine(e) => creating'[e].step # "header"
    BY <1>1 DEF CheckLine, TypeOK, Creating
  <2>2. InsertLine(e) => creating'[e].step # "header"
    BY <1>1 DEF InsertLine, TypeOK, Creating
  <2>3. CreateEntryFails(e) => creating'[e].step # "header"
    BY <1>1 DEF CreateEntryFails, TypeOK, Creating
  <2>4. QED
    BY <1>4, <2>1, <2>2, <2>3
<1>5. CASE InsertHeader(e)
  BY <1>1, <1>5 DEF InsertHeader, TypeOK, Creating
<1>6. CASE \E in \in Input : BeginEntry(e, in)
  BY <1>1, <1>6 DEF BeginEntry, Refused, TypeOK, Creating, Fresh
<1>7. QED
  BY <1>1, <1>2, <1>3, <1>4, <1>5, <1>6, CreatingChanges DEF CreateEntryStep

(* A new row's sequence is at most one more than the rows before it, and   *)
(* the row itself is one more.                                             *)
LEMMA NumberPreserved ==
  ASSUME JournalInv, [Next]_vars
  PROVE  NumberWithinCount'
<1> SUFFICES ASSUME NEW e \in Rows'
             PROVE  creating'[e].sequence <= Cardinality(Rows)'
  BY DEF NumberWithinCount
<1>1. e \in Entry /\ creating[e] \in Creating /\ TypeOK /\ CallInv /\ IsFiniteSet(Rows)
  BY DEF JournalInv, TypeOK, Rows
<1>2. CASE e \in Rows
  <2>1. creating'[e].sequence = creating[e].sequence
    BY <1>2, Monotone DEF JournalInv
  <2>2. creating[e].sequence <= Cardinality(Rows)
    BY <1>2 DEF JournalInv, NumberWithinCount
  <2>3. QED
    BY <1>1, <2>1, <2>2, CountGrows DEF Creating
<1>3. CASE e \notin Rows
  <2>1. row'[e].status # "none" /\ row[e].status = "none"
    BY <1>1, <1>3 DEF Rows
  <2>2. InsertHeader(e)
    <3>1. ~InsertLine(e)
      BY <1>1, <2>1 DEF InsertLine, TypeOK, Row
    <3>2. ASSUME NEW c \in Call, call[c].entry = e
          PROVE  ~(PostWrites(c) \/ CancelWrites(c))
      BY <1>3, <3>2 DEF PostWrites, CancelWrites, JournalInv, CallInv
    <3>3. QED
      BY <1>1, <2>1, <3>1, <3>2, RowChanges
  <2>3. /\ Rows' = Rows \cup {e}
        /\ creating'[e].sequence = creating[e].sequence
    BY <1>1, <1>3, <2>2, RowsGrow DEF TypeOK, Creating
  <2>4. Cardinality(Rows') = Cardinality(Rows) + 1
    BY <1>1, <1>3, <2>3, FS_AddElement
  <2>5. creating[e].sequence <= Cardinality(Rows) + 1
    BY <1>1, <2>2 DEF InsertHeader, JournalInv, HeaderInv
  <2>6. QED
    BY <2>3, <2>4, <2>5
<1>4. QED
  BY <1>2, <1>3

(* A row appears when its creator has checked every line, and gets no more *)
(* lines than its input has.                                               *)
LEMMA RowPreserved ==
  ASSUME JournalInv, [Next]_vars
  PROVE  RowInv'
<1> SUFFICES ASSUME NEW e \in Entry
             PROVE  /\ creating'[e].step \in {"unused", "accounts", "header"} => row'[e] = NoRow
                    /\ creating'[e].step \in {"lines", "created"} => row'[e].status # "none"
                    /\ row'[e].status # "none" =>
                         /\ creating'[e].checked = Len(Lines(e)')
                         /\ row'[e].lines <= Len(Lines(e)')
  BY DEF RowInv, Rows
<1>1. creating[e] \in Creating /\ row[e] \in Row /\ TypeOK /\ CallInv
  BY DEF JournalInv, TypeOK
<1>2. /\ creating[e].step \in {"unused", "accounts", "header"} => row[e] = NoRow
      /\ creating[e].step \in {"lines", "created"} => row[e].status # "none"
      /\ row[e].status # "none" =>
           creating[e].checked = Len(Lines(e)) /\ row[e].lines <= Len(Lines(e))
  BY DEF JournalInv, RowInv, Rows
<1>3. CASE \E in \in Input : BeginEntry(e, in)
  BY <1>1, <1>2, <1>3 DEF BeginEntry, TypeOK, Creating, Fresh, NoRow
<1>4. CASE CheckLine(e) \/ CountEntries(e)
  BY <1>1, <1>2, <1>4 DEF CheckLine, CountEntries, TypeOK, Creating, NoRow
<1>5. CASE InsertHeader(e)
  <2>1. /\ creating[e].checked = Len(Lines(e))
        /\ Len(Lines(e)) >= 2
        /\ row[e] = NoRow
    BY <1>2, <1>5 DEF InsertHeader, JournalInv, HeaderInv, CreatingInv
  <2>2. CASE creating' = [creating EXCEPT ![e].step = "failed"] /\ row' = row
    BY <1>1, <2>1, <2>2 DEF TypeOK, Creating, NoRow
  <2>3. CASE /\ creating' = [creating EXCEPT ![e].step = "lines"]
             /\ row' = [row EXCEPT ![e].status = "draft"]
    <3>1. /\ creating'[e].step = "lines"
          /\ creating'[e].checked = Len(Lines(e))
          /\ Lines(e)' = Lines(e)
      BY <1>1, <2>1, <2>3 DEF TypeOK, Creating, Lines
    <3>2. row'[e].status = "draft" /\ row'[e].lines = 0
      BY <1>1, <2>1, <2>3 DEF TypeOK, Row, NoRow
    <3>3. QED
      BY <2>1, <3>1, <3>2
  <2>4. QED
    BY <1>1, <1>5, <2>2, <2>3, RowsGrow
<1>6. CASE InsertLine(e)
  <2>1. /\ creating'[e].step \in {"lines", "created"}
        /\ creating'[e].checked = creating[e].checked
        /\ Lines(e)' = Lines(e)
    BY <1>1, <1>6 DEF InsertLine, TypeOK, Creating, Lines
  <2>2. row'[e].status = row[e].status /\ row'[e].lines = row[e].lines + 1
    BY <1>1, <1>6 DEF InsertLine, TypeOK, Row
  <2>3. row[e].lines < Len(Lines(e)) /\ creating[e].step = "lines"
    BY <1>6 DEF InsertLine
  <2>4. Len(Lines(e)) \in Nat
    BY <2>3, LinesType DEF JournalInv, CreatingInv
  <2>5. QED
    BY <1>1, <1>2, <2>1, <2>2, <2>3, <2>4 DEF Row
<1>7. CASE CreateEntryFails(e)
  BY <1>1, <1>2, <1>7 DEF CreateEntryFails, InFlight, TypeOK, Creating, Lines
<1>8. CASE creating'[e] = creating[e] /\ row'[e] = row[e]
  BY <1>2, <1>8 DEF Lines
<1>9. ASSUME creating'[e] = creating[e],
             NEW c \in Call, call[c].entry = e, PostWrites(c) \/ CancelWrites(c)
      PROVE  /\ row[e].status # "none" /\ row'[e].status # "none"
             /\ row'[e].lines = row[e].lines
  BY <1>1, <1>9 DEF PostWrites, CancelWrites, TypeOK, Row, CallInv, Rows
<1>10. QED
  BY <1>1, <1>2, <1>3, <1>4, <1>5, <1>6, <1>7, <1>8, <1>9, CreatingChanges, RowChanges
     DEF CreateEntryStep, Lines, NoRow

(* What a call read earlier about an entry still holds when it writes. *)
LEMMA CallPreserved ==
  ASSUME JournalInv, [Next]_vars
  PROVE  CallInv'
<1> SUFFICES ASSUME NEW c \in Call, call'[c].at # "idle"
             PROVE  \E e \in Rows' :
                      /\ call'[c].entry = e
                      /\ call'[c].at = "post" =>
                           call'[c].read <= row'[e].lines /\ Balanced(Lines(e)', call'[c].read)
  BY DEF CallInv, Lines
<1>1. TypeOK /\ TypeOK' /\ CallInv /\ RowInv /\ call[c] \in CallState
  BY TypeStep DEF JournalInv, TypeOK
<1>2. ASSUME NEW e \in Rows
      PROVE  /\ e \in Rows' /\ Lines(e)' = Lines(e)
             /\ row[e].lines \in Nat /\ row'[e].lines \in Nat
             /\ row'[e].lines >= row[e].lines
  <2>1. e \in Entry /\ creating[e].step # "unused"
    BY <1>1, <1>2 DEF Rows, RowInv, NoRow
  <2>2. creating'[e].input = creating[e].input
    BY <1>1, <2>1, Monotone
  <2>3. row[e] \in Row /\ row'[e] \in Row
    BY <1>1, <2>1 DEF TypeOK
  <2>4. QED
    BY <1>1, <1>2, <2>2, <2>3, Monotone DEF Lines, Row
<1>3. CASE call'[c] = call[c]
  <2>1. PICK e \in Rows : call[c].entry = e
    BY <1>1, <1>3 DEF CallInv
  <2>2. /\ call[c].at = "post" => call[c].read <= row[e].lines /\ Balanced(Lines(e), call[c].read)
        /\ call[c].read \in Nat
    BY <1>1, <1>3, <2>1 DEF CallInv, CallState
  <2>3. QED
    BY <1>2, <1>3, <2>1, <2>2
<1>4. CASE \E e \in Entry : PostReadsHeader(c, e) \/ CancelReads(c, e)
  <2>1. PICK e \in Entry : PostReadsHeader(c, e) \/ CancelReads(c, e)
    BY <1>4
  <2>2. e \in Rows /\ call'[c].entry = e /\ call'[c].at # "post"
    BY <1>1, <2>1 DEF PostReadsHeader, CancelReads, Rows, TypeOK
  <2>3. QED
    BY <1>2, <2>2
<1>5. CASE PostReadsLines(c)
  <2>1. PICK e \in Rows : call[c].entry = e
    BY <1>1, <1>5 DEF PostReadsLines, CallInv
  <2>2. row' = row /\ call'[c] = IF Balanced(Lines(e), row[e].lines)
                                 THEN [at |-> "post", entry |-> e, read |-> row[e].lines]
                                 ELSE Idle
    BY <1>1, <1>5, <2>1 DEF PostReadsLines, TypeOK
  <2>3. /\ Balanced(Lines(e), row[e].lines)
        /\ call'[c].entry = e /\ call'[c].read = row[e].lines
    BY <2>2 DEF Idle
  <2>4. QED
    BY <1>2, <2>2, <2>3
<1>6. CASE call'[c] = Idle
  BY <1>6 DEF Idle
<1>7. QED
  BY <1>1, <1>3, <1>4, <1>5, <1>6, CallChanges

(* An entry is posted with lines that were read and balanced, and those    *)
(* lines are still its first ones.                                         *)
LEMMA PostedPreserved ==
  ASSUME JournalInv, [Next]_vars
  PROVE  PostedWasBalanced'
<1> SUFFICES ASSUME NEW e \in Entry, row'[e].status = "posted"
             PROVE  /\ row'[e].covered <= row'[e].lines
                    /\ Balanced(Lines(e)', row'[e].covered)
  BY DEF PostedWasBalanced
<1>1. TypeOK /\ CallInv /\ RowInv /\ row[e] \in Row
  BY DEF JournalInv, TypeOK
<1>2. ASSUME e \in Rows
      PROVE  Lines(e)' = Lines(e)
  <2>1. creating[e].step # "unused"
    BY <1>1, <1>2 DEF Rows, RowInv, NoRow
  <2>2. QED
    BY <1>1, <2>1, Monotone DEF Lines
<1>3. ASSUME row[e].status = "posted"
      PROVE  /\ e \in Rows
             /\ row[e].covered <= row[e].lines
             /\ Balanced(Lines(e), row[e].covered)
  BY <1>3 DEF JournalInv, PostedWasBalanced, Rows
<1>4. CASE row'[e] = row[e]
  BY <1>2, <1>3, <1>4
<1>5. CASE InsertHeader(e)
  <2>1. row'[e] = row[e] \/ row'[e].status = "draft"
    BY <1>1, <1>5 DEF InsertHeader, TypeOK, Row
  <2>2. QED
    BY <1>4, <2>1
<1>6. CASE InsertLine(e)
  <2>1. /\ row'[e].status = row[e].status
        /\ row'[e].covered = row[e].covered
        /\ row'[e].lines = row[e].lines + 1
    BY <1>1, <1>6 DEF InsertLine, TypeOK, Row
  <2>2. QED
    BY <1>1, <1>2, <1>3, <2>1 DEF Row
<1>7. ASSUME NEW c \in Call, call[c].entry = e, PostWrites(c)
      PROVE  /\ e \in Rows
             /\ row'[e].covered = call[c].read
             /\ row'[e].lines = row[e].lines
             /\ call[c].read <= row[e].lines
             /\ Balanced(Lines(e), call[c].read)
  BY <1>1, <1>7 DEF PostWrites, TypeOK, Row, CallInv
<1>8. ASSUME NEW c \in Call, call[c].entry = e, CancelWrites(c)
      PROVE  FALSE
  BY <1>1, <1>8 DEF CancelWrites, TypeOK, Row
<1>9. QED
  BY <1>1, <1>2, <1>4, <1>5, <1>6, <1>7, <1>8, RowChanges

(* The empty tables of Init satisfy the invariant... *)
LEMMA JournalStarts == Init => JournalInv
<1> SUFFICES ASSUME Init PROVE JournalInv
  OBVIOUS
<1>1. Rows = {}
  BY DEF Init, Rows, NoRow
<1>2. IsFiniteSet(Rows)
  BY <1>1, FS_EmptySet
<1>3. CreatingInv /\ HeaderInv /\ RowInv
  BY <1>1 DEF Init, CreatingInv, HeaderInv, RowInv, Fresh
<1>4. CallInv
  BY DEF Init, CallInv, Idle
<1>5. NumberWithinCount /\ PostedWasBalanced
  BY <1>1 DEF NumberWithinCount, PostedWasBalanced, Rows
<1>6. QED
  BY <1>2, <1>3, <1>4, <1>5, TypeInit DEF JournalInv

(* ...and every step of every handler preserves it. *)
LEMMA JournalStep == JournalInv /\ [Next]_vars => JournalInv'
BY TypeStep, CreatingPreserved, HeaderPreserved, RowPreserved, CallPreserved, NumberPreserved,
   PostedPreserved
   DEF JournalInv

-----------------------------------------------------------------------------
(* The inductive invariant: whatever requests overlap, and wherever they   *)
(* stop, what each has established in its earlier statements still holds   *)
(* at the next one, as far as JournalInv says.                             *)
THEOREM JournalInvariant == Spec => []JournalInv
BY JournalStarts, JournalStep, PTL DEF Spec

(* Type correctness: every row and every local state the handlers of       *)
(* AccountingService produce is one of those Journal lists.                *)
THEOREM TypeCorrect == Spec => []TypeOK
<1>1. JournalInv => TypeOK
  BY DEF JournalInv
<1>2. QED
  BY <1>1, JournalInvariant, PTL

(* createEntry's numbering: a request that no other row came in the way of *)
(* between its count and its insert finds its number free.                 *)
THEOREM LoneNumber == Spec => []LoneNumberIsFree
<1>1. JournalInv => LoneNumberIsFree
  <2> SUFFICES ASSUME JournalInv, NEW e \in Entry, NEW f \in Rows,
                      creating[e].sequence = Cardinality(Rows) + 1,
                      creating[e].sequence = creating[f].sequence
               PROVE  FALSE
    BY DEF LoneNumberIsFree, NumberTaken, SameNumber, NextSequence
  <2>1. creating[f].sequence <= Cardinality(Rows)
    BY DEF JournalInv, NumberWithinCount
  <2>2. Cardinality(Rows) \in Nat
    BY FS_CardinalityType DEF JournalInv
  <2>3. QED
    BY <2>1, <2>2
<1>2. QED
  BY <1>1, JournalInvariant, PTL

(* createEntry checks each line before the row exists, and what it checked *)
(* cannot be undone by other requests: rows are well formed.               *)
THEOREM WellFormed == Spec => []RowsAreWellFormed
<1>1. JournalInv => RowsAreWellFormed
  BY DEF JournalInv, RowsAreWellFormed, CreatingInv, RowInv, Rows, NoRow
<1>2. QED
  BY <1>1, JournalInvariant, PTL

(* postEntry: what was added up when an entry was posted balanced, and is  *)
(* still part of the entry.                                                *)
THEOREM PostedBalance == Spec => []PostedWasBalanced
<1>1. JournalInv => PostedWasBalanced
  BY DEF JournalInv
<1>2. QED
  BY <1>1, JournalInvariant, PTL

(* createEntry reads the period before it writes, with other statements in *)
(* between, and does not read it for a caller that names it: closing       *)
(* admits no further request by its date, and new entries of a shut period *)
(* come from requests admitted before.                                     *)
THEOREM ClosingDrains == Spec => ClosedPeriodDrains
<1>1. JournalInv /\ [Next]_vars =>
        \A p \in Period :
          IsShut(p) /\ IsShut(p)' =>
            /\ \A e \in Admitted(p)' \ Admitted(p) :
                 PeriodFound(creating'[e].input) = None /\ creating'[e].input.named = p
            /\ RowsIn(p)' \ RowsIn(p) \subseteq Admitted(p)
  <2> SUFFICES ASSUME JournalInv, [Next]_vars, NEW p \in Period, IsShut(p), NEW e \in Entry
               PROVE  /\ e \in Admitted(p)' /\ e \notin Admitted(p) =>
                           /\ PeriodFound(creating'[e].input) = None
                           /\ creating'[e].input.named = p
                      /\ e \in RowsIn(p)' /\ e \notin RowsIn(p) => e \in Admitted(p)
    BY DEF Admitted, RowsIn, Rows
  <2>1. TypeOK /\ CallInv /\ RowInv /\ creating[e] \in Creating
    BY DEF JournalInv, TypeOK
  <2>2. ASSUME NEW in \in Input, BeginEntry(e, in)
        PROVE  /\ row'[e] = NoRow
               /\ creating'[e].period = p =>
                    PeriodFound(creating'[e].input) = None /\ creating'[e].input.named = p
    <3>1. creating'[e].period = PeriodStored(in) /\ creating'[e].input = in
      BY <2>1, <2>2 DEF BeginEntry, TypeOK, Fresh, Creating
    <3>2. PeriodFound(in) # p
      BY <2>2, NoneAssumption DEF BeginEntry, Refused, IsShut
    <3>3. PeriodStored(in) = p => PeriodFound(in) = None /\ in.named = p
      BY <3>2 DEF PeriodStored
    <3>4. QED
      BY <2>1, <2>2, <3>1, <3>3 DEF BeginEntry, RowInv
  <2>3. ASSUME CheckLine(e) \/ CountEntries(e) \/ CreateEntryFails(e)
        PROVE  /\ creating[e].step \in InFlight
               /\ creating'[e].period = creating[e].period /\ row'[e] = row[e]
    BY <2>1, <2>3 DEF CheckLine, CountEntries, CreateEntryFails, InFlight, TypeOK, Creating
  <2>4. ASSUME InsertHeader(e) \/ InsertLine(e)
        PROVE  /\ creating[e].step \in InFlight
               /\ creating'[e].period = creating[e].period
    BY <2>1, <2>4 DEF InsertHeader, InsertLine, InFlight, TypeOK, Creating
  <2>5. ASSUME creating'[e] = creating[e],
               NEW c \in Call, call[c].entry = e, PostWrites(c) \/ CancelWrites(c)
        PROVE  row[e].status # "none"
    BY <2>1, <2>5 DEF PostWrites, CancelWrites, CallInv, Rows
  <2>6. QED
    BY <2>1, <2>2, <2>3, <2>4, <2>5, CreatingChanges, RowChanges
       DEF CreateEntryStep, Admitted, RowsIn, Rows, NoRow
<1>2. QED
  BY <1>1, JournalInvariant, PTL DEF Spec, ClosedPeriodDrains

(* createAccount: from the moment an account is a parent it stays one, and *)
(* no further entry passes the leaf check on it.                           *)
THEOREM ParentsDrain == Spec => ParentAccountDrains
<1>1. JournalInv /\ [Next]_vars =>
        \A a \in Account :
          account[a] = "parent" => account'[a] = "parent" /\ Uses(a)' \subseteq Uses(a)
  <2> SUFFICES ASSUME JournalInv, [Next]_vars, NEW a \in Account, account[a] = "parent"
               PROVE  account'[a] = "parent" /\ Uses(a)' \subseteq Uses(a)
    OBVIOUS
  <2>1. TypeOK /\ CallInv /\ RowInv
    BY DEF JournalInv
  <2>2. account'[a] = "parent"
    <3>1. CASE AccountNext
      BY <2>1, <3>1 DEF AccountNext, OpenTopAccount, MarkAsParent, InsertAccount,
                        OpenAccountFails, TypeOK
    <3>2. CASE ~AccountNext
      BY <3>2 DEF Next, vars, PeriodNext, InsertPeriod, SetPeriodStatus, ClosePeriod,
                  ReopenPeriod, CreateNext, BeginEntry, CreateEntryStep, CheckLine, CountEntries,
                  InsertHeader, InsertLine, CreateEntryFails, CallNext, CallStepOf,
                  PostReadsHeader, PostReadsLines, PostWrites, CancelReads, CancelWrites,
                  CallFails
    <3>3. QED
      BY <3>1, <3>2
  <2>3. ASSUME NEW e \in Entry, NEW n \in 1..creating'[e].checked, Lines(e)'[n].account = a
        PROVE  n \in 1..creating[e].checked /\ Lines(e)[n].account = a
    <3>1. creating[e] \in Creating
      BY <2>1 DEF TypeOK
    <3>2. CASE CheckLine(e)
      <4>1. Lines(e)' = Lines(e)
        BY <2>1, <3>1, <3>2 DEF CheckLine, TypeOK, Creating, Lines
      <4>2. \/ creating'[e].checked = creating[e].checked
            \/ /\ creating'[e].checked = creating[e].checked + 1
               /\ Lines(e)[creating[e].checked + 1].account # a
        BY <2>1, <3>1, <3>2 DEF CheckLine, TypeOK, Creating
      <4>3. QED
        BY <2>3, <3>1, <4>1, <4>2 DEF Creating
    <3>3. CASE CountEntries(e) \/ InsertLine(e) \/ CreateEntryFails(e)
      <4>1. Lines(e)' = Lines(e) /\ creating'[e].checked = creating[e].checked
        <5>1. CASE CountEntries(e)
          BY <2>1, <3>1, <5>1 DEF CountEntries, TypeOK, Creating, Lines
        <5>2. CASE InsertLine(e)
          BY <2>1, <3>1, <5>2 DEF InsertLine, TypeOK, Creating, Lines
        <5>3. CASE CreateEntryFails(e)
          BY <2>1, <3>1, <5>3 DEF CreateEntryFails, TypeOK, Creating, Lines
        <5>4. QED
          BY <3>3, <5>1, <5>2, <5>3
      <4>2. QED
        BY <2>3, <4>1
    <3>4. CASE InsertHeader(e)
      BY <2>1, <2>3, <3>1, <3>4 DEF InsertHeader, TypeOK, Creating, Lines
    <3>5. CASE \E in \in Input : BeginEntry(e, in)
      BY <2>1, <2>3, <3>1, <3>5 DEF BeginEntry, TypeOK, Fresh
    <3>6. QED
      BY <2>1, <2>3, <3>2, <3>3, <3>4, <3>5, CreatingChanges DEF CreateEntryStep, Lines
  <2>4. QED
    BY <2>2, <2>3 DEF Uses
<1>2. QED
  BY <1>1, JournalInvariant, PTL DEF Spec, ParentAccountDrains

-----------------------------------------------------------------------------
(* What a call saw when it read the status of its entry is still so when   *)
(* it writes: true of calls that come one at a time.                       *)
HeldInv ==
  \A c \in Call :
    /\ call[c].at \in {"lines", "post"} => row[call[c].entry].status = "draft"
    /\ call[c].at = "cancel" => row[call[c].entry].status \in {"draft", "cancelled"}

LEMMA HeldPreserved ==
  ASSUME \A c, d \in Call : c = d, JournalInv, HeldInv, [Next]_vars
  PROVE  HeldInv'
<1> SUFFICES ASSUME NEW c \in Call, call'[c].at # "idle"
             PROVE  /\ call'[c].at \in {"lines", "post"} => row'[call'[c].entry].status = "draft"
                    /\ call'[c].at = "cancel" =>
                         row'[call'[c].entry].status \in {"draft", "cancelled"}
  BY DEF HeldInv
<1>1. TypeOK /\ CallInv /\ RowInv
  BY DEF JournalInv
<1>2. ASSUME NEW e \in Entry, PostReadsHeader(c, e) \/ CancelReads(c, e)
      PROVE  /\ call'[c].entry = e /\ row' = row
             /\ \/ call'[c].at = "lines" /\ row[e].status = "draft"
                \/ call'[c].at = "cancel" /\ row[e].status \in {"draft", "cancelled"}
  BY <1>1, <1>2 DEF PostReadsHeader, CancelReads, TypeOK
<1>3. CASE PostReadsLines(c)
  BY <1>1, <1>3 DEF PostReadsLines, TypeOK, HeldInv, Idle
<1>4. CASE call'[c] = call[c]
  <2>1. call[c].entry \in Entry /\ row[call[c].entry].status # "none"
    BY <1>1, <1>4 DEF CallInv, Rows
  <2>2. row'[call[c].entry].status = row[call[c].entry].status
    <3>1. ~InsertHeader(call[c].entry)
      BY <1>1, <2>1 DEF InsertHeader, RowInv, NoRow
    <3>2. InsertLine(call[c].entry) => row'[call[c].entry].status = row[call[c].entry].status
      BY <1>1, <2>1 DEF InsertLine, TypeOK, Row
    <3>3. ASSUME NEW d \in Call, PostWrites(d) \/ CancelWrites(d)
          PROVE  FALSE
      BY <1>1, <1>4, <3>3 DEF PostWrites, CancelWrites, TypeOK, Idle
    <3>4. QED
      BY <1>1, <2>1, <3>1, <3>2, <3>3, RowChanges
  <2>3. QED
    BY <1>4, <2>2 DEF HeldInv
<1>5. QED
  BY <1>1, <1>2, <1>3, <1>4, CallChanges DEF Idle

(* postEntry and cancelEntry refuse what is settled by a status they read   *)
(* earlier.  As long as no two such calls overlap that is enough: a posted  *)
(* entry stays posted, and a cancelled one stays cancelled, whatever        *)
(* createEntry and the period and account screens do meanwhile.             *)
THEOREM SettledStays ==
  ASSUME \A c, d \in Call : c = d
  PROVE  Spec => SettledIsFinal
<1>1. Init => HeldInv
  BY DEF Init, HeldInv, Idle
<1>2. JournalInv /\ HeldInv /\ [Next]_vars => HeldInv'
  BY HeldPreserved
<1>3. JournalInv /\ HeldInv /\ [Next]_vars =>
        \A e \in Entry :
          row[e].status \in {"posted", "cancelled"} => row'[e].status = row[e].status
  <2> SUFFICES ASSUME JournalInv, HeldInv, [Next]_vars, NEW e \in Entry,
                      row[e].status \in {"posted", "cancelled"}
               PROVE  row'[e].status = row[e].status
    OBVIOUS
  <2>1. TypeOK /\ CallInv /\ RowInv
    BY DEF JournalInv
  <2>2. ~InsertHeader(e)
    BY <2>1 DEF InsertHeader, RowInv, NoRow
  <2>3. InsertLine(e) => row'[e].status = row[e].status
    BY <2>1 DEF InsertLine, TypeOK, Row
  <2>4. ASSUME NEW c \in Call, call[c].entry = e, PostWrites(c)
        PROVE  FALSE
    BY <2>4 DEF PostWrites, HeldInv
  <2>5. ASSUME NEW c \in Call, call[c].entry = e, CancelWrites(c)
        PROVE  row'[e].status = row[e].status
    BY <2>1, <2>5 DEF CancelWrites, HeldInv, TypeOK, Row
  <2>6. QED
    BY <2>1, <2>2, <2>3, <2>4, <2>5, RowChanges
<1>4. QED
  BY <1>1, <1>2, <1>3, JournalInvariant, PTL DEF Spec, SettledIsFinal

=============================================================================
