-------------------------- MODULE BackOfficeProofs --------------------------
(***************************************************************************)
(* What the offices keep for any clerks and any sizes of what they work    *)
(* on.  Each office has an inductive invariant of its own, which says what *)
(* a request knows at each of its steps; a step of BackOffice is one of    *)
(* the office's, or leaves its variables and the desk alone.               *)
(***************************************************************************)
EXTENDS BackOffice, Sums

-----------------------------------------------------------------------------
(* Payroll *)

(* With requests in turn, what is pending was summed by the run that will  *)
(* mark it.                                                                *)
PayrollInv ==
  /\ PayrollTypeOK
  /\ \A k \in Clerk : payroll[k] # NotPaying => k \in desk
  /\ InTurn =>
       /\ \A c \in Commission : commission[c] = "paid" => \E p \in payslips : c \in p.sum
       /\ \A k \in Clerk : payroll[k].at = "insert" =>
            \A c \in Commission : commission[c] = "pending" => c \in payroll[k].sum
       /\ \A k \in Clerk : payroll[k].at = "mark" =>
            \A c \in Commission : commission[c] = "pending" => \E p \in payslips : c \in p.sum

(* A step of payroll keeps its invariant (generatePayroll, hr.service.ts). *)
LEMMA PayrollStep ==
  ASSUME PayrollInv, PayrollNext, UNCHANGED desk
  PROVE  PayrollInv'
<1> USE DEF PayrollInv, PayrollTypeOK, NotPaying
<1>1. PICK k \in Clerk :
         \/ \E c \in Commission : earnCommission(k, c)
         \/ \E m \in Month : generatePayroll(k, m)
         \/ listPendingCommissionsForPeriod(k)
         \/ insertPayrollEntry(k)
         \/ markCommissionsPaid(k)
         \/ PayrollDies(k)
  BY DEF PayrollNext
<1>2. InTurn' = InTurn
  BY DEF InTurn
<1>3. InTurn => \A j \in Clerk : payroll[j] # NotPaying /\ k \in desk => j = k
  BY DEF InTurn
<1>4. ASSUME NEW c \in Commission, earnCommission(k, c) PROVE PayrollInv'
  BY <1>2, <1>3, <1>4 DEF earnCommission
<1>5. ASSUME NEW m \in Month, generatePayroll(k, m) PROVE PayrollInv'
  BY <1>2, <1>3, <1>5 DEF generatePayroll
<1>6. CASE listPendingCommissionsForPeriod(k)
  <2> USE <1>6 DEF listPendingCommissionsForPeriod
  <2>1. payroll[k] \in [at : {"list", "insert", "mark"}, month : Month, sum : SUBSET Commission]
    OBVIOUS
  <2>2. /\ payroll'[k].at = "insert"
        /\ payroll'[k].month = payroll[k].month
        /\ payroll'[k].sum = {c \in Commission : commission[c] = "pending"}
        /\ payroll'[k] \in [at : {"list", "insert", "mark"}, month : Month, sum : SUBSET Commission]
    BY <2>1
  <2>3. \A j \in Clerk : j # k => payroll'[j] = payroll[j]
    OBVIOUS
  <2>4. PayrollTypeOK'
    BY <2>2, <2>3
  <2>11. payroll[k] # NotPaying /\ k \in desk /\ k \in desk'
    OBVIOUS
  <2>5. \A j \in Clerk : payroll'[j] # NotPaying => j \in desk'
    BY <2>3, <2>11
  <2>6. InTurn => \A j \in Clerk : j # k => payroll[j] = NotPaying /\ payroll'[j] = NotPaying
    BY <1>3, <2>3, <2>11
  <2>7. InTurn =>
          \A j \in Clerk : payroll'[j].at = "insert" =>
            \A c \in Commission : commission'[c] = "pending" => c \in payroll'[j].sum
    BY <2>2, <2>6
  <2>8. InTurn => \A j \in Clerk : payroll'[j].at # "mark"
    <3>1. payroll'[k].at # "mark" /\ NotPaying.at # "mark"
      BY <2>2
    <3>2. QED
      BY <2>6, <3>1
  <2>9. UNCHANGED <<commission, payslips>>
    OBVIOUS
  <2>10. QED
    BY <1>2, <2>4, <2>5, <2>7, <2>8, <2>9
<1>7. CASE insertPayrollEntry(k)
  <2> USE <1>7 DEF insertPayrollEntry
  <2>1. payroll[k] \in [at : {"list", "insert", "mark"}, month : Month, sum : SUBSET Commission]
    OBVIOUS
  <2>2. CASE PayslipOf(payroll[k].month) # {}
    BY <1>2, <1>3, <2>2
  <2>3. CASE PayslipOf(payroll[k].month) = {}
    <3> DEFINE slip == [month |-> payroll[k].month, sum |-> payroll[k].sum]
    <3>1. /\ slip \in [month : Month, sum : SUBSET Commission]
          /\ slip.sum = payroll[k].sum
      BY <2>1
    <3>4. payslips' = payslips \cup {slip}
      BY <2>3
    <3> HIDE DEF slip
    <3>5. payslips' \subseteq [month : Month, sum : SUBSET Commission]
      BY <3>1, <3>4
    <3>6. \A j \in Clerk : j # k => payroll'[j] = payroll[j]
      BY <2>3
    <3>7. InTurn => \A j \in Clerk : j # k => payroll[j] = NotPaying
      BY <1>3, <2>1
    <3>8. InTurn => \A c \in Commission : commission[c] = "pending" => c \in payroll[k].sum
      OBVIOUS
    <3>9. InTurn => \A c \in Commission : commission[c] = "paid" => \E p \in payslips' : c \in p.sum
      BY <3>4
    <3>10. UNCHANGED commission
      OBVIOUS
    <3>2. CASE payroll[k].sum = {}
      <4>1. payroll'[k] = NotPaying
        BY <2>3, <3>2
      <4>2. PayrollTypeOK'
        BY <3>5, <3>6, <3>10, <4>1, <2>3, <3>2
      <4>3. QED
        BY <1>2, <3>6, <3>7, <3>9, <3>10, <4>1, <4>2
    <3>3. CASE payroll[k].sum # {}
      <4>1. /\ payroll'[k] \in [at : {"list", "insert", "mark"}, month : Month,
                                sum : SUBSET Commission]
            /\ payroll'[k].at = "mark"
        BY <2>1, <2>3, <3>3
      <4>2. PayrollTypeOK'
        BY <3>5, <3>6, <3>10, <4>1, <2>3, <3>3
      <4>3. InTurn => \A c \in Commission : commission[c] = "pending" => \E p \in payslips' : c \in p.sum
        BY <3>1, <3>4, <3>8
      <4>4. QED
        BY <1>2, <2>1, <3>6, <3>7, <3>9, <3>10, <4>1, <4>2, <4>3
    <3>11. QED
      BY <3>2, <3>3
  <2>4. QED
    BY <2>2, <2>3
<1>8. CASE markCommissionsPaid(k)
  BY <1>2, <1>3, <1>8 DEF markCommissionsPaid
<1>9. CASE PayrollDies(k)
  BY <1>2, <1>3, <1>9 DEF PayrollDies
<1>10. QED
  BY <1>1, <1>4, <1>5, <1>6, <1>7, <1>8, <1>9

(* The invariant of the payroll office holds. *)
LEMMA PayrollAlways == Spec => []PayrollInv
<1>1. Init => PayrollInv
  BY DEF Init, PayrollInit, PayrollInv, PayrollTypeOK, NotPaying
<1>2. PayrollInv /\ [Next]_vars => PayrollInv'
  <2> SUFFICES ASSUME PayrollInv, [Next]_vars PROVE PayrollInv'
    OBVIOUS
  <2>1. CASE PayrollNext /\ UNCHANGED desk
    BY <2>1, PayrollStep
  <2>2. CASE UNCHANGED <<payrollVars, desk>>
    BY <2>2 DEF payrollVars, PayrollInv, PayrollTypeOK, InTurn
  <2>3. QED
    BY <2>1, <2>2 DEF Next, vars
<1>3. QED
  BY <1>1, <1>2, PTL DEF Spec

(* A commission marked as paid is on a payslip, when requests come in turn *)
(* (hr.service.ts:77-78).                                                  *)
THEOREM PaidOnPayslip == Spec => []PaidIsOnAPayslip
<1>1. PayrollInv => PaidIsOnAPayslip
  BY DEF PayrollInv, PaidIsOnAPayslip
<1>2. QED
  BY <1>1, PayrollAlways, PTL

-----------------------------------------------------------------------------
(* Tranches *)

Tranche == [fund : Fund, amount : 1..Total, used : 0..Total]

(* With requests in turn, what a request is about to write is still the    *)
(* sum of what there is and what it pays.                                  *)
TranchesInv ==
  /\ TranchesTypeOK
  /\ \A k \in Clerk : tranche[k] # NoTranche => k \in desk
  /\ InTurn =>
       /\ paidOut = fund["retention"].used
       /\ fund["retention"].spent <=> fund["retention"].used = Total
       /\ \A k \in Clerk : tranche[k].fund = "retention" =>
            tranche[k].used = fund["retention"].used + tranche[k].amount

(* A request reads the sum, and computes the sum it will write. *)
LEMMA TranchesRead ==
  ASSUME TranchesInv, UNCHANGED desk, NEW k \in Clerk, NEW amount \in 1..Total,
         releaseRetention(k, amount) \/ amortizeMonth(k, amount) \/ utilizeProvision(k, amount)
  PROVE  TranchesInv'
<1> USE TranchesAssumption DEF TranchesInv, TranchesTypeOK, NoTranche
<1>1. PICK f \in Fund, u \in 0..Total :
         /\ Reads(k, f, amount, u)
         /\ f = "retention" => u = fund["retention"].used + amount
  BY DEF releaseRetention, amortizeMonth, utilizeProvision, AtMost, Fund
<1>2. UNCHANGED <<fund, paidOut, desk, InTurn>>
  BY <1>1 DEF Reads, InTurn
<1>3. /\ tranche'[k] = [fund |-> f, amount |-> amount, used |-> u]
      /\ \A j \in Clerk : j # k => tranche'[j] = tranche[j]
      /\ tranche' \in [Clerk -> {NoTranche} \cup Tranche]
      /\ k \in desk
  BY <1>1 DEF Reads, Tranche
<1>4. QED
  BY <1>1, <1>2, <1>3 DEF Tranche

(* The UPDATE pays what its request read the sum for. *)
LEMMA TranchesWrite ==
  ASSUME TranchesInv, UNCHANGED desk, NEW k \in Clerk, Writes(k)
  PROVE  TranchesInv'
<1> USE TranchesAssumption DEF TranchesInv, TranchesTypeOK
<1> DEFINE t == tranche[k]
<1>1. /\ t \in Tranche
      /\ k \in desk
      /\ fund' = [fund EXCEPT ![t.fund] = [used |-> t.used, spent |-> t.used = Total]]
      /\ paidOut' = IF t.fund = "retention" THEN AtMost(paidOut + t.amount, Total + 1)
                                            ELSE paidOut
      /\ tranche' = [tranche EXCEPT ![k] = NoTranche]
  BY DEF Writes, Tranche
<1>2. InTurn' = InTurn
  BY DEF InTurn
<1>3. InTurn => \A j \in Clerk : j # k => tranche[j] = NoTranche
  BY <1>1 DEF InTurn
<1>4. \A j \in Clerk : tranche'[j] = NoTranche \/ tranche'[j] = tranche[j]
  BY <1>1
<1>5. InTurn => \A j \in Clerk : tranche'[j] = NoTranche
  BY <1>1, <1>3
<1>6. TranchesTypeOK'
  BY <1>1, <1>4 DEF Tranche, AtMost, NoTranche, Fund
<1>7. ASSUME InTurn
      PROVE  /\ paidOut' = fund'["retention"].used
             /\ fund'["retention"].spent <=> fund'["retention"].used = Total
  <2>1. fund'["retention"] = IF t.fund = "retention"
                             THEN [used |-> t.used, spent |-> t.used = Total]
                             ELSE fund["retention"]
    BY <1>1 DEF Tranche, Fund
  <2>2. CASE t.fund = "retention"
    <3> DEFINE all == (t.used = Total)
    <3>5. fund'["retention"] = [used |-> t.used, spent |-> all]
      BY <2>1, <2>2
    <3>6. all \in BOOLEAN
      OBVIOUS
    <3> HIDE DEF all
    <3>7. fund'["retention"].used = t.used /\ fund'["retention"].spent = all
      BY <3>5
    <3>1. fund'["retention"].used = t.used /\ (fund'["retention"].spent <=> t.used = Total)
      BY <3>6, <3>7, Zenon DEF all
    <3>2. /\ t.used = fund["retention"].used + t.amount
          /\ paidOut = fund["retention"].used
          /\ t.used \in 0..Total
      BY <1>1, <1>7, <2>2 DEF Tranche
    <3>3. paidOut' = t.used
      BY <1>1, <2>2, <3>2 DEF AtMost, Tranche
    <3>4. QED
      BY <3>1, <3>3
  <2>3. CASE t.fund # "retention"
    BY <1>1, <1>7, <2>1, <2>3
  <2>4. QED
    BY <2>2, <2>3
<1>8. \A j \in Clerk : tranche'[j] # NoTranche => j \in desk'
  BY <1>4
<1>9. NoTranche.fund # "retention"
  BY DEF NoTranche
<1>10. QED
  BY <1>2, <1>5, <1>6, <1>7, <1>8, <1>9

(* A step of a release keeps the invariant (finance.service.ts:124-142). *)
LEMMA TranchesStep ==
  ASSUME TranchesInv, TranchesNext, UNCHANGED desk
  PROVE  TranchesInv'
<1>1. PICK k \in Clerk :
         \/ \E amount \in 1..Total : releaseRetention(k, amount) \/ amortizeMonth(k, amount)
                                    \/ utilizeProvision(k, amount)
         \/ Writes(k)
         \/ TrancheDies(k)
  BY DEF TranchesNext
<1>2. CASE TrancheDies(k)
  BY <1>2 DEF TrancheDies, TranchesInv, TranchesTypeOK, NoTranche, InTurn
<1>3. QED
  BY <1>1, <1>2, TranchesRead, TranchesWrite

(* The invariant of the tranches office holds. *)
LEMMA TranchesAlways == Spec => []TranchesInv
<1>1. Init => TranchesInv
  <2> SUFFICES ASSUME TranchesInit PROVE TranchesInv
    BY DEF Init
  <2>1. fund["retention"] = [used |-> 0, spent |-> FALSE] /\ TranchesTypeOK
    BY TranchesAssumption DEF TranchesInit, TranchesTypeOK, Fund
  <2>2. \A k \in Clerk : tranche[k] = NoTranche /\ tranche[k].fund # "retention"
    BY DEF TranchesInit, NoTranche
  <2>3. QED
    BY <2>1, <2>2, TranchesAssumption DEF TranchesInit, TranchesInv
<1>2. TranchesInv /\ [Next]_vars => TranchesInv'
  <2> SUFFICES ASSUME TranchesInv, [Next]_vars PROVE TranchesInv'
    OBVIOUS
  <2>1. CASE TranchesNext /\ UNCHANGED desk
    BY <2>1, TranchesStep
  <2>2. CASE UNCHANGED <<trancheVars, desk>>
    BY <2>2 DEF trancheVars, TranchesInv, TranchesTypeOK, InTurn
  <2>3. QED
    BY <2>1, <2>2 DEF Next, vars
<1>3. QED
  BY <1>1, <1>2, PTL DEF Spec

(* Releases in turn never pay out more than was withheld, for any amount   *)
(* (finance.service.ts:124-142).                                           *)
THEOREM PaidWithinWithheld == Spec => []NeverMoreThanWithheld
<1>1. TranchesInv => NeverMoreThanWithheld
  BY TranchesAssumption DEF TranchesInv, TranchesTypeOK, NeverMoreThanWithheld, Fund
<1>2. QED
  BY <1>1, TranchesAlways, PTL

-----------------------------------------------------------------------------
(* Default bills of materials *)

BomRow == [version : 1..MaxVersion, isDefault : BOOLEAN, whole : BOOLEAN]
Draft == [at : {"version", "clear", "insert", "lines"}, version : 1..MaxVersion,
          isDefault : BOOLEAN]

(* The versions below the one a request looks at, or has found, are taken, *)
(* so that requests that may still insert have found the same one; and     *)
(* when a default is about to be inserted no other is there.               *)
DefaultBomInv ==
  /\ DefaultBomTypeOK
  /\ OnlyOneDefault
  /\ \A k \in Clerk : drafting[k].at \in {"version", "clear", "insert"} =>
       \A v \in 1..MaxVersion : v < drafting[k].version => Rows(v) # {}
  /\ \A k \in Clerk :
       (/\ drafting[k].at = "insert" /\ drafting[k].isDefault
        /\ Rows(drafting[k].version) = {}) => \A b \in bom : ~ b.isDefault

(* A request under way is at a step, for a version in the bound. *)
LEMMA DraftsKept ==
  ASSUME DefaultBomInv, NEW k \in Clerk, drafting[k] # NotDrafting
  PROVE  drafting[k] \in Draft
BY DEF DefaultBomInv, DefaultBomTypeOK, Draft

(* A request begins; nothing is stored yet (technical.service.ts:23). *)
LEMMA BomCreates ==
  ASSUME DefaultBomInv, NEW k \in Clerk, NEW d \in BOOLEAN, createBom(k, d)
  PROVE  DefaultBomInv'
<1> USE DefaultBomAssumption DEF createBom, DefaultBomInv
<1>1. /\ bom' = bom
      /\ \A v : Rows(v)' = Rows(v)
      /\ \A j \in Clerk : j # k => drafting'[j] = drafting[j]
      /\ drafting'[k] = [at |-> "version", version |-> 1, isDefault |-> d]
      /\ drafting' \in [Clerk -> {NotDrafting} \cup Draft]
  BY DEF DefaultBomTypeOK, Draft, Rows
<1>2. DefaultBomTypeOK' /\ OnlyOneDefault'
  BY <1>1 DEF DefaultBomTypeOK, Draft, OnlyOneDefault
<1>3. QED
  BY <1>1, <1>2

(* The version number is looked for, one by one (technical.service.ts:30). *)
LEMMA BomFinds ==
  ASSUME DefaultBomInv, NEW k \in Clerk, findBomByItemAndVersion(k)
  PROVE  DefaultBomInv'
<1> USE DefaultBomAssumption DEF findBomByItemAndVersion, DefaultBomInv
<1>1. drafting[k] \in Draft
  BY DraftsKept DEF NotDrafting
<1>2. /\ bom' = bom
      /\ \A v : Rows(v)' = Rows(v)
      /\ \A j \in Clerk : j # k => drafting'[j] = drafting[j]
  BY DEF DefaultBomTypeOK, Rows
<1>3. OnlyOneDefault'
  BY <1>2 DEF OnlyOneDefault
<1>4. CASE Rows(drafting[k].version) # {}
  <2>1. /\ drafting'[k] \in Draft /\ drafting'[k].at = "version"
        /\ drafting'[k].version = drafting[k].version + 1
    BY <1>1, <1>4 DEF Draft, DefaultBomTypeOK
  <2>2. DefaultBomTypeOK'
    BY <1>2, <1>4, <2>1 DEF DefaultBomTypeOK, Draft
  <2>3. \A v \in 1..MaxVersion : v < drafting'[k].version =>
           v < drafting[k].version \/ v = drafting[k].version
    BY <1>1, <2>1 DEF Draft
  <2>4. QED
    BY <1>2, <1>3, <1>4, <2>1, <2>2, <2>3
<1>5. CASE Rows(drafting[k].version) = {}
  <2>1. /\ drafting'[k] \in Draft
        /\ drafting'[k].at = IF drafting[k].isDefault THEN "clear" ELSE "insert"
        /\ drafting'[k].version = drafting[k].version
        /\ drafting'[k].isDefault = drafting[k].isDefault
    BY <1>1, <1>5 DEF Draft, DefaultBomTypeOK
  <2>2. DefaultBomTypeOK'
    BY <1>2, <1>5, <2>1 DEF DefaultBomTypeOK, Draft
  <2>3. QED
    BY <1>2, <1>3, <2>1, <2>2
<1>6. QED
  BY <1>4, <1>5

(* The product's default is cleared before another is inserted. *)
LEMMA BomClears ==
  ASSUME DefaultBomInv, NEW k \in Clerk, clearDefaultForItem(k)
  PROVE  DefaultBomInv'
<1> USE DEF clearDefaultForItem, DefaultBomInv
<1>1. drafting[k] \in Draft
  BY DraftsKept DEF NotDrafting
<1> DEFINE plain(b) == [b EXCEPT !.isDefault = FALSE]
<1>7. \A b \in BomRow : /\ plain(b) \in BomRow /\ plain(b).version = b.version
                        /\ plain(b).isDefault = FALSE
  BY DEF BomRow
<1>8. bom \subseteq BomRow /\ bom' = {plain(b) : b \in bom}
  BY DEF DefaultBomTypeOK, BomRow
<1> HIDE DEF plain
<1>2. /\ bom' \subseteq BomRow
      /\ \A b \in bom' : ~ b.isDefault
  BY <1>7, <1>8
<1>3. \A v : Rows(v) # {} => Rows(v)' # {}
  BY <1>7, <1>8 DEF Rows
<1>4. /\ drafting'[k] \in Draft /\ drafting'[k].at = "insert"
      /\ drafting'[k].version = drafting[k].version
      /\ \A j \in Clerk : j # k => drafting'[j] = drafting[j]
  BY <1>1 DEF Draft, DefaultBomTypeOK
<1>5. DefaultBomTypeOK' /\ OnlyOneDefault'
  BY <1>2, <1>4 DEF DefaultBomTypeOK, Draft, BomRow, OnlyOneDefault
<1>6. QED
  BY <1>2, <1>3, <1>4, <1>5

(* The row is inserted, or its version is taken by now. *)
LEMMA BomInserts ==
  ASSUME DefaultBomInv, NEW k \in Clerk, insertBom(k)
  PROVE  DefaultBomInv'
<1> USE DefaultBomAssumption DEF insertBom, DefaultBomInv
<1>1. drafting[k] \in Draft
  BY DraftsKept DEF NotDrafting
<1>2. CASE Rows(drafting[k].version) # {}
  BY <1>2 DEF BomEnds, DefaultBomTypeOK, OnlyOneDefault, Rows, NotDrafting
<1>3. CASE Rows(drafting[k].version) = {}
  <2> DEFINE row == [version |-> drafting[k].version, isDefault |-> drafting[k].isDefault,
                     whole |-> FALSE]
  <2>1. /\ row \in BomRow /\ row.version = drafting[k].version
        /\ row.isDefault = drafting[k].isDefault
    BY <1>1 DEF Draft, BomRow
  <2>2. bom' = bom \cup {row}
    BY <1>3
  <2>3. /\ drafting'[k] \in Draft /\ drafting'[k].at = "lines"
        /\ \A j \in Clerk : j # k => drafting'[j] = drafting[j]
    BY <1>1, <1>3 DEF Draft, DefaultBomTypeOK
  <2> HIDE DEF row
  <2>4. DefaultBomTypeOK'
    BY <1>3, <2>1, <2>2, <2>3 DEF DefaultBomTypeOK, Draft, BomRow
  <2>5. OnlyOneDefault'
    BY <1>3, <2>1, <2>2 DEF OnlyOneDefault
  <2>6. \A v : Rows(v) # {} => Rows(v)' # {}
    BY <2>2 DEF Rows
  <2>7. ASSUME NEW j \in Clerk, drafting'[j].at = "insert", drafting'[j].isDefault
        PROVE  \E b \in bom' : b.version = drafting'[j].version
    <3>1. j # k /\ drafting'[j] = drafting[j] /\ drafting[j] \in Draft
      BY <2>3, <2>7, DraftsKept DEF NotDrafting
    <3>2. CASE drafting[j].version < drafting[k].version
      BY <1>1, <2>2, <3>1, <3>2 DEF Draft, Rows
    <3>3. CASE drafting[j].version = drafting[k].version
      BY <2>1, <2>2, <3>1, <3>3
    <3>4. ~ (drafting[k].version < drafting[j].version)
      BY <1>1, <1>3, <2>7, <3>1 DEF Draft
    <3>5. QED
      BY <1>1, <3>1, <3>2, <3>3, <3>4 DEF Draft
  <2>8. \A j \in Clerk : drafting'[j].at \in {"version", "clear", "insert"} =>
          \A v \in 1..MaxVersion : v < drafting'[j].version => Rows(v)' # {}
    BY <2>3, <2>6
  <2>9. QED
    BY <2>4, <2>5, <2>7, <2>8 DEF Rows
<1>4. QED
  BY <1>2, <1>3

(* The lines follow: a row is whole, and its flag stays as it is. *)
LEMMA BomLines ==
  ASSUME DefaultBomInv, NEW k \in Clerk, InsertsBomLines(k)
  PROVE  DefaultBomInv'
<1> USE DEF InsertsBomLines, BomEnds, DefaultBomInv
<1> DEFINE done(b) == IF b.version = drafting[k].version THEN [b EXCEPT !.whole = TRUE] ELSE b
<1>1. \A b \in BomRow : /\ done(b) \in BomRow /\ done(b).version = b.version
                        /\ done(b).isDefault = b.isDefault
  BY DEF BomRow
<1>2. bom \subseteq BomRow /\ bom' = {done(b) : b \in bom}
  BY DEF DefaultBomTypeOK, BomRow
<1> HIDE DEF done
<1>3. \A j \in Clerk : drafting'[j] = NotDrafting \/ drafting'[j] = drafting[j]
  BY DEF DefaultBomTypeOK
<1>4. bom' \subseteq BomRow
  BY <1>1, <1>2
<1>5. DefaultBomTypeOK'
  BY <1>3, <1>4 DEF DefaultBomTypeOK, BomRow
<1>6. OnlyOneDefault'
  BY <1>1, <1>2 DEF OnlyOneDefault
<1>7. \A v : Rows(v)' = {} <=> Rows(v) = {}
  BY <1>1, <1>2 DEF Rows
<1>8. (\A b \in bom : ~ b.isDefault) => \A b \in bom' : ~ b.isDefault
  BY <1>1, <1>2
<1>9. NotDrafting.at \notin {"version", "clear", "insert"}
  BY DEF NotDrafting
<1>10. QED
  BY <1>3, <1>5, <1>6, <1>7, <1>8, <1>9

(* The invariant of the default bills office holds. *)
LEMMA DefaultBomAlways == Spec => []DefaultBomInv
<1>1. Init => DefaultBomInv
  <2> SUFFICES ASSUME DefaultBomInit PROVE DefaultBomInv
    BY DEF Init
  <2>1. bom = {} /\ \A k \in Clerk : drafting[k] = NotDrafting /\ drafting[k].at = "idle"
    BY DEF DefaultBomInit, NotDrafting
  <2>2. DefaultBomTypeOK
    BY DEF DefaultBomInit, DefaultBomTypeOK
  <2>3. QED
    BY <2>1, <2>2 DEF DefaultBomInv, OnlyOneDefault
<1>2. DefaultBomInv /\ [Next]_vars => DefaultBomInv'
  <2> SUFFICES ASSUME DefaultBomInv, [Next]_vars PROVE DefaultBomInv'
    OBVIOUS
  <2>1. CASE DefaultBomNext
    <3>1. PICK k \in Clerk : \/ \E d \in BOOLEAN : createBom(k, d)
                            \/ findBomByItemAndVersion(k) \/ clearDefaultForItem(k)
                            \/ insertBom(k) \/ InsertsBomLines(k) \/ BomDies(k)
      BY <2>1 DEF DefaultBomNext
    <3>2. CASE BomDies(k)
      BY <3>2 DEF BomDies, BomEnds, DefaultBomInv, DefaultBomTypeOK, OnlyOneDefault, NotDrafting,
                  Rows
    <3>3. QED
      BY <3>1, <3>2, BomCreates, BomFinds, BomClears, BomInserts, BomLines
  <2>2. CASE UNCHANGED bomVars
    BY <2>2 DEF bomVars, DefaultBomInv, DefaultBomTypeOK, OnlyOneDefault, Rows
  <2>3. QED
    BY <2>1, <2>2 DEF Next, vars
<1>3. QED
  BY <1>1, <1>2, PTL DEF Spec

(* Only one bill of materials of a product is the default, in any order of *)
(* any requests and whatever dies (technical.service.ts:36-39).            *)
THEOREM OneDefault == Spec => []OnlyOneDefault
<1>1. DefaultBomInv => OnlyOneDefault
  BY DEF DefaultBomInv
<1>2. QED
  BY <1>1, DefaultBomAlways, PTL

-----------------------------------------------------------------------------
(* Depreciation *)

Depreciating == [at : {"exhausted", "create", "post", "insert", "update"},
                 month : AssetMonth, read : 0..Life]

(* What a request read, it may record one unit more of once its month is   *)
(* posted; and the key keeps two requests from posting one entry.          *)
DepreciationInv ==
  /\ DepreciationTypeOK
  /\ DepreciationIsPosted
  /\ \A k \in Clerk :
       LET d == depreciating[k] IN
       /\ d # NotDepreciating => d.read <= Cardinality(Posted)
       /\ d.at \in {"create", "post", "insert", "update"} => d.read < asset.cost
       /\ d.at \in {"insert", "update"} =>
            d.month \in Posted /\ d.read + 1 <= Cardinality(Posted)
       /\ d.at = "post" =>
            /\ monthEntry[d.month] = "draft"
            /\ \A j \in Clerk : depreciating[j].at = "post" /\ depreciating[j].month = d.month
                              => j = k

(* The months are finitely many, so that posting one more counts. *)
LEMMA PostedCounts ==
  ASSUME NEW S, S \subseteq AssetMonth
  PROVE  /\ Cardinality(S) \in Nat
         /\ \A m \in AssetMonth \ S : Cardinality(S \cup {m}) = Cardinality(S) + 1
<1>1. IsFiniteSet(S)
  BY DepreciationAssumption, FS_Subset
<1>2. QED
  BY <1>1, FS_CardinalityType, FS_AddElement

(* A step that writes no row keeps all, if its request has not created     *)
(* its entry.                                                              *)
LEMMA DepreciationGoesOn ==
  ASSUME DepreciationInv, NEW k \in Clerk, depreciating' \in [Clerk -> {NotDepreciating} \cup Depreciating],
         UNCHANGED <<asset, monthEntry, depreciations>>,
         \A j \in Clerk : j # k => depreciating'[j] = depreciating[j],
         LET d == depreciating'[k] IN
         /\ d # NotDepreciating => d.read <= Cardinality(Posted)
         /\ d.at \in {"create", "post", "insert", "update"} => d.read < asset.cost
         /\ d.at \notin {"post", "insert", "update"}
  PROVE  DepreciationInv'
<1> USE DEF DepreciationInv
<1>1. Posted' = Posted
  BY DEF Posted
<1>2. DepreciationTypeOK' /\ DepreciationIsPosted'
  BY <1>1 DEF DepreciationTypeOK, DepreciationIsPosted, Depreciating
<1>3. QED
  BY <1>1, <1>2

(* A request finds the asset active and reads what it needs. *)
LEMMA DepreciationBegins ==
  ASSUME DepreciationInv, NEW k \in Clerk, NEW m \in AssetMonth, postAssetDepreciation(k, m)
  PROVE  DepreciationInv'
<1> DEFINE d == [at |-> IF asset.total >= asset.cost THEN "exhausted" ELSE "create",
                 month |-> m, read |-> asset.total]
<1>1. /\ asset.total \in 0..Life /\ asset.cost \in Nat
      /\ asset.total <= Cardinality(Posted)
  BY DepreciationAssumption DEF DepreciationInv, DepreciationTypeOK, DepreciationIsPosted
<1>2. /\ d \in Depreciating /\ d.read = asset.total
      /\ d.at = IF asset.total >= asset.cost THEN "exhausted" ELSE "create"
  BY <1>1 DEF Depreciating
<1>3. depreciating' = [depreciating EXCEPT ![k] = d]
  BY DEF postAssetDepreciation
<1> HIDE DEF d
<1>4. /\ depreciating' \in [Clerk -> {NotDepreciating} \cup Depreciating]
      /\ \A j \in Clerk : j # k => depreciating'[j] = depreciating[j]
      /\ depreciating'[k] = d
  BY <1>2, <1>3 DEF DepreciationInv, DepreciationTypeOK, Depreciating
<1>5. QED
  BY <1>1, <1>2, <1>4, DepreciationGoesOn, DepreciationAssumption DEF postAssetDepreciation

(* The end of a request *)
LEMMA DepreciationEnds ==
  ASSUME DepreciationInv, NEW k \in Clerk, Ends(k)
  PROVE  /\ depreciating' \in [Clerk -> {NotDepreciating} \cup Depreciating]
         /\ \A j \in Clerk : j # k => depreciating'[j] = depreciating[j]
         /\ depreciating'[k] = NotDepreciating
         /\ NotDepreciating.at = "idle"
BY DEF Ends, DepreciationInv, DepreciationTypeOK, Depreciating, NotDepreciating

(* A request that goes on *)
LEMMA DepreciationGoes ==
  ASSUME DepreciationInv, NEW k \in Clerk, depreciating[k] # NotDepreciating,
         NEW step \in {"post", "insert", "update"}, Goes(k, step)
  PROVE  /\ depreciating[k] \in Depreciating
         /\ depreciating' \in [Clerk -> {NotDepreciating} \cup Depreciating]
         /\ \A j \in Clerk : j # k => depreciating'[j] = depreciating[j]
         /\ depreciating'[k] \in Depreciating
         /\ depreciating'[k].at = step
         /\ depreciating'[k].month = depreciating[k].month
         /\ depreciating'[k].read = depreciating[k].read
<1>1. depreciating[k] \in Depreciating
  BY DEF DepreciationInv, DepreciationTypeOK, Depreciating
<1>2. /\ [depreciating[k] EXCEPT !.at = step] \in Depreciating
      /\ [depreciating[k] EXCEPT !.at = step].at = step
      /\ [depreciating[k] EXCEPT !.at = step].month = depreciating[k].month
      /\ [depreciating[k] EXCEPT !.at = step].read = depreciating[k].read
  BY <1>1 DEF Depreciating
<1>3. depreciating' = [depreciating EXCEPT ![k] = [depreciating[k] EXCEPT !.at = step]]
  BY DEF Goes
<1>4. depreciating \in [Clerk -> {NotDepreciating} \cup Depreciating]
  BY DEF DepreciationInv, DepreciationTypeOK, Depreciating
<1>5. depreciating'[k] = [depreciating[k] EXCEPT !.at = step]
  BY <1>3, <1>4
<1>6. QED
  BY <1>1, <1>2, <1>3, <1>4, <1>5

(* The entry is created under the month's key, or found there. *)
LEMMA DepreciationCreates ==
  ASSUME DepreciationInv, NEW k \in Clerk, CreatesMonthEntry(k)
  PROVE  DepreciationInv'
<1> DEFINE m == depreciating[k].month
<1>1. depreciating[k] # NotDepreciating
  BY DEF CreatesMonthEntry, NotDepreciating
<1>2. CASE monthEntry[m] # "none"
  BY <1>2, DepreciationEnds, DepreciationGoesOn DEF CreatesMonthEntry
<1>3. CASE monthEntry[m] = "none"
  <2>1. /\ monthEntry' = [monthEntry EXCEPT ![m] = "draft"]
        /\ Goes(k, "post")
        /\ UNCHANGED <<asset, depreciations>>
    BY <1>3 DEF CreatesMonthEntry
  <2>2. /\ depreciating[k] \in Depreciating
        /\ depreciating' \in [Clerk -> {NotDepreciating} \cup Depreciating]
        /\ \A j \in Clerk : j # k => depreciating'[j] = depreciating[j]
        /\ depreciating'[k] \in Depreciating
        /\ depreciating'[k].at = "post"
        /\ depreciating'[k].month = m
        /\ depreciating'[k].read = depreciating[k].read
    BY <1>1, <2>1, DepreciationGoes
  <2>3. /\ m \in AssetMonth
        /\ monthEntry \in [AssetMonth -> {"none", "draft", "posted"}]
        /\ monthEntry' \in [AssetMonth -> {"none", "draft", "posted"}]
    BY <2>1, <2>2 DEF DepreciationInv, DepreciationTypeOK, Depreciating
  <2>4. Posted' = Posted
    BY <1>3, <2>1, <2>3 DEF Posted
  <2>5. DepreciationTypeOK' /\ DepreciationIsPosted'
    BY <2>1, <2>2, <2>3, <2>4
    DEF DepreciationInv, DepreciationTypeOK, DepreciationIsPosted, Depreciating
  <2>6. \A j \in Clerk : depreciating[j].at = "post" => depreciating[j].month # m
    BY <1>3 DEF DepreciationInv
  <2>7. monthEntry'[m] = "draft" /\ \A n \in AssetMonth : n # m => monthEntry'[n] = monthEntry[n]
    BY <2>1, <2>3
  <2>8. ASSUME NEW j \in Clerk, depreciating'[j].at = "post"
        PROVE  /\ monthEntry'[depreciating'[j].month] = "draft"
               /\ \A i \in Clerk : depreciating'[i].at = "post"
                                  /\ depreciating'[i].month = depreciating'[j].month => i = j
    <3>1. CASE j = k
      BY <2>2, <2>6, <2>7, <3>1
    <3>2. CASE j # k
      <4>1. depreciating[j] \in Depreciating
        BY <2>2, <2>8, <3>2 DEF DepreciationInv, DepreciationTypeOK, Depreciating, NotDepreciating
      <4>2. QED
        BY <2>2, <2>6, <2>7, <2>8, <3>2, <4>1 DEF DepreciationInv, Depreciating
    <3>3. QED
      BY <3>1, <3>2
  <2>9. ASSUME NEW j \in Clerk
        PROVE  LET d == depreciating'[j] IN
               /\ d # NotDepreciating => d.read <= Cardinality(Posted)
               /\ d.at \in {"create", "post", "insert", "update"} => d.read < asset.cost
               /\ d.at \in {"insert", "update"} =>
                    d.month \in Posted /\ d.read + 1 <= Cardinality(Posted)
    BY <1>1, <2>2 DEF DepreciationInv, CreatesMonthEntry
  <2>10. QED
    BY <2>1, <2>4, <2>5, <2>8, <2>9 DEF DepreciationInv
<1>4. QED
  BY <1>2, <1>3

(* The entry is posted: one month more in the ledger. *)
LEMMA DepreciationPosts ==
  ASSUME DepreciationInv, NEW k \in Clerk, PostsMonthEntry(k)
  PROVE  DepreciationInv'
<1> DEFINE m == depreciating[k].month
<1>1. depreciating[k] # NotDepreciating
  BY DEF PostsMonthEntry, NotDepreciating
<1>2. /\ monthEntry' = [monthEntry EXCEPT ![m] = "posted"]
      /\ Goes(k, "insert")
      /\ UNCHANGED <<asset, depreciations>>
  BY DEF PostsMonthEntry
<1>3. /\ depreciating[k] \in Depreciating
      /\ depreciating' \in [Clerk -> {NotDepreciating} \cup Depreciating]
      /\ \A j \in Clerk : j # k => depreciating'[j] = depreciating[j]
      /\ depreciating'[k] \in Depreciating
      /\ depreciating'[k].at = "insert"
      /\ depreciating'[k].month = m
      /\ depreciating'[k].read = depreciating[k].read
  BY <1>1, <1>2, DepreciationGoes
<1>4. /\ m \in AssetMonth
      /\ monthEntry \in [AssetMonth -> {"none", "draft", "posted"}]
      /\ monthEntry' \in [AssetMonth -> {"none", "draft", "posted"}]
  BY <1>2, <1>3 DEF DepreciationInv, DepreciationTypeOK, Depreciating
<1>5. /\ monthEntry[m] = "draft"
      /\ \A j \in Clerk : depreciating[j].at = "post" /\ depreciating[j].month = m => j = k
      /\ depreciating[k].read <= Cardinality(Posted) /\ depreciating[k].read < asset.cost
  BY <1>1 DEF DepreciationInv, PostsMonthEntry
<1>6. Posted' = Posted \cup {m} /\ m \notin Posted
  BY <1>2, <1>4, <1>5 DEF Posted
<1>7. /\ Cardinality(Posted) \in Nat
      /\ Cardinality(Posted') = Cardinality(Posted) + 1
  BY <1>4, <1>6, PostedCounts DEF Posted
<1>8. DepreciationTypeOK'
  BY <1>2, <1>3, <1>4 DEF DepreciationInv, DepreciationTypeOK, Depreciating
<1>9. DepreciationIsPosted'
  BY <1>2, <1>6, <1>7, DepreciationAssumption
  DEF DepreciationInv, DepreciationTypeOK, DepreciationIsPosted
<1>10. \A n \in AssetMonth : n # m => monthEntry'[n] = monthEntry[n]
  BY <1>2, <1>4
<1>11. ASSUME NEW j \in Clerk, j # k, depreciating[j] # NotDepreciating
       PROVE  LET d == depreciating[j] IN
              /\ d.read <= Cardinality(Posted')
              /\ d.at \in {"create", "post", "insert", "update"} => d.read < asset.cost
              /\ d.at \in {"insert", "update"} =>
                   d.month \in Posted' /\ d.read + 1 <= Cardinality(Posted')
              /\ d.at = "post" => d.month # m /\ monthEntry'[d.month] = "draft"
  <2>1. depreciating[j] \in Depreciating
    BY <1>11 DEF DepreciationInv, DepreciationTypeOK, Depreciating
  <2>2. QED
    BY <1>5, <1>6, <1>7, <1>10, <1>11, <2>1 DEF DepreciationInv, Depreciating
<1>12. NotDepreciating.at = "idle"
  BY DEF NotDepreciating
<1>13. asset'.cost = asset.cost
  BY <1>2
<1>14. QED
  <2>1. ASSUME NEW j \in Clerk
        PROVE  LET d == depreciating'[j] IN
               /\ d # NotDepreciating => d.read <= Cardinality(Posted')
               /\ d.at \in {"create", "post", "insert", "update"} => d.read < asset'.cost
               /\ d.at \in {"insert", "update"} =>
                    d.month \in Posted' /\ d.read + 1 <= Cardinality(Posted')
               /\ d.at = "post" => monthEntry'[d.month] = "draft"
    <3>1. CASE j = k
      BY <1>3, <1>5, <1>6, <1>7, <1>13, <3>1 DEF Depreciating
    <3>2. CASE j # k /\ depreciating[j] # NotDepreciating
      BY <1>3, <1>11, <1>13, <3>2
    <3>3. CASE j # k /\ depreciating[j] = NotDepreciating
      BY <1>3, <1>12, <3>3
    <3>4. QED
      BY <3>1, <3>2, <3>3
  <2>2. \A i, j \in Clerk : depreciating'[i].at = "post" /\ depreciating'[j].at = "post"
                            /\ depreciating'[i].month = depreciating'[j].month => i = j
    BY <1>3 DEF DepreciationInv
  <2>3. QED
    BY <1>8, <1>9, <2>1, <2>2 DEF DepreciationInv

(* The depreciation row is inserted, for a month that is posted. *)
LEMMA DepreciationInserts ==
  ASSUME DepreciationInv, NEW k \in Clerk, insertDepreciationEntry(k)
  PROVE  DepreciationInv'
<1>1. depreciating[k] # NotDepreciating /\ depreciating[k].at = "insert"
  BY DEF insertDepreciationEntry, NotDepreciating
<1>2. /\ depreciating[k] \in Depreciating
      /\ depreciating' \in [Clerk -> {NotDepreciating} \cup Depreciating]
      /\ \A j \in Clerk : j # k => depreciating'[j] = depreciating[j]
      /\ depreciating'[k] \in Depreciating
      /\ depreciating'[k].at = "update"
      /\ depreciating'[k].month = depreciating[k].month
      /\ depreciating'[k].read = depreciating[k].read
  BY <1>1, DepreciationGoes DEF insertDepreciationEntry
<1>3. Posted' = Posted /\ UNCHANGED <<asset, monthEntry>>
  BY DEF insertDepreciationEntry, Posted
<1>4. /\ depreciating[k].month \in Posted /\ depreciating[k].month \in AssetMonth
      /\ depreciating[k].read + 1 <= Cardinality(Posted)
      /\ depreciating[k].read < asset.cost /\ asset.cost \in {0, Life}
      /\ depreciating[k].read \in 0..Life
  BY <1>1, <1>2 DEF DepreciationInv, DepreciationTypeOK, Depreciating
<1> DEFINE row == [month |-> depreciating[k].month, after |-> depreciating[k].read + 1]
<1>5. /\ row \in [month : AssetMonth, after : 1..Life]
      /\ row.month \in Posted /\ row.after <= Cardinality(Posted)
  BY <1>4, DepreciationAssumption
<1>6. depreciations' = depreciations \cup {row}
  BY DEF insertDepreciationEntry
<1> HIDE DEF row
<1>7. DepreciationTypeOK'
  BY <1>2, <1>3, <1>5, <1>6 DEF DepreciationInv, DepreciationTypeOK, Depreciating
<1>8. DepreciationIsPosted'
  BY <1>3, <1>5, <1>6 DEF DepreciationInv, DepreciationIsPosted
<1>9. QED
  BY <1>1, <1>2, <1>3, <1>7, <1>8 DEF DepreciationInv

(* The asset is updated with the sum its request computed. *)
LEMMA DepreciationUpdates ==
  ASSUME DepreciationInv, NEW k \in Clerk,
         MarksExhausted(k) \/ updateFixedAssetDepreciation(k)
  PROVE  DepreciationInv'
<1>1. /\ depreciating[k] # NotDepreciating
      /\ depreciating[k].at \in {"exhausted", "update"}
      /\ Ends(k) /\ UNCHANGED <<monthEntry, depreciations>>
  BY DEF MarksExhausted, updateFixedAssetDepreciation, NotDepreciating
<1>2. depreciating[k] \in Depreciating
  BY <1>1 DEF DepreciationInv, DepreciationTypeOK, Depreciating
<1>3. /\ depreciating' \in [Clerk -> {NotDepreciating} \cup Depreciating]
      /\ \A j \in Clerk : j # k => depreciating'[j] = depreciating[j]
      /\ depreciating'[k] = NotDepreciating
      /\ NotDepreciating.at = "idle"
  BY <1>1, DepreciationEnds
<1>4. Posted' = Posted
  BY <1>1 DEF Posted
<1>5. /\ asset' \in [cost : {0, Life}, total : 0..Life, status : {"active", "fully_depreciated"}]
      /\ asset'.cost = asset.cost /\ asset'.total <= Cardinality(Posted)
  <2>1. asset \in [cost : {0, Life}, total : 0..Life, status : {"active", "fully_depreciated"}]
    BY DEF DepreciationInv, DepreciationTypeOK
  <2>2. CASE MarksExhausted(k)
    <3>1. depreciating[k].read \in 0..Life /\ depreciating[k].read <= Cardinality(Posted)
      BY <1>1, <1>2 DEF DepreciationInv, Depreciating
    <3>2. asset' = [asset EXCEPT !.total = depreciating[k].read, !.status = "fully_depreciated"]
      BY <2>2 DEF MarksExhausted
    <3>3. QED
      BY <2>1, <3>1, <3>2
  <2>3. CASE updateFixedAssetDepreciation(k)
    <3> DEFINE total == depreciating[k].read + 1
               status == IF total >= asset.cost THEN "fully_depreciated" ELSE "active"
    <3>1. total \in 0..Life /\ total <= Cardinality(Posted)
      BY <1>2, <2>1, <2>3, DepreciationAssumption
      DEF DepreciationInv, Depreciating, updateFixedAssetDepreciation
    <3>2. asset' = [asset EXCEPT !.total = total, !.status = status]
      BY <2>3 DEF updateFixedAssetDepreciation
    <3>3. status \in {"active", "fully_depreciated"}
      OBVIOUS
    <3> HIDE DEF total, status
    <3>4. QED
      BY <2>1, <3>1, <3>2, <3>3
  <2>4. QED
    BY <2>2, <2>3
<1>6. DepreciationTypeOK' /\ DepreciationIsPosted'
  BY <1>1, <1>3, <1>4, <1>5
  DEF DepreciationInv, DepreciationTypeOK, DepreciationIsPosted, Depreciating
<1>7. QED
  BY <1>1, <1>3, <1>4, <1>5, <1>6 DEF DepreciationInv

(* The invariant of the depreciation office holds. *)
LEMMA DepreciationAlways == Spec => []DepreciationInv
<1>1. Init => DepreciationInv
  <2> SUFFICES ASSUME DepreciationInit PROVE DepreciationInv
    BY DEF Init
  <2>1. Posted = {} /\ asset.total = 0
    BY DEF DepreciationInit, Posted
  <2>2. \A k \in Clerk : depreciating[k] = NotDepreciating /\ depreciating[k].at = "idle"
    BY DEF DepreciationInit, NotDepreciating
  <2>3. DepreciationTypeOK
    BY DepreciationAssumption DEF DepreciationInit, DepreciationTypeOK
  <2>4. DepreciationIsPosted
    BY <2>1, FS_EmptySet DEF DepreciationInit, DepreciationIsPosted
  <2>5. QED
    BY <2>2, <2>3, <2>4 DEF DepreciationInv
<1>2. DepreciationInv /\ [Next]_vars => DepreciationInv'
  <2> SUFFICES ASSUME DepreciationInv, [Next]_vars PROVE DepreciationInv'
    OBVIOUS
  <2>1. CASE DepreciationNext
    <3>1. PICK k \in Clerk :
             \/ \E m \in AssetMonth : postAssetDepreciation(k, m)
             \/ MarksExhausted(k) \/ CreatesMonthEntry(k) \/ PostsMonthEntry(k)
             \/ insertDepreciationEntry(k) \/ updateFixedAssetDepreciation(k)
             \/ DepreciationDies(k)
      BY <2>1 DEF DepreciationNext
    <3>2. CASE DepreciationDies(k)
      BY <3>2, DepreciationEnds, DepreciationGoesOn DEF DepreciationDies
    <3>3. QED
      BY <3>1, <3>2, DepreciationBegins, DepreciationCreates, DepreciationPosts,
         DepreciationInserts, DepreciationUpdates
  <2>2. CASE UNCHANGED depreciationVars
    <3>1. Posted' = Posted
      BY <2>2 DEF depreciationVars, Posted
    <3>2. QED
      BY <2>2, <3>1 DEF depreciationVars, DepreciationInv, DepreciationTypeOK, DepreciationIsPosted
  <2>3. QED
    BY <2>1, <2>2 DEF Next, vars
<1>3. QED
  BY <1>1, <1>2, PTL DEF Spec

(* An asset never shows more depreciation than the ledger, and what is     *)
(* recorded is posted: for any months and any life of the asset, and       *)
(* requests that overlap, repeat and die (accounting.service.ts:299-391).  *)
THEOREM RecordedIsPosted == Spec => []DepreciationIsPosted
<1>1. DepreciationInv => DepreciationIsPosted
  BY DEF DepreciationInv
<1>2. QED
  BY <1>1, DepreciationAlways, PTL

-----------------------------------------------------------------------------
(* Landed cost *)

Landing ==
  [at : {"read", "value", "line", "create", "post", "mark", "moveValue", "moveLine", "cancel"},
   item : 1..Items, read : Nat]
Lines(i) == revalued[i].voucher + revalued[i].movements

(* How far the loop of a posting is, and, with requests in turn, what it   *)
(* knows of the value it read.                                             *)
LandedCostInv ==
  /\ LandedCostTypeOK
  /\ \A k \in Clerk : landing[k] # NotLanding => k \in desk
  /\ voucher = "posted" =>
       /\ \A i \in 1..Items : revalued[i].voucher > 0
       /\ Mapped => costEntry = "posted"
  /\ \A k \in Clerk :
       LET l == landing[k] IN
       /\ l.at \in {"read", "value", "line"} =>
            \A i \in 1..Items : i < l.item => revalued[i].voucher > 0
       /\ l.at \in {"create", "post", "mark"} => \A i \in 1..Items : revalued[i].voucher > 0
       /\ l.at = "mark" /\ Mapped => costEntry = "posted"
  /\ InTurn =>
       /\ \A i \in 1..Items : stockValue[i] >= Lines(i)
       /\ \A k \in Clerk :
            LET l == landing[k] IN
            /\ l.at \in {"value", "moveValue"} => l.read = stockValue[l.item]
            /\ l.at \in {"line", "moveLine"} => stockValue[l.item] >= Lines(l.item) + 1

(* A request is a landing, and with requests in turn the only one. *)
LEMMA LandingIsMine ==
  ASSUME LandedCostInv, NEW k \in Clerk, landing[k].at # "idle"
  PROVE  /\ landing[k] # NotLanding /\ landing[k] \in Landing /\ k \in desk
         /\ InTurn => \A j \in Clerk : j # k => landing[j] = NotLanding
BY DEF LandedCostInv, LandedCostTypeOK, Landing, NotLanding, InTurn

(* One request's step changes that request only: what remains to be shown  *)
(* is what it knows, and that the rows still bear out what others know.    *)
LEMMA LandingGoesOn ==
  ASSUME LandedCostInv, UNCHANGED desk, NEW k \in desk, k \in Clerk,
         NEW l \in Landing \cup {NotLanding},
         landing' = [landing EXCEPT ![k] = l],
         voucher' \in {"draft", "posted", "cancelled"},
         stockValue' \in [1..Items -> Nat],
         revalued' \in [1..Items -> [voucher : Nat, movements : Nat]],
         costEntry' \in {"none", "draft", "posted"},
         \A i \in 1..Items : revalued[i].voucher > 0 => revalued'[i].voucher > 0,
         costEntry = "posted" => costEntry' = "posted",
         voucher' = "posted" => (voucher = "posted" \/ landing[k].at = "mark"),
         l.at \in {"read", "value", "line"} =>
           \A i \in 1..Items : i < l.item => revalued'[i].voucher > 0,
         l.at \in {"create", "post", "mark"} => \A i \in 1..Items : revalued'[i].voucher > 0,
         l.at = "mark" /\ Mapped => costEntry' = "posted",
         InTurn => /\ \A j \in Clerk : j # k => landing[j] = NotLanding
                   /\ \A i \in 1..Items :
                        stockValue'[i] >= revalued'[i].voucher + revalued'[i].movements
                   /\ (l.at \in {"value", "moveValue"} => l.read = stockValue'[l.item])
                   /\ (l.at \in {"line", "moveLine"} =>
                        stockValue'[l.item] >=
                          revalued'[l.item].voucher + revalued'[l.item].movements + 1)
  PROVE  LandedCostInv'
<1>1. /\ landing' \in [Clerk -> {NotLanding} \cup Landing]
      /\ landing'[k] = l
      /\ \A j \in Clerk : j # k => landing'[j] = landing[j]
  BY DEF LandedCostInv, LandedCostTypeOK, Landing
<1>2. LandedCostTypeOK'
  BY <1>1 DEF LandedCostTypeOK, Landing
<1>3. InTurn' = InTurn
  BY DEF InTurn
<1>4. NotLanding.at = "idle"
  BY DEF NotLanding
<1>5. \A j \in Clerk : landing'[j] # NotLanding => j \in desk'
  BY <1>1 DEF LandedCostInv
<1>6. voucher' = "posted" => /\ \A i \in 1..Items : revalued'[i].voucher > 0
                            /\ (Mapped => costEntry' = "posted")
  BY DEF LandedCostInv
<1>7. ASSUME NEW j \in Clerk
      PROVE  /\ landing'[j].at \in {"read", "value", "line"} =>
                  \A i \in 1..Items : i < landing'[j].item => revalued'[i].voucher > 0
             /\ landing'[j].at \in {"create", "post", "mark"} =>
                  \A i \in 1..Items : revalued'[i].voucher > 0
             /\ landing'[j].at = "mark" /\ Mapped => costEntry' = "posted"
  BY <1>1 DEF LandedCostInv
<1>8. ASSUME InTurn, NEW j \in Clerk
      PROVE  /\ landing'[j].at \in {"value", "moveValue"} =>
                  landing'[j].read = stockValue'[landing'[j].item]
             /\ landing'[j].at \in {"line", "moveLine"} =>
                  stockValue'[landing'[j].item] >=
                    revalued'[landing'[j].item].voucher + revalued'[landing'[j].item].movements + 1
  BY <1>1, <1>4, <1>8
<1>9. QED
  BY <1>2, <1>3, <1>5, <1>6, <1>7, <1>8 DEF LandedCostInv, Lines

(* A request begins, for the first item of the voucher or for a movement. *)
LEMMA LandedCostAsks ==
  ASSUME LandedCostInv, UNCHANGED desk, NEW k \in Clerk,
         \/ postLandedCostVoucher(k) \/ cancelLandedCostVoucher(k)
         \/ \E i \in 1..Items : Moves(k, i)
  PROVE  LandedCostInv'
<1>1. PICK l \in Landing :
         /\ Asks(k, l.at, l.item, l.read) /\ l.at \in {"read", "moveValue", "cancel"}
         /\ l = [at |-> l.at, item |-> l.item, read |-> l.read]
         /\ l.at = "read" => l.item = 1
         /\ l.at = "moveValue" => l.read = stockValue[l.item]
  <2>1. CASE postLandedCostVoucher(k)
    <3> DEFINE w == [at |-> "read", item |-> 1, read |-> 0]
    <3>1. /\ w \in Landing /\ w.at = "read" /\ w.item = 1 /\ w.read = 0
          /\ w = [at |-> w.at, item |-> w.item, read |-> w.read]
      BY LandedCostAssumption DEF Landing, LandedCostInv, LandedCostTypeOK
    <3> HIDE DEF w
    <3>2. Asks(k, w.at, w.item, w.read)
      BY <3>1, <2>1 DEF postLandedCostVoucher
    <3>3. QED
      BY <3>1, <3>2
  <2>2. CASE cancelLandedCostVoucher(k)
    <3> DEFINE w == [at |-> "cancel", item |-> 1, read |-> 0]
    <3>1. /\ w \in Landing /\ w.at = "cancel" /\ w.item = 1 /\ w.read = 0
          /\ w = [at |-> w.at, item |-> w.item, read |-> w.read]
      BY LandedCostAssumption DEF Landing, LandedCostInv, LandedCostTypeOK
    <3> HIDE DEF w
    <3>2. Asks(k, w.at, w.item, w.read)
      BY <3>1, <2>2 DEF cancelLandedCostVoucher
    <3>3. QED
      BY <3>1, <3>2
  <2>3. CASE \E i \in 1..Items : Moves(k, i)
    <3> PICK i \in 1..Items : Moves(k, i)
      BY <2>3
    <3> DEFINE w == [at |-> "moveValue", item |-> i, read |-> stockValue[i]]
    <3>1. /\ w \in Landing /\ w.at = "moveValue" /\ w.item = i /\ w.read = stockValue[i]
          /\ w = [at |-> w.at, item |-> w.item, read |-> w.read]
      BY LandedCostAssumption DEF Landing, LandedCostInv, LandedCostTypeOK
    <3> HIDE DEF w
    <3>2. Asks(k, w.at, w.item, w.read)
      BY <3>1 DEF Moves
    <3>3. QED
      BY <3>1, <3>2
  <2>4. QED
    BY <2>1, <2>2, <2>3
<1>2. /\ k \in desk /\ landing[k] = NotLanding
      /\ landing' = [landing EXCEPT ![k] = l]
      /\ UNCHANGED <<voucher, stockValue, revalued, costEntry>>
  BY <1>1 DEF Asks
<1>3. InTurn => \A j \in Clerk : j # k => landing[j] = NotLanding
  BY <1>2 DEF LandedCostInv, InTurn
<1>4. /\ voucher \in {"draft", "posted", "cancelled"}
      /\ stockValue \in [1..Items -> Nat]
      /\ revalued \in [1..Items -> [voucher : Nat, movements : Nat]]
      /\ costEntry \in {"none", "draft", "posted"}
      /\ InTurn => \A i \in 1..Items : stockValue[i] >= revalued[i].voucher + revalued[i].movements
  BY DEF LandedCostInv, LandedCostTypeOK, Lines
<1>5. l.at = "read" => \A i \in 1..Items : ~ (i < l.item)
  BY <1>1
<1> HIDE DEF Landing
<1>6. QED
  BY <1>1, <1>2, <1>3, <1>4, <1>5, LandingGoesOn

(* The balance of the item is read (inventory.service.ts:484). *)
LEMMA LandedCostReads ==
  ASSUME LandedCostInv, UNCHANGED desk, NEW k \in Clerk, findBalance(k)
  PROVE  LandedCostInv'
<1> DEFINE l == [landing[k] EXCEPT !.at = "value", !.read = stockValue[landing[k].item]]
<1>1. /\ landing[k] \in Landing /\ k \in desk
      /\ InTurn => \A j \in Clerk : j # k => landing[j] = NotLanding
  BY LandingIsMine DEF findBalance
<1>2. /\ voucher \in {"draft", "posted", "cancelled"}
      /\ stockValue \in [1..Items -> Nat]
      /\ revalued \in [1..Items -> [voucher : Nat, movements : Nat]]
      /\ costEntry \in {"none", "draft", "posted"}
      /\ InTurn => \A i \in 1..Items : stockValue[i] >= revalued[i].voucher + revalued[i].movements
      /\ \A i \in 1..Items : i < landing[k].item => revalued[i].voucher > 0
  BY DEF LandedCostInv, LandedCostTypeOK, Lines, findBalance
<1>3. /\ l \in Landing /\ l.at = "value" /\ l.item = landing[k].item
      /\ l.read = stockValue[l.item]
  BY <1>1, <1>2 DEF Landing
<1>4. /\ landing' = [landing EXCEPT ![k] = l]
      /\ UNCHANGED <<voucher, stockValue, revalued, costEntry>>
  BY DEF findBalance
<1> HIDE DEF l
<1>5. QED
  BY <1>1, <1>2, <1>3, <1>4, LandingGoesOn

(* The balance is written over with the value the request computed. *)
LEMMA LandedCostValues ==
  ASSUME LandedCostInv, UNCHANGED desk, NEW k \in Clerk, applyValuation(k)
  PROVE  LandedCostInv'
<1> DEFINE l == [landing[k] EXCEPT !.at = IF landing[k].at = "value" THEN "line" ELSE "moveLine"]
           n == landing[k].item
<1>1. /\ landing[k] \in Landing /\ k \in desk
      /\ InTurn => \A j \in Clerk : j # k => landing[j] = NotLanding
      /\ landing[k].at \in {"value", "moveValue"}
  BY LandingIsMine DEF applyValuation
<1>2. /\ voucher \in {"draft", "posted", "cancelled"}
      /\ stockValue \in [1..Items -> Nat]
      /\ revalued \in [1..Items -> [voucher : Nat, movements : Nat]]
      /\ costEntry \in {"none", "draft", "posted"}
      /\ landing[k].at = "value" => \A i \in 1..Items : i < n => revalued[i].voucher > 0
      /\ n \in 1..Items /\ landing[k].read \in Nat
  BY <1>1 DEF LandedCostInv, LandedCostTypeOK, Landing
<1>3. InTurn => /\ \A i \in 1..Items : stockValue[i] >= revalued[i].voucher + revalued[i].movements
                /\ landing[k].read = stockValue[n]
  BY <1>1 DEF LandedCostInv, Lines
<1>4. /\ l \in Landing /\ l.item = n
      /\ l.at = IF landing[k].at = "value" THEN "line" ELSE "moveLine"
  BY <1>1 DEF Landing
<1>5. /\ landing' = [landing EXCEPT ![k] = l]
      /\ UNCHANGED <<voucher, revalued, costEntry>>
      /\ stockValue' = [stockValue EXCEPT ![n] = landing[k].read + 1]
  BY DEF applyValuation, LandsAt
<1>6. /\ stockValue' \in [1..Items -> Nat]
      /\ stockValue'[n] = landing[k].read + 1
      /\ \A i \in 1..Items : i # n => stockValue'[i] = stockValue[i]
  BY <1>2, <1>5
<1>7. InTurn => /\ \A i \in 1..Items : stockValue'[i] >= revalued[i].voucher + revalued[i].movements
                /\ stockValue'[n] >= revalued[n].voucher + revalued[n].movements + 1
  <2>1. InTurn => stockValue'[n] >= revalued[n].voucher + revalued[n].movements + 1
    <3> DEFINE sum == revalued[n].voucher + revalued[n].movements
    <3>1. sum \in Nat /\ stockValue[n] \in Nat
      BY <1>2
    <3>2. InTurn => stockValue[n] >= sum /\ stockValue'[n] = stockValue[n] + 1
      BY <1>2, <1>3, <1>6
    <3> HIDE DEF sum
    <3>3. InTurn => stockValue'[n] >= sum + 1
      BY <3>1, <3>2
    <3>4. QED
      BY <3>3 DEF sum
  <2>2. InTurn => stockValue'[n] >= revalued[n].voucher + revalued[n].movements
    BY <1>2, <1>6, <2>1
  <2>3. InTurn => \A i \in 1..Items :
          i # n => stockValue'[i] >= revalued[i].voucher + revalued[i].movements
    BY <1>3, <1>6
  <2>4. QED
    BY <2>1, <2>2, <2>3
<1> HIDE DEF l, n
<1>8. QED
  BY <1>1, <1>2, <1>4, <1>5, <1>6, <1>7, LandingGoesOn

(* The ledger line follows, and the next item. *)
LEMMA LandedCostLines ==
  ASSUME LandedCostInv, UNCHANGED desk, NEW k \in Clerk,
         insertLedgerEntry(k) \/ MoveLedgerLine(k)
  PROVE  LandedCostInv'
<1> DEFINE n == landing[k].item
           r == revalued[n]
<1>1. /\ landing[k] \in Landing /\ k \in desk
      /\ InTurn => \A j \in Clerk : j # k => landing[j] = NotLanding
      /\ landing[k].at \in {"line", "moveLine"}
  BY LandingIsMine DEF insertLedgerEntry, MoveLedgerLine
<1>2. /\ voucher \in {"draft", "posted", "cancelled"}
      /\ stockValue \in [1..Items -> Nat]
      /\ revalued \in [1..Items -> [voucher : Nat, movements : Nat]]
      /\ costEntry \in {"none", "draft", "posted"}
      /\ landing[k].at = "line" => \A i \in 1..Items : i < n => revalued[i].voucher > 0
      /\ n \in 1..Items /\ r \in [voucher : Nat, movements : Nat]
  BY <1>1 DEF LandedCostInv, LandedCostTypeOK, Landing
<1>3. InTurn => /\ \A i \in 1..Items : stockValue[i] >= revalued[i].voucher + revalued[i].movements
                /\ stockValue[n] >= r.voucher + r.movements + 1
  BY <1>1 DEF LandedCostInv, Lines
<1>4. CASE MoveLedgerLine(k)
  <2>1. /\ landing' = [landing EXCEPT ![k] = NotLanding]
        /\ UNCHANGED <<voucher, stockValue, costEntry>>
        /\ revalued' = [revalued EXCEPT ![n] = [r EXCEPT !.movements = @ + 1]]
    BY <1>4 DEF MoveLedgerLine, Lands
  <2>2. /\ [r EXCEPT !.movements = @ + 1] \in [voucher : Nat, movements : Nat]
        /\ [r EXCEPT !.movements = @ + 1].voucher = r.voucher
        /\ [r EXCEPT !.movements = @ + 1].movements = r.movements + 1
    BY <1>2
  <2>3. /\ revalued' \in [1..Items -> [voucher : Nat, movements : Nat]]
        /\ revalued'[n].voucher = r.voucher /\ revalued'[n].movements = r.movements + 1
        /\ \A i \in 1..Items : i # n => revalued'[i] = revalued[i]
    BY <1>2, <2>1, <2>2
  <2>4. InTurn => \A i \in 1..Items : stockValue[i] >= revalued'[i].voucher + revalued'[i].movements
    <3>1. InTurn => stockValue[n] >= revalued'[n].voucher + revalued'[n].movements
      BY <1>2, <1>3, <2>3
    <3>2. InTurn => \A i \in 1..Items :
            i # n => stockValue[i] >= revalued'[i].voucher + revalued'[i].movements
      BY <1>3, <2>3
    <3>3. QED
      BY <3>1, <3>2
  <2>5. \A i \in 1..Items : revalued[i].voucher > 0 => revalued'[i].voucher > 0
    BY <2>3
  <2>6. NotLanding.at = "idle"
    BY DEF NotLanding
  <2> HIDE DEF n, r
  <2>7. QED
    BY <1>1, <1>2, <2>1, <2>3, <2>4, <2>5, <2>6, LandingGoesOn
<1>5. CASE insertLedgerEntry(k)
  <2> DEFINE l == IF n < Items THEN [landing[k] EXCEPT !.at = "read", !.item = @ + 1]
                  ELSE [landing[k] EXCEPT !.at = IF Mapped THEN "create" ELSE "mark"]
  <2>1. /\ landing' = [landing EXCEPT ![k] = l]
        /\ UNCHANGED <<voucher, stockValue, costEntry>>
        /\ revalued' = [revalued EXCEPT ![n] = [r EXCEPT !.voucher = @ + 1]]
        /\ landing[k].at = "line"
    BY <1>5 DEF insertLedgerEntry, LandsAt
  <2>2. /\ [r EXCEPT !.voucher = @ + 1] \in [voucher : Nat, movements : Nat]
        /\ [r EXCEPT !.voucher = @ + 1].voucher = r.voucher + 1
        /\ [r EXCEPT !.voucher = @ + 1].movements = r.movements
    BY <1>2
  <2>3. /\ revalued' \in [1..Items -> [voucher : Nat, movements : Nat]]
        /\ revalued'[n].voucher = r.voucher + 1 /\ revalued'[n].movements = r.movements
        /\ \A i \in 1..Items : i # n => revalued'[i] = revalued[i]
    BY <1>2, <2>1, <2>2
  <2>4. InTurn => \A i \in 1..Items : stockValue[i] >= revalued'[i].voucher + revalued'[i].movements
    <3>1. InTurn => stockValue[n] >= revalued'[n].voucher + revalued'[n].movements
      BY <1>2, <1>3, <2>3
    <3>2. InTurn => \A i \in 1..Items :
            i # n => stockValue[i] >= revalued'[i].voucher + revalued'[i].movements
      BY <1>3, <2>3
    <3>3. QED
      BY <3>1, <3>2
  <2>5. \A i \in 1..Items : (i <= n \/ revalued[i].voucher > 0) => revalued'[i].voucher > 0
    <3>1. ASSUME NEW i \in 1..Items, i = n PROVE revalued'[i].voucher > 0
      BY <1>2, <2>3, <3>1
    <3>2. ASSUME NEW i \in 1..Items, i # n, i <= n \/ revalued[i].voucher > 0
          PROVE  revalued'[i].voucher > 0
      BY <1>2, <2>1, <2>3, <3>2
    <3>3. QED
      BY <3>1, <3>2
  <2>6. /\ l \in Landing
        /\ n < Items => l.at = "read" /\ l.item = n + 1
        /\ ~ (n < Items) => l.at = IF Mapped THEN "create" ELSE "mark"
    <3>1. CASE n < Items
      <4>1. /\ l = [landing[k] EXCEPT !.at = "read", !.item = @ + 1]
            /\ n + 1 \in 1..Items
        BY <1>2, <3>1, LandedCostAssumption
      <4> HIDE DEF l
      <4>2. QED
        BY <1>1, <3>1, <4>1 DEF Landing
    <3>2. CASE ~ (n < Items)
      <4>1. l = [landing[k] EXCEPT !.at = IF Mapped THEN "create" ELSE "mark"]
        BY <3>2
      <4> HIDE DEF l
      <4>2. QED
        BY <1>1, <3>2, <4>1 DEF Landing
    <3>3. QED
      BY <3>1, <3>2
  <2>7. /\ l.at \in {"read", "create", "mark"}
        /\ l.at = "mark" => ~ Mapped
        /\ l.at = "read" => \A i \in 1..Items : i < l.item => revalued'[i].voucher > 0
        /\ l.at \in {"create", "mark"} => \A i \in 1..Items : revalued'[i].voucher > 0
    BY <1>2, <2>5, <2>6, LandedCostAssumption
  <2> HIDE DEF n, r, l
  <2>8. QED
    BY <1>1, <1>2, <2>1, <2>3, <2>4, <2>5, <2>6, <2>7, LandingGoesOn
<1>6. QED
  BY <1>4, <1>5

(* The entry is posted, then the voucher is marked; or the request dies. *)
LEMMA LandedCostBooks ==
  ASSUME LandedCostInv, UNCHANGED desk, NEW k \in Clerk,
         CreatesCostEntry(k) \/ PostsCostEntry(k) \/ MarksVoucher(k) \/ LandingDies(k)
  PROVE  LandedCostInv'
<1>1. /\ landing[k] \in Landing /\ k \in desk
      /\ InTurn => \A j \in Clerk : j # k => landing[j] = NotLanding
  BY DEF CreatesCostEntry, PostsCostEntry, MarksVoucher, LandingDies, LandedCostInv,
         LandedCostTypeOK, Landing, NotLanding, InTurn
<1>2. /\ voucher \in {"draft", "posted", "cancelled"}
      /\ stockValue \in [1..Items -> Nat]
      /\ revalued \in [1..Items -> [voucher : Nat, movements : Nat]]
      /\ costEntry \in {"none", "draft", "posted"}
      /\ InTurn => \A i \in 1..Items : stockValue[i] >= revalued[i].voucher + revalued[i].movements
      /\ landing[k].at \in {"create", "post", "mark"} =>
           \A i \in 1..Items : revalued[i].voucher > 0
  BY DEF LandedCostInv, LandedCostTypeOK, Lines
<1>3. NotLanding.at = "idle" /\ NotLanding \in Landing \cup {NotLanding}
  BY DEF NotLanding
<1>4. UNCHANGED <<stockValue, revalued>>
  BY DEF CreatesCostEntry, PostsCostEntry, MarksVoucher, LandingDies
<1>5. CASE Lands(k) /\ UNCHANGED <<voucher, costEntry>>
  BY <1>1, <1>2, <1>3, <1>4, <1>5, LandingGoesOn DEF Lands
<1>6. CASE MarksVoucher(k)
  <2>1. /\ landing' = [landing EXCEPT ![k] = NotLanding] /\ UNCHANGED costEntry
        /\ voucher' = IF landing[k].at = "mark" THEN "posted" ELSE "cancelled"
    BY <1>6 DEF MarksVoucher, Lands
  <2>2. QED
    BY <1>1, <1>2, <1>3, <1>4, <2>1, LandingGoesOn
<1>7. ASSUME NEW step \in {"post", "mark"}, LandsAt(k, step), UNCHANGED voucher,
             landing[k].at \in {"create", "post"},
             costEntry' = IF step = "post" THEN "draft" ELSE "posted",
             step = "post" => costEntry # "posted"
      PROVE  LandedCostInv'
  <2> DEFINE l == [landing[k] EXCEPT !.at = step]
  <2>1. l \in Landing /\ l.at = step /\ landing' = [landing EXCEPT ![k] = l]
    BY <1>1, <1>7 DEF Landing, LandsAt
  <2> HIDE DEF l
  <2>2. QED
    BY <1>1, <1>2, <1>4, <1>7, <2>1, LandingGoesOn
<1>8. CASE CreatesCostEntry(k)
  BY <1>5, <1>7, <1>8 DEF CreatesCostEntry
<1>9. CASE PostsCostEntry(k)
  BY <1>7, <1>9 DEF PostsCostEntry
<1>10. QED
  BY <1>5, <1>6, <1>8, <1>9 DEF LandingDies

(* The invariant of the landed cost office holds. *)
LEMMA LandedCostAlways == Spec => []LandedCostInv
<1>1. Init => LandedCostInv
  <2> SUFFICES ASSUME LandedCostInit PROVE LandedCostInv
    BY DEF Init
  <2>1. \A k \in Clerk : landing[k] = NotLanding /\ landing[k].at = "idle"
    BY DEF LandedCostInit, NotLanding
  <2>2. \A i \in 1..Items : stockValue[i] = 0 /\ Lines(i) = 0
    BY DEF LandedCostInit, Lines
  <2>3. LandedCostTypeOK
    BY LandedCostAssumption DEF LandedCostInit, LandedCostTypeOK
  <2>4. voucher = "draft"
    BY DEF LandedCostInit
  <2>5. QED
    BY <2>1, <2>2, <2>3, <2>4 DEF LandedCostInv
<1>2. LandedCostInv /\ [Next]_vars => LandedCostInv'
  <2> SUFFICES ASSUME LandedCostInv, [Next]_vars PROVE LandedCostInv'
    OBVIOUS
  <2>1. CASE LandedCostNext /\ UNCHANGED desk
    <3>1. PICK k \in Clerk :
             \/ postLandedCostVoucher(k) \/ findBalance(k) \/ applyValuation(k)
             \/ insertLedgerEntry(k) \/ CreatesCostEntry(k) \/ PostsCostEntry(k)
             \/ MarksVoucher(k) \/ cancelLandedCostVoucher(k)
             \/ \E i \in 1..Items : Moves(k, i)
             \/ MoveLedgerLine(k) \/ LandingDies(k)
      BY <2>1 DEF LandedCostNext
    <3>2. QED
      BY <2>1, <3>1, LandedCostAsks, LandedCostReads, LandedCostValues, LandedCostLines,
         LandedCostBooks
  <2>2. CASE UNCHANGED <<landedVars, desk>>
    BY <2>2 DEF landedVars, LandedCostInv, LandedCostTypeOK, Lines, InTurn
  <2>3. QED
    BY <2>1, <2>2 DEF Next, vars
<1>3. QED
  BY <1>1, <1>2, PTL DEF Spec

(* A posted voucher's expense is on every item's ledger and in the         *)
(* journal, and with requests in turn every ledger line's value is in the  *)
(* balance: for any number of items (inventory.service.ts:466-540).        *)
THEOREM CapitalizedWhenPosted == Spec => []PostedIsCapitalized
<1>1. LandedCostInv => PostedIsCapitalized
  BY DEF LandedCostInv, PostedIsCapitalized, Lines
<1>2. QED
  BY <1>1, LandedCostAlways, PTL

-----------------------------------------------------------------------------
(* Allocation *)

(* What a request read, whoever else is at work *)
CostingReads(k) ==
  LET c == costing[k] IN
  /\ c # NoCosting => k \in desk
  /\ c.at \in {"total", "activate"} => c.read \in Nat /\ c.read <= entries
  /\ c.at = "policy" => c.policy \in Policy /\ c.read \in 1..Shares
  /\ c.at \in {"delete", "insert"} => c.policy \in Policy
  /\ c.at = "delete" => c.left = Orders
  /\ c.at = "insert" => c.left \in 1..Orders

(* What is allocated of the policy's share, a row for each work order *)
Part(p) == share[p] * pool.total

(* What it read is still so, when requests come in turn *)
CostingInTurn(k) ==
  LET c == costing[k] IN
  /\ c.at \in {"total", "activate"} => c.read = entries
  /\ c.at = "policy" => SumFunction(share) + c.read <= Shares
  /\ c.at \in {"delete", "insert"} => c.read = pool.total
  /\ c.at = "insert" => allocated[c.policy] = (Orders - c.left) * Part(c.policy)

AllocationInv ==
  /\ AllocationTypeOK
  /\ pool.total <= entries
  /\ \A k \in Clerk : CostingReads(k)
  /\ InTurn =>
       /\ SumFunction(share) <= Shares
       /\ \A p \in Policy : allocated[p] <= Orders * Part(p)
       /\ \A k \in Clerk : CostingInTurn(k)

(* A request that goes on has the type of one. *)
LEMMA CostingType ==
  ASSUME NEW c \in Costing,
         NEW at \in {"idle", "entry", "sum", "total", "activate", "active", "policy", "delete",
                    "insert", "allocated"},
         NEW read \in Nat, NEW left \in 0..Orders
  PROVE  /\ [c EXCEPT !.at = at] \in Costing
         /\ [c EXCEPT !.at = at, !.read = read] \in Costing
         /\ [c EXCEPT !.left = left, !.at = at] \in Costing
BY DEF Costing

(* One request's step: it alone has read what the others may change. *)
LEMMA AllocationGoesOn ==
  ASSUME AllocationInv, UNCHANGED desk, NEW k \in Clerk,
         \A j \in Clerk : j # k => costing'[j] = costing[j],
         AllocationTypeOK', pool'.total <= entries', entries <= entries',
         k \in desk,
         CostingReads(k)',
         InTurn => /\ SumFunction(share)' <= Shares
                   /\ \A p \in Policy : allocated'[p] <= Orders * Part(p)'
                   /\ CostingInTurn(k)'
  PROVE  AllocationInv'
<1>1. InTurn' = InTurn
  BY DEF InTurn
<1>2. ASSUME NEW j \in Clerk PROVE CostingReads(j)'
  <2>1. CASE j = k
    BY <2>1
  <2>2. CASE j # k
    <3>1. CostingReads(j) /\ costing'[j] = costing[j]
      BY <2>2 DEF AllocationInv
    <3>2. entries \in Nat /\ entries' \in Nat
      BY DEF AllocationInv, AllocationTypeOK
    <3> QED  BY <3>1, <3>2 DEF CostingReads
  <2> QED  BY <2>1, <2>2
<1>3. ASSUME InTurn, NEW j \in Clerk PROVE CostingInTurn(j)'
  <2>1. CASE j = k
    BY <1>3, <2>1
  <2>2. CASE j # k
    <3>1. costing[j] = NoCosting
      BY <1>3, <2>2 DEF AllocationInv, CostingReads, InTurn
    <3>2. costing'[j].at = "idle"
      BY <2>2, <3>1 DEF NoCosting
    <3> QED  BY <3>2 DEF CostingInTurn
  <2> QED  BY <2>1, <2>2
<1> QED  BY <1>1, <1>2, <1>3 DEF AllocationInv

(* Nothing is in the pool. *)
LEMMA AllocationBegins == AllocationInit => AllocationInv
<1> SUFFICES ASSUME AllocationInit PROVE AllocationInv
  OBVIOUS
<1>1. AllocationTypeOK /\ pool.total <= entries
  BY AllocationAssumption DEF AllocationInit, AllocationTypeOK, Costing, NoCosting
<1>2. \A k \in Clerk : CostingReads(k) /\ (SumFunction(share) <= Shares => CostingInTurn(k))
  BY DEF AllocationInit, CostingReads, CostingInTurn, NoCosting
<1>3. SumFunction(share) <= Shares
  <2>1. share = [p \in Policy |-> 0]
    BY DEF AllocationInit
  <2>2. DOMAIN share = Policy /\ \A p \in Policy : share[p] = 0
    BY <2>1
  <2>3. SumFunctionOnSet(share, Policy) <= 0 * SumFunctionOnSet(share, Policy)
    BY <2>2, SumBounded, AllocationAssumption
  <2>4. SumFunctionOnSet(share, Policy) \in Int
    BY <2>2, SumType, AllocationAssumption
  <2> QED  BY <2>2, <2>3, <2>4, AllocationAssumption DEF SumFunction
<1>4. \A p \in Policy : allocated[p] <= Orders * Part(p)
  BY AllocationAssumption DEF AllocationInit, Part
<1> QED  BY <1>1, <1>2, <1>3, <1>4 DEF AllocationInv

(* A request that only reads leaves the pool and the shares alone. *)
LEMMA AllocationReads ==
  ASSUME AllocationInv, UNCHANGED <<desk, pool, share, allocated>>, NEW k \in Clerk,
         \A j \in Clerk : j # k => costing'[j] = costing[j],
         AllocationTypeOK', entries <= entries', k \in desk,
         CostingReads(k)',
         InTurn => CostingInTurn(k)'
  PROVE  AllocationInv'
<1>1. pool'.total <= entries'
  BY DEF AllocationInv, AllocationTypeOK
<1>2. InTurn => /\ SumFunction(share)' <= Shares
                /\ \A p \in Policy : allocated'[p] <= Orders * Part(p)'
  BY DEF AllocationInv, Part
<1> QED  BY <1>1, <1>2, AllocationGoesOn

(* Every step of allocation keeps what its requests rest on. *)
LEMMA AllocationStep ==
  ASSUME AllocationInv, AllocationNext, UNCHANGED desk
  PROVE  AllocationInv'
<1> USE AllocationAssumption DEF AllocationTypeOK, Costing
<1>0. AllocationTypeOK /\ pool.total <= entries /\ \A k \in Clerk : CostingReads(k)
  BY DEF AllocationInv
<1>1. PICK k \in Clerk :
         \/ addPoolEntry(k) \/ insertPoolEntry(k) \/ getPoolTotal(k) \/ updatePoolTotal(k)
         \/ activatePool(k)
         \/ \E p \in Policy, s \in 1..Shares : createPolicy(k, p, s)
         \/ insertPolicy(k)
         \/ \E p \in Policy : executeAllocation(k, p)
         \/ deleteResultsByPolicy(k) \/ insertAllocationResult(k)
         \/ setPoolStatus(k)
         \/ CostingDies(k)
  BY DEF AllocationNext
<1>2. CostingReads(k) /\ (InTurn => CostingInTurn(k))
  BY DEF AllocationInv
<1>3. InTurn => SumFunction(share) <= Shares /\ \A p \in Policy : allocated[p] <= Orders * Part(p)
  BY DEF AllocationInv
<1>4. ASSUME UNCHANGED <<pool, share, allocated>>, entries <= entries', k \in desk,
             \A j \in Clerk : j # k => costing'[j] = costing[j],
             AllocationTypeOK', CostingReads(k)', InTurn => CostingInTurn(k)'
      PROVE  AllocationInv'
  BY <1>4, AllocationReads, Zenon
<1>9. ASSUME k \in desk, \A j \in Clerk : j # k => costing'[j] = costing[j],
             AllocationTypeOK', pool'.total <= entries', entries <= entries',
             CostingReads(k)',
             InTurn => SumFunction(share)' <= Shares,
             InTurn => \A p \in Policy : allocated'[p] <= Orders * Part(p)',
             InTurn => CostingInTurn(k)'
      PROVE  AllocationInv'
  BY <1>9, AllocationGoesOn, Zenon
<1>5. CASE addPoolEntry(k)
  <2> USE <1>5 DEF addPoolEntry, StartsCosting
  <2>1. AllocationTypeOK' /\ k \in desk /\ \A j \in Clerk : j # k => costing'[j] = costing[j]
    BY <1>0
  <2>2. CostingReads(k)' /\ CostingInTurn(k)'
    BY <1>0 DEF CostingReads, CostingInTurn
  <2>3. UNCHANGED <<pool, share, allocated>> /\ entries <= entries'
    BY <1>0
  <2> QED  BY <1>4, <2>1, <2>2, <2>3
<1>6. CASE insertPoolEntry(k)
  <2> USE <1>6 DEF insertPoolEntry, CostingAt
  <2>1. AllocationTypeOK' /\ k \in desk /\ \A j \in Clerk : j # k => costing'[j] = costing[j]
    BY <1>0, <1>2 DEF CostingReads, NoCosting
  <2>2. CostingReads(k)' /\ CostingInTurn(k)'
    BY <1>0, <2>1 DEF CostingReads, CostingInTurn
  <2>3. UNCHANGED <<pool, share, allocated>> /\ entries <= entries'
    BY <1>0
  <2> QED  BY <1>4, <2>1, <2>2, <2>3
<1>7. CASE getPoolTotal(k)
  <2> USE <1>7 DEF getPoolTotal
  <2> HIDE DEF Costing
  <2> DEFINE c == [costing[k] EXCEPT !.at = "total", !.read = entries]
  <2>1. costing' = [costing EXCEPT ![k] = c]
    BY <1>0
  <2>2. c \in Costing
    <3>1. costing[k] \in Costing /\ entries \in Nat /\ 0 \in 0..Orders
      BY <1>0
    <3> QED  BY <3>1, CostingType
  <2>3. c.at = "total" /\ c.read = entries
    BY <1>0 DEF Costing
  <2> HIDE DEF c
  <2>4. AllocationTypeOK'
    BY <1>0, <2>1, <2>2
  <2>5. k \in desk /\ \A j \in Clerk : j # k => costing'[j] = costing[j]
    BY <1>0, <1>2, <2>1 DEF CostingReads, NoCosting
  <2>6. CostingReads(k)' /\ CostingInTurn(k)'
    BY <1>0, <2>1, <2>3, <2>5 DEF CostingReads, CostingInTurn
  <2>7. UNCHANGED <<pool, share, allocated>> /\ entries <= entries'
    BY <1>0
  <2> QED  BY <1>4, <2>4, <2>5, <2>6, <2>7
<1>8. CASE updatePoolTotal(k)
  <2> USE <1>8 DEF updatePoolTotal, CostingAt, CostingEnds
  <2>1. k \in desk /\ \A j \in Clerk : j # k => costing'[j] = costing[j]
    BY <1>0, <1>2 DEF CostingReads, NoCosting
  <2>2. pool'.total = costing[k].read /\ pool'.status = pool.status /\ costing[k].read <= entries /\ costing[k].read \in Nat
    BY <1>0, <1>2 DEF CostingReads
  <2>3. pool' \in [status : {"draft", "active", "allocated"}, total : 0..MaxEntries]
    BY <1>0, <2>2
  <2>4. costing'[k] = NoCosting \/ costing'[k].at = "active"
    BY <1>0
  <2>5. AllocationTypeOK' /\ CostingReads(k)' /\ CostingInTurn(k)'
    BY <1>0, <2>1, <2>3, <2>4 DEF CostingReads, CostingInTurn, NoCosting
  <2>6. ASSUME InTurn PROVE \A p \in Policy : allocated'[p] <= Orders * Part(p)'
    <3> SUFFICES ASSUME NEW p \in Policy PROVE allocated[p] <= Orders * Part(p)'
      OBVIOUS
    <3>1. pool.total <= pool'.total
      BY <1>0, <1>2, <2>2, <2>6 DEF CostingInTurn
    <3>2. share[p] \in Nat /\ pool.total \in Nat /\ pool'.total \in Nat /\ allocated[p] \in Nat
      BY <1>0, <2>2
    <3>3. share[p] * pool.total <= share[p] * pool'.total
      BY <3>1, <3>2
    <3>4. Part(p) \in Nat /\ Part(p)' \in Nat /\ Part(p) <= Part(p)'
      BY <3>2, <3>3 DEF Part
    <3>5. Orders * Part(p) <= Orders * Part(p)' /\ Orders * Part(p) \in Nat /\ Orders * Part(p)' \in Nat
      BY <3>4
    <3>6. allocated[p] <= Orders * Part(p)
      BY <1>3, <2>6
    <3> QED  BY <3>2, <3>5, <3>6
  <2>7. InTurn => SumFunction(share)' <= Shares
    BY <1>3
  <2>8. pool'.total <= entries' /\ entries <= entries'
    BY <1>0, <2>2
  <2> QED  BY <1>9, <2>1, <2>5, <2>6, <2>7, <2>8
<1>10. CASE activatePool(k)
  <2> USE <1>10 DEF activatePool, StartsCosting
  <2>1. AllocationTypeOK' /\ k \in desk /\ \A j \in Clerk : j # k => costing'[j] = costing[j]
    BY <1>0
  <2>2. CostingReads(k)' /\ CostingInTurn(k)'
    BY <1>0 DEF CostingReads, CostingInTurn
  <2>3. UNCHANGED <<pool, share, allocated>> /\ entries <= entries'
    BY <1>0
  <2> QED  BY <1>4, <2>1, <2>2, <2>3
<1>11. ASSUME NEW p \in Policy, NEW s \in 1..Shares, createPolicy(k, p, s) PROVE AllocationInv'
  <2> USE <1>11 DEF createPolicy, StartsCosting
  <2>1. AllocationTypeOK' /\ k \in desk /\ \A j \in Clerk : j # k => costing'[j] = costing[j]
    BY <1>0
  <2>2. CostingReads(k)' /\ CostingInTurn(k)'
    BY <1>0 DEF CostingReads, CostingInTurn
  <2>3. UNCHANGED <<pool, share, allocated>> /\ entries <= entries'
    BY <1>0
  <2> QED  BY <1>4, <2>1, <2>2, <2>3
<1>12. ASSUME NEW p \in Policy, executeAllocation(k, p) PROVE AllocationInv'
  <2> USE <1>12 DEF executeAllocation, StartsCosting
  <2>1. AllocationTypeOK' /\ k \in desk /\ \A j \in Clerk : j # k => costing'[j] = costing[j]
    BY <1>0
  <2>2. CostingReads(k)' /\ CostingInTurn(k)'
    BY <1>0 DEF CostingReads, CostingInTurn
  <2>3. UNCHANGED <<pool, share, allocated>> /\ entries <= entries'
    BY <1>0
  <2> QED  BY <1>4, <2>1, <2>2, <2>3
<1>13. CASE deleteResultsByPolicy(k)
  <2> USE <1>13 DEF deleteResultsByPolicy, CostingAt
  <2>1. k \in desk /\ \A j \in Clerk : j # k => costing'[j] = costing[j]
    BY <1>0, <1>2 DEF CostingReads, NoCosting
  <2>2. PICK q \in Policy : q = costing[k].policy
    BY <1>2 DEF CostingReads
  <2>3. allocated' = [allocated EXCEPT ![q] = 0]
    BY <2>2
  <2>4. AllocationTypeOK'
    <3>1. allocated' \in [Policy -> Nat]
      <4>1. allocated \in [Policy -> Nat] /\ 0 \in Nat
        BY <1>0
      <4> QED  BY <2>3, <4>1
    <3>2. costing' \in [Clerk -> Costing]
      BY <1>0
    <3> QED  BY <1>0, <3>1, <3>2
  <2>5. UNCHANGED <<pool, share, entries>> /\ pool'.total <= entries' /\ entries <= entries'
    BY <1>0
  <2>6. CostingReads(k)'
    BY <1>0, <1>2, <2>1 DEF CostingReads
  <2>7. InTurn => \A p \in Policy : allocated'[p] <= Orders * Part(p)'
    <3> SUFFICES ASSUME InTurn, NEW p \in Policy PROVE allocated'[p] <= Orders * Part(p)
      BY <2>5 DEF Part
    <3>1. CASE p = q
      <4>1. share[p] \in Nat /\ pool.total \in Nat
        BY <1>0
      <4>2. Part(p) \in Nat
        BY <4>1 DEF Part
      <4>3. Orders * Part(p) \in Nat
        BY <4>2
      <4>4. allocated'[p] = 0
        BY <1>0, <2>3, <3>1
      <4> QED  BY <4>3, <4>4
    <3>2. CASE p # q
      BY <1>0, <1>3, <2>3, <3>2
    <3> QED  BY <3>1, <3>2
  <2>8. InTurn => CostingInTurn(k)'
    <3> SUFFICES ASSUME InTurn PROVE CostingInTurn(k)'
      OBVIOUS
    <3>1. /\ costing'[k].at = "insert" /\ costing'[k].read = pool.total
          /\ costing'[k].left = Orders /\ costing'[k].policy = q
      BY <1>0, <1>2, <2>2 DEF CostingInTurn, CostingReads
    <3>2. allocated'[q] = 0
      BY <1>0, <2>3
    <3>3. share[q] \in Nat /\ pool.total \in Nat
      BY <1>0
    <3>4. Part(q)' \in Nat
      BY <2>5, <3>3 DEF Part
    <3>5. (Orders - Orders) * Part(q)' = 0
      BY <3>4
    <3> QED  BY <2>5, <3>1, <3>2, <3>5 DEF CostingInTurn
  <2>9. InTurn => SumFunction(share)' <= Shares
    BY <1>3, <2>5
  <2> QED  BY <1>9, <2>1, <2>4, <2>5, <2>6, <2>7, <2>8, <2>9
<1>14. CASE setPoolStatus(k)
  <2> USE <1>14 DEF setPoolStatus, CostingEnds
  <2>1. k \in desk /\ (\A j \in Clerk : j # k => costing'[j] = costing[j]) /\ costing'[k] = NoCosting
    BY <1>0, <1>2 DEF CostingReads, NoCosting
  <2>2. pool'.total = pool.total /\ UNCHANGED <<share, allocated, entries>>
    BY <1>0
  <2>3. AllocationTypeOK'
    BY <1>0 DEF NoCosting
  <2>4. CostingReads(k)' /\ CostingInTurn(k)'
    BY <2>1 DEF CostingReads, CostingInTurn, NoCosting
  <2>5. /\ InTurn => SumFunction(share)' <= Shares
        /\ InTurn => \A p \in Policy : allocated'[p] <= Orders * Part(p)'
    BY <1>3, <2>2 DEF Part
  <2>6. pool'.total <= entries' /\ entries <= entries'
    BY <1>0, <2>2
  <2> QED  BY <1>9, <2>1, <2>3, <2>4, <2>5, <2>6
<1>15. CASE CostingDies(k)
  <2> USE <1>15 DEF CostingDies, CostingEnds
  <2>1. AllocationTypeOK' /\ k \in desk /\ \A j \in Clerk : j # k => costing'[j] = costing[j]
    BY <1>0, <1>2 DEF CostingReads, NoCosting
  <2>2. CostingReads(k)' /\ CostingInTurn(k)'
    BY <1>0 DEF CostingReads, CostingInTurn, NoCosting
  <2>3. UNCHANGED <<pool, share, allocated>> /\ entries <= entries'
    BY <1>0
  <2> QED  BY <1>4, <2>1, <2>2, <2>3
<1>16. CASE insertPolicy(k)
  <2> USE <1>16 DEF insertPolicy, CostingEnds
  <2>1. k \in desk /\ (\A j \in Clerk : j # k => costing'[j] = costing[j]) /\ costing'[k] = NoCosting
    BY <1>0, <1>2 DEF CostingReads, NoCosting
  <2>2. PICK q \in Policy : q = costing[k].policy /\ costing[k].read \in 1..Shares
    BY <1>2 DEF CostingReads
  <2>3. UNCHANGED <<pool, allocated, entries>> /\ pool'.total <= entries' /\ entries <= entries'
    BY <1>0
  <2>4. CostingReads(k)' /\ CostingInTurn(k)'
    BY <2>1 DEF CostingReads, CostingInTurn, NoCosting
  <2>5. CASE share[q] # 0
    <3>1. UNCHANGED share
      BY <2>2, <2>5
    <3>2. AllocationTypeOK'
      <4>1. costing' \in [Clerk -> Costing]
        BY <1>0 DEF NoCosting
      <4> QED  BY <1>0, <3>1, <4>1
    <3> QED  BY <1>4, <2>1, <2>3, <2>4, <3>1, <3>2
  <2>6. CASE share[q] = 0
    <3>1. share' = [share EXCEPT ![q] = costing[k].read]
      BY <2>2, <2>6
    <3>2. AllocationTypeOK'
      BY <1>0, <2>2, <3>1 DEF NoCosting
    <3>3. ASSUME InTurn PROVE SumFunction(share)' <= Shares
      <4>1. DOMAIN share = Policy /\ DOMAIN share' = Policy
        BY <1>0, <3>1
      <4>2. \A p \in Policy : share[p] \in Int /\ share'[p] \in Int
        BY <1>0, <3>2
      <4>3. \A p \in Policy \ {q} : share[p] = share'[p]
        BY <1>0, <3>1
      <4>4. share'[q] = costing[k].read
        BY <1>0, <3>1
      <4>5. SumFunctionOnSet(share', Policy) = SumFunctionOnSet(share, Policy) + (share'[q] - share[q])
        <5>1. \A f, g : (\A p \in Policy : f[p] \in Int /\ g[p] \in Int)
                           /\ (\A p \in Policy \ {q} : f[p] = g[p])
                         => SumFunctionOnSet(g, Policy) = SumFunctionOnSet(f, Policy) + (g[q] - f[q])
          BY SumChanges, ZenonT(30)
        <5> QED  BY <4>2, <4>3, <5>1
      <4>6. SumFunctionOnSet(share, Policy) \in Int
        BY <4>2, SumType
      <4>7. SumFunctionOnSet(share, Policy) + costing[k].read <= Shares
        BY <1>2, <3>3, <4>1 DEF CostingInTurn, SumFunction
      <4> QED  BY <2>2, <2>6, <4>1, <4>4, <4>5, <4>6, <4>7 DEF SumFunction
    <3>4. ASSUME InTurn PROVE \A p \in Policy : allocated'[p] <= Orders * Part(p)'
      <4> SUFFICES ASSUME NEW p \in Policy PROVE allocated[p] <= Orders * Part(p)'
        BY <2>3
      <4>1. CASE p # q
        <5>1. Part(p)' = Part(p)
          BY <1>0, <2>3, <3>1, <4>1 DEF Part
        <5> QED  BY <1>3, <3>4, <5>1
      <4>2. CASE p = q
        <5>1. pool.total \in Nat /\ allocated[p] \in Nat /\ share'[p] \in Nat
          BY <1>0, <3>2
        <5>2. Part(p) = 0
          BY <2>6, <4>2, <5>1 DEF Part
        <5>3. allocated[p] <= 0
          BY <1>3, <3>4, <5>1, <5>2
        <5>4. Part(p)' \in Nat
          BY <2>3, <5>1 DEF Part
        <5>5. Orders * Part(p)' \in Nat
          BY <5>4
        <5> QED  BY <5>1, <5>3, <5>5
      <4> QED  BY <4>1, <4>2
    <3> QED  BY <1>9, <2>1, <2>3, <2>4, <3>2, <3>3, <3>4
  <2> QED  BY <2>5, <2>6
<1>17. CASE insertAllocationResult(k)
  <2> HIDE DEF Costing
  <2> USE <1>17 DEF insertAllocationResult
  <2>1. costing[k].at = "insert"
    OBVIOUS
  <2>2. /\ costing[k] \in Costing /\ costing[k].read \in Nat /\ costing[k].left \in 1..Orders
        /\ costing[k].policy \in Policy /\ k \in desk
    <3>1. costing[k] \in Costing
      BY <1>0
    <3> QED  BY <1>2, <2>1, <3>1 DEF CostingReads, Costing, NoCosting
  <2>3. PICK q \in Policy : q = costing[k].policy
    BY <2>2
  <2>4. PICK row \in Nat : row = share[q] * costing[k].read
    <3>1. share[q] \in Nat
      BY <1>0
    <3> QED  BY <2>2, <3>1
  <2>5. allocated' = [allocated EXCEPT ![q] = @ + row]
    BY <2>3, <2>4
  <2>6. allocated' \in [Policy -> Nat] /\ allocated'[q] = allocated[q] + row
    <3>1. allocated \in [Policy -> Nat] /\ allocated[q] + row \in Nat
      BY <1>0
    <3> QED  BY <2>5, <3>1
  <2> DEFINE c == [costing[k] EXCEPT !.left = costing[k].left - 1,
                       !.at = IF costing[k].left = 1 THEN "allocated" ELSE "insert"]
  <2>7. costing' = [costing EXCEPT ![k] = c]
    BY <1>0
  <2>8. /\ c.policy = q /\ c.read = costing[k].read /\ c.left = costing[k].left - 1
        /\ c.at = IF costing[k].left = 1 THEN "allocated" ELSE "insert"
    BY <2>2, <2>3 DEF Costing
  <2>9. c \in Costing
    <3>1. costing[k].left - 1 \in 0..Orders
      BY <2>2
    <3> QED  BY <2>2, <3>1, CostingType
  <2> HIDE DEF c
  <2>10. (\A j \in Clerk : j # k => costing'[j] = costing[j]) /\ costing'[k] = c
    BY <1>0, <2>7
  <2>11. UNCHANGED <<pool, share, entries>> /\ pool'.total <= entries' /\ entries <= entries'
    BY <1>0
  <2>12. AllocationTypeOK'
    <3>1. costing' \in [Clerk -> Costing]
      BY <1>0, <2>7, <2>9
    <3> QED  BY <1>0, <2>6, <2>11, <3>1
  <2>13. CostingReads(k)'
    BY <2>2, <2>3, <2>8, <2>10 DEF CostingReads
  <2>14. share[q] \in Nat /\ pool.total \in Nat /\ Part(q) \in Nat /\ Part(q)' = Part(q)
    <3>1. share[q] \in Nat /\ pool.total \in Nat
      BY <1>0
    <3> QED  BY <2>11, <3>1 DEF Part
  <2>15. ASSUME InTurn
         PROVE  /\ allocated'[q] = (Orders - (costing[k].left - 1)) * Part(q)
                /\ costing[k].read = pool.total
    <3>1. costing[k].read = pool.total
      BY <1>2, <2>1, <2>15 DEF CostingInTurn
    <3>2. row = Part(q)
      BY <2>4, <3>1 DEF Part
    <3>3. allocated[q] = (Orders - costing[k].left) * Part(q)
      BY <1>2, <2>1, <2>3, <2>15 DEF CostingInTurn
    <3>4. PICK x \in Nat, y \in Int : x = Part(q) /\ y = Orders - costing[k].left
      BY <2>2, <2>14
    <3>5. y * x + x = (y + 1) * x
      BY <3>4
    <3>6. Orders - (costing[k].left - 1) = y + 1
      BY <2>2, <3>4
    <3> QED  BY <2>6, <3>1, <3>2, <3>3, <3>4, <3>5, <3>6
  <2>16. ASSUME InTurn PROVE \A p \in Policy : allocated'[p] <= Orders * Part(p)'
    <3> SUFFICES ASSUME NEW p \in Policy PROVE allocated'[p] <= Orders * Part(p)
      BY <2>11 DEF Part
    <3>1. CASE p # q
      <4>1. allocated'[p] = allocated[p]
        BY <1>0, <2>5, <3>1
      <4> QED  BY <1>3, <2>16, <4>1
    <3>2. CASE p = q
      <4>1. PICK x \in Nat, z \in Int : x = Part(q) /\ z = Orders - (costing[k].left - 1)
        BY <2>2, <2>14
      <4>2. z <= Orders
        BY <2>2, <4>1
      <4>3. z * x <= Orders * x
        BY <4>1, <4>2
      <4> QED  BY <2>15, <2>16, <3>2, <4>1, <4>3
    <3> QED  BY <3>1, <3>2
  <2>17. InTurn => CostingInTurn(k)'
    <3> SUFFICES ASSUME InTurn PROVE CostingInTurn(k)'
      OBVIOUS
    <3> HIDE <1>17 DEF insertAllocationResult
    <3>1. allocated'[q] = (Orders - c.left) * Part(q)'
      BY <2>8, <2>14, <2>15
    <3>2. costing'[k].read = pool'.total /\ costing'[k].policy = q
      BY <2>8, <2>10, <2>11, <2>15
    <3>3. costing'[k].at \in {"insert", "allocated"} /\ costing'[k].left = c.left
      BY <2>8, <2>10
    <3> QED  BY <3>1, <3>2, <3>3 DEF CostingInTurn
  <2>18. InTurn => SumFunction(share)' <= Shares
    BY <1>3, <2>11
  <2> QED  BY <1>9, <2>2, <2>10, <2>11, <2>12, <2>13, <2>16, <2>17, <2>18
<1> QED  BY <1>1, <1>5, <1>6, <1>7, <1>8, <1>10, <1>11, <1>12, <1>13, <1>14, <1>15, <1>16, <1>17

(* Each policy has at most its part of what the pool has, in each order;   *)
(* so together they have at most the whole. *)
LEMMA AllocatedIsBounded == AllocationInv => NeverMoreThanThePool
<1> SUFFICES ASSUME AllocationInv, InTurn
             PROVE  SumFunction(allocated) <= pool.total * Shares * Orders
  BY DEF AllocationInv, NeverMoreThanThePool
<1>1. /\ DOMAIN allocated = Policy /\ DOMAIN share = Policy
      /\ \A p \in Policy : allocated[p] \in Int /\ share[p] \in Int
      /\ pool.total \in Nat /\ Orders \in Nat /\ Shares \in Nat /\ IsFiniteSet(Policy)
  BY AllocationAssumption DEF AllocationInv, AllocationTypeOK
<1>2. PICK c \in Nat : c = Orders * pool.total
  BY <1>1
<1>3. \A p \in Policy : allocated[p] <= c * share[p]
  <2> SUFFICES ASSUME NEW p \in Policy PROVE allocated[p] <= c * share[p]
    OBVIOUS
  <2>1. allocated[p] <= Orders * (share[p] * pool.total)
    BY DEF AllocationInv, Part
  <2>2. Orders * (share[p] * pool.total) = (Orders * pool.total) * share[p]
    BY <1>1
  <2> QED  BY <1>1, <1>2, <2>1, <2>2
<1>4. SumFunctionOnSet(allocated, Policy) <= c * SumFunctionOnSet(share, Policy)
  BY <1>1, <1>3, SumBounded
<1>5. SumFunctionOnSet(allocated, Policy) \in Int /\ SumFunctionOnSet(share, Policy) \in Int
  BY <1>1, SumType
<1>6. SumFunctionOnSet(share, Policy) <= Shares
  BY <1>1 DEF AllocationInv, SumFunction
<1>7. c * SumFunctionOnSet(share, Policy) <= c * Shares
  BY <1>1, <1>2, <1>5, <1>6
<1>8. c * Shares = pool.total * Shares * Orders
  BY <1>1, <1>2
<1>9. c * Shares \in Int /\ c * SumFunctionOnSet(share, Policy) \in Int
  BY <1>1, <1>2, <1>5
<1> QED  BY <1>1, <1>4, <1>5, <1>7, <1>8, <1>9 DEF SumFunction

(* The invariant of the allocation office holds. *)
LEMMA AllocationAlways == Spec => []AllocationInv
<1>1. Init => AllocationInv
  BY AllocationBegins DEF Init
<1>2. AllocationInv /\ [Next]_vars => AllocationInv'
  <2> SUFFICES ASSUME AllocationInv, [Next]_vars PROVE AllocationInv'
    OBVIOUS
  <2>1. CASE AllocationNext /\ UNCHANGED desk
    BY <2>1, AllocationStep
  <2>2. CASE UNCHANGED <<allocationVars, desk>>
    BY <2>2 DEF allocationVars, AllocationInv, AllocationTypeOK, CostingReads, CostingInTurn,
                Part, InTurn
  <2> QED  BY <2>1, <2>2 DEF Next, vars
<1>3. QED
  BY <1>1, <1>2, PTL DEF Spec

(* The policies of a pool never allocate more than it has, when requests   *)
(* come in turn, and the pool never shows more than its entries            *)
(* (cost.service.ts:76-82, 166-178).                                       *)
THEOREM PoolNotExceeded == Spec => []NeverMoreThanThePool
BY AllocatedIsBounded, AllocationAlways, PTL

=============================================================================
