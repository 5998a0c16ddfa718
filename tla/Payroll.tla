------------------------------- MODULE Payroll -------------------------------
(***************************************************************************)
(* Payroll: one employee's commissions and payslips (hr.service.ts).  A    *)
(* payslip sums the commissions that are pending; they are marked as paid  *)
(* by a later statement, which marks whatever is pending by then.          *)
(***************************************************************************)
EXTENDS Desk

CONSTANTS Commission, Month

VARIABLES
  commission,   \* its status
  payslips,     \* the rows of payroll_entry: month, and the commissions summed
  payroll       \* each clerk's generatePayroll

payrollVars == <<commission, payslips, payroll>>

NotPaying == [at |-> "idle", month |-> {}, sum |-> {}]

PayrollTypeOK ==
  /\ commission \in [Commission -> {"unearned", "pending", "paid"}]
  /\ payslips \subseteq [month : Month, sum : SUBSET Commission]
  /\ payroll \in [Clerk -> {NotPaying} \cup
                    [at : {"list", "insert", "mark"}, month : Month, sum : SUBSET Commission]]

PayrollInit ==
  /\ commission = [c \in Commission |-> "unearned"]
  /\ payslips = {}
  /\ payroll = [k \in Clerk |-> NotPaying]

earnCommission(k, c) ==
  /\ k \in desk /\ payroll[k] = NotPaying
  /\ commission[c] = "unearned"
  /\ commission' = [commission EXCEPT ![c] = "pending"]
  /\ UNCHANGED <<payslips, payroll>>

PayslipOf(m) == {p \in payslips : p.month = m}

(* generatePayroll: refused when the month has a payslip *)
generatePayroll(k, m) ==
  /\ k \in desk /\ payroll[k] = NotPaying
  /\ PayslipOf(m) = {}
  /\ payroll' = [payroll EXCEPT ![k] = [at |-> "list", month |-> m, sum |-> {}]]
  /\ UNCHANGED <<commission, payslips>>

(* Mutant: the commissions are claimed before the payslip is inserted *)
ClaimsFirst(k) ==
  /\ payroll[k].at = "list"
  /\ payroll' = [payroll EXCEPT ![k].at = "insert",
                                ![k].sum = {c \in Commission : commission[c] = "pending"}]
  /\ commission' = [c \in Commission |->
                      IF commission[c] = "pending" THEN "paid" ELSE commission[c]]
  /\ UNCHANGED payslips

listPendingCommissionsForPeriod(k) ==
  /\ payroll[k].at = "list"
  /\ payroll' = [payroll EXCEPT ![k].at = "insert",
                                ![k].sum = {c \in Commission : commission[c] = "pending"}]
  /\ UNCHANGED <<commission, payslips>>

(* UNIQUE (employee, year, month) refuses a second payslip.  Nothing is    *)
(* marked when the sum was empty.                                          *)
insertPayrollEntry(k) ==
  /\ payroll[k].at = "insert"
  /\ IF PayslipOf(payroll[k].month) # {}
     THEN /\ payroll' = [payroll EXCEPT ![k] = NotPaying]
          /\ UNCHANGED payslips
     ELSE /\ payslips' = payslips \cup {[month |-> payroll[k].month, sum |-> payroll[k].sum]}
          /\ payroll' = IF payroll[k].sum = {}
                        THEN [payroll EXCEPT ![k] = NotPaying]
                        ELSE [payroll EXCEPT ![k].at = "mark"]
  /\ UNCHANGED commission

markCommissionsPaid(k) ==
  /\ payroll[k].at = "mark"
  /\ commission' = [c \in Commission |->
                      IF commission[c] = "pending" THEN "paid" ELSE commission[c]]
  /\ payroll' = [payroll EXCEPT ![k] = NotPaying]
  /\ UNCHANGED payslips

PayrollDies(k) ==
  /\ payroll[k] # NotPaying
  /\ payroll' = [payroll EXCEPT ![k] = NotPaying]
  /\ UNCHANGED <<commission, payslips>>

PayrollNext ==
  \E k \in Clerk :
       \/ \E c \in Commission : earnCommission(k, c)
       \/ \E m \in Month : generatePayroll(k, m)
       \/ listPendingCommissionsForPeriod(k)
       \/ insertPayrollEntry(k)
       \/ markCommissionsPaid(k)
       \/ PayrollDies(k)

-----------------------------------------------------------------------------
(* A commission marked as paid is on a payslip, whatever was refused and   *)
(* wherever a run died.  This needs requests in turn: markCommissionsPaid  *)
(* also marks what was earned, or summed by others, after the list was     *)
(* read.  (A payslip of a run that died may be repeated by the next one.)  *)
PaidIsOnAPayslip ==
  InTurn => \A c \in Commission :
              commission[c] = "paid" => \E p \in payslips : c \in p.sum

=============================================================================
