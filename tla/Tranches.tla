------------------------------ MODULE Tranches ------------------------------
(***************************************************************************)
(* Tranches: an amount used up in several requests: a customer's retention *)
(* (releaseRetention), a prepaid expense (amortizeMonth) and a warranty    *)
(* provision (utilizeProvision).  Each reads the amount used so far, and   *)
(* writes the sum it computed from it, with a status, by id.               *)
(***************************************************************************)
EXTENDS Desk, Naturals

CONSTANT Total   \* units of every fund

ASSUME TranchesAssumption == Total \in Nat \ {0}

Fund == {"retention", "prepaid", "provision"}

VARIABLES
  fund,     \* the row: what is used up, and whether its status says all of it is
  paidOut,  \* what the answers to the callers add up to (of the retention)
  tranche   \* each clerk's request

trancheVars == <<fund, paidOut, tranche>>

NoTranche == [fund |-> "none", amount |-> 0, used |-> 0]

TranchesTypeOK ==
  /\ fund \in [Fund -> [used : 0..Total, spent : BOOLEAN]]
  /\ paidOut \in 0..(Total + 1)
  /\ tranche \in [Clerk -> {NoTranche} \cup
                    [fund : Fund, amount : 1..Total, used : 0..Total]]

TranchesInit ==
  /\ fund = [f \in Fund |-> [used |-> 0, spent |-> FALSE]]
  /\ paidOut = 0
  /\ tranche = [k \in Clerk |-> NoTranche]

AtMost(n, limit) == IF n < limit THEN n ELSE limit

Reads(k, f, amount, used) ==
  /\ k \in desk /\ tranche[k] = NoTranche
  /\ tranche' = [tranche EXCEPT ![k] = [fund |-> f, amount |-> amount, used |-> used]]
  /\ UNCHANGED <<fund, paidOut>>

(* Mutant: the status alone is checked, and the sum is capped *)
ChecksStatusOnly(k, amount) ==
  /\ ~ fund["retention"].spent
  /\ Reads(k, "retention", amount, AtMost(fund["retention"].used + amount, Total))

(* Refused unless active, and when more than remains is asked for *)
releaseRetention(k, amount) ==
  /\ ~ fund["retention"].spent
  /\ amount <= Total - fund["retention"].used
  /\ Reads(k, "retention", amount, fund["retention"].used + amount)

(* Mutant: the sum is not capped *)
AmortizesPast(k, amount) == Reads(k, "prepaid", amount, fund["prepaid"].used + amount)

(* No status is checked; the sum is capped, what is asked for is not *)
amortizeMonth(k, amount) ==
  Reads(k, "prepaid", amount, AtMost(fund["prepaid"].used + amount, Total))
utilizeProvision(k, amount) ==
  Reads(k, "provision", amount, AtMost(fund["provision"].used + amount, Total))

(* The UPDATE.  paidOut stops counting at one unit too much. *)
Writes(k) ==
  LET t == tranche[k] IN
  /\ t # NoTranche
  /\ fund' = [fund EXCEPT ![t.fund] = [used |-> t.used, spent |-> t.used = Total]]
  /\ paidOut' = IF t.fund = "retention" THEN AtMost(paidOut + t.amount, Total + 1) ELSE paidOut
  /\ tranche' = [tranche EXCEPT ![k] = NoTranche]

TrancheDies(k) ==
  /\ tranche[k] # NoTranche
  /\ tranche' = [tranche EXCEPT ![k] = NoTranche]
  /\ UNCHANGED <<fund, paidOut>>

TranchesNext ==
  \E k \in Clerk :
    \/ \E amount \in 1..Total :
         releaseRetention(k, amount) \/ amortizeMonth(k, amount) \/ utilizeProvision(k, amount)
    \/ Writes(k)
    \/ TrancheDies(k)

-----------------------------------------------------------------------------
(* Releases in turn never pay out more than was withheld, and a retention  *)
(* is marked as released when all of it was: of two at once, the second    *)
(* write loses the first, and what it paid can be released again           *)
(* (finance.service.ts:124-142).                                           *)
NeverMoreThanWithheld ==
  InTurn => /\ paidOut <= Total
            /\ fund["retention"].spent <=> paidOut = Total

=============================================================================
