-------------------------- MODULE DocumentLifecycle --------------------------
(***************************************************************************)
(* What posting promises of a financial document (an invoice, a payment, a *)
(* note, a bank transfer), without saying how: its effect on the ledger    *)
(* happens once, and a document whose accounts are always known is marked  *)
(* as posted only after that.                                              *)
(*                                                                         *)
(* What it does not promise: that a document is marked once its effect has *)
(* happened, or that a mark is final.  See Documents for why.              *)
(***************************************************************************)
CONSTANTS
  Doc,          \* the documents
  NeedsMapping  \* those posted without a journal entry when the company's
                \* configuration names no accounts for them

VARIABLES
  doc,    \* the document's status
  ledger  \* whether the general ledger shows it

Init ==
  /\ doc = [d \in Doc |-> "draft"]
  /\ ledger = [d \in Doc |-> "without"]

Book(d) ==
  /\ ledger[d] = "without"
  /\ ledger' = [ledger EXCEPT ![d] = "with"]
  /\ UNCHANGED doc

MarkPosted(d) ==
  /\ ledger[d] = "with" \/ d \in NeedsMapping
  /\ doc' = [doc EXCEPT ![d] = "posted"]
  /\ UNCHANGED ledger

MarkCancelled(d) ==
  /\ doc' = [doc EXCEPT ![d] = "cancelled"]
  /\ UNCHANGED ledger

Next == \E d \in Doc : Book(d) \/ MarkPosted(d) \/ MarkCancelled(d)

Spec == Init /\ [][Next]_<<doc, ledger>>

=============================================================================
