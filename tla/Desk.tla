-------------------------------- MODULE Desk --------------------------------
(***************************************************************************)
(* Desk: the clerks whose requests the office modules (Payroll, Tranches,  *)
(* Depreciation, ...) run, one request of each at a time.  When one clerk  *)
(* is at work, requests come in turn; when several are, a request's        *)
(* statements interleave with those of the others, because no handler of   *)
(* the repository opens a transaction.                                     *)
(***************************************************************************)
CONSTANT Clerk

VARIABLE desk   \* the clerks at work

DeskInit == desk = Clerk \/ \E c \in Clerk : desk = {c}

InTurn == \A c, d \in desk : c = d

=============================================================================
