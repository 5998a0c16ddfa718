----------------------------- MODULE MCDocuments -----------------------------
(* Small instances of Documents for TLC: one purchase invoice (which may   *)
(* lack accounts) and one bank transfer.                                   *)
EXTENDS Documents, TLC

CONSTANTS e1, e2, e3, t1, t2, clerk, a1, a2, a3, k1, k2, invoice, transfer

On(a, debit, credit) == [account |-> a, debit |-> debit, credit |-> credit]
Dated(p, key, lines) ==
  [period |-> p, named |-> None, filed |-> FALSE, year |-> 2026, key |-> key, lines |-> lines]

(* Net 10, tax 4, payable 14 *)
Taxed == <<On(a1, 10, 0), On(a3, 4, 0), On(a2, 0, 14)>>
(* The tax line dropped: the entry does not balance *)
Untaxed == <<On(a1, 10, 0), On(a2, 0, 14)>>
Moved == <<On(a1, 10, 0), On(a2, 0, 10)>>

Keys == [d \in Doc |-> IF d = invoice THEN k1 ELSE k2]
InFirstPeriod == [d \in Doc |-> IF d = invoice THEN {Dated(1, k1, Taxed), Dated(1, k1, Untaxed)}
                                              ELSE {Dated(1, k2, Moved)}]
Undated == [d \in Doc |-> IF d = invoice THEN {Dated(None, k1, Moved), Dated(None, k1, Untaxed)}
                                        ELSE {Dated(None, k2, Moved)}]
Handmade == {Dated(None, None, Moved)}
AllInput == ManualInput \cup UNION {Posting[d] : d \in Doc}

Interchangeable == Permutations(Entry) \cup Permutations(Task)

=============================================================================
