------------------------------ MODULE MCJournal ------------------------------
(* Small instances of Journal for TLC. *)
EXTENDS Journal, TLC

CONSTANTS e1, e2, e3, c1, c2, a1, a2, a3, k1

On(a, debit, credit) == [account |-> a, debit |-> debit, credit |-> credit]
Entered(p, year, key, lines) ==
  [period |-> p, named |-> None, filed |-> FALSE, year |-> year, key |-> key, lines |-> lines]

(* 10 = 10, on two accounts; with Tolerance 1, OffByTwo does not post *)
Even == <<On(a1, 10, 0), On(a2, 0, 10)>>
OffByTwo == <<On(a1, 10, 0), On(a2, 0, 8)>>
Split == <<On(a1, 10, 0), On(a2, 0, 9), On(a1, 0, 1)>>
TwoSided == <<On(a1, 10, 10), On(a2, 0, 10)>>

(* Posting: entries that balance, that do not, and that are refused *)
PostedInput == {Entered(None, 2026, None, OffByTwo), Entered(None, 2025, None, Split),
                Entered(None, 2026, None, TwoSided)}

EvenInput == {Entered(None, 2026, None, Even)}
FirstPeriodInput == {Entered(1, 2026, None, Even)}

(* In a period, which may be shut, or in none, under a key; naming the     *)
(* period without the fiscal year, and with it                             *)
MixedInput ==
  {Entered(1, 2026, None, Even), Entered(None, 2026, k1, Even)}
    \cup {[Entered(1, 2026, None, Even) EXCEPT !.named = 1, !.filed = f] : f \in BOOLEAN}

Interchangeable == Permutations(Entry) \cup Permutations(Call)

=============================================================================
