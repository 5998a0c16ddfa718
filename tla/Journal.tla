------------------------------- MODULE Journal -------------------------------
(***************************************************************************)
(* The general ledger's journal: AccountingService and the tables          *)
(* journal_entry, journal_line, accounting_period and chart_of_accounts    *)
(* it keeps.                                                               *)
(*                                                                         *)
(* The code opens no database transaction.  Every awaited statement        *)
(* commits by itself, so each one is an action here, and other requests    *)
(* run between any two of them.  A request may also die between two        *)
(* statements (a statement is refused, the process stops): what it wrote   *)
(* so far stays.                                                           *)
(*                                                                         *)
(* Amounts are integers, in the unit of numeric(12,4); descriptions,       *)
(* parties, cost centers and the company are left out.                     *)
(***************************************************************************)
EXTENDS Integers, Sequences, FiniteSets

CONSTANTS
  Entry,        \* the row ids createEntry may draw (randomUUID)
  Call,         \* concurrent calls of postEntry and cancelEntry
  Account,      \* the accounts the chart may hold
  FirstAccount, \* the accounts it holds at the start
  Periods,      \* how many periods a fiscal year has (12 in the code)
  Year,         \* calendar years, as printed in an entry number
  Key,          \* idempotency keys
  Input,        \* the requests clients and other services send to createEntry
  Tolerance,    \* the largest imbalance that still posts (0.0001 in the code)
  None          \* SQL null

Period == 1..Periods

(* Of a request, period is the one its entry date falls in.  A caller of   *)
(* the service may also fill periodId (named) and fiscalYearId (filed).    *)
Line == [account : Account, debit : Int, credit : Int]

ASSUME ChartAssumption == FirstAccount \subseteq Account
ASSUME PeriodsAssumption == Periods \in Nat
ASSUME NoneAssumption ==
  None \notin Entry \cup Key /\ (\A p \in Period : p # None) /\ (\A in \in Input : in # None)
ASSUME InputAssumption ==
  Input \subseteq [period : {None} \cup Period, named : {None} \cup Period, filed : BOOLEAN,
                   year : Year, key : {None} \cup Key, lines : Seq(Line)]
ASSUME ToleranceAssumption == Tolerance \in Nat

VARIABLES
  period,    \* accounting_period.status, "absent" until the row is inserted
  account,   \* chart_of_accounts.is_leaf, and how far createAccount is
  creating,  \* the local state of the createEntry call that owns each row id
  row,       \* journal_entry.status and the number of its journal_line rows
  call       \* the local state of each postEntry or cancelEntry call

vars == <<period, account, creating, row, call>>

-----------------------------------------------------------------------------
(* Types *)

PeriodStatus == {"absent", "open", "closed", "locked"}
AccountState == {"absent", "opening", "leaf", "parent"}
CreateStep == {"unused", "accounts", "header", "lines", "created", "failed"}
RowStatus == {"none", "draft", "posted", "cancelled"}
CallStep == {"idle", "lines", "post", "cancel"}

Creating == [step : CreateStep, input : {None} \cup Input, period : {None} \cup Period,
             checked : Nat, sequence : Nat]

(* lines: how many journal_line rows the entry has, always a prefix of its  *)
(* input.  covered: how many of them the last successful balance check      *)
(* added up (a history variable, no column of the table).                   *)
Row == [status : RowStatus, lines : Nat, covered : Nat]

CallState == [at : CallStep, entry : {None} \cup Entry, read : Nat]

TypeOK ==
  /\ period \in [Period -> PeriodStatus]
  /\ account \in [Account -> AccountState]
  /\ creating \in [Entry -> Creating]
  /\ row \in [Entry -> Row]
  /\ call \in [Call -> CallState]

-----------------------------------------------------------------------------
(* Queries *)

Rows == {e \in Entry : row[e].status # "none"}

RowsIn(p) == {e \in Rows : creating[e].period = p}

Lines(e) == creating[e].input.lines

(* Debit minus credit over the first n lines *)
Net(lines) ==
  LET net[n \in 0..Len(lines)] ==
        IF n = 0 THEN 0 ELSE net[n - 1] + lines[n].debit - lines[n].credit
  IN net

Balanced(lines, n) == Net(lines)[n] <= Tolerance /\ -Net(lines)[n] <= Tolerance

(* findFiscalYearByDate and findPeriodByDate.  Nothing is looked up for a  *)
(* request that names both its fiscal year and its period; a date outside  *)
(* every fiscal year, or in a month whose period row is not there yet,     *)
(* finds none; and then no status is looked at.                            *)
LooksUp(in) == ~(in.filed /\ in.named # None)

PeriodFound(in) ==
  IF LooksUp(in) /\ in.period # None /\ period[in.period] # "absent" THEN in.period ELSE None

(* The id stored with the entry: the one found, else the one named *)
PeriodStored(in) == IF PeriodFound(in) # None THEN PeriodFound(in) ELSE in.named

ValidAmounts(line) ==
  /\ line.debit >= 0 /\ line.credit >= 0
  /\ ~(line.debit > 0 /\ line.credit > 0)
  /\ ~(line.debit = 0 /\ line.credit = 0)

(* Mutant: counts the dated entries only *)
NextDatedSequence == Cardinality({e \in Rows : creating[e].period # None}) + 1

NextSequence == Cardinality(Rows) + 1

(* The UNIQUE columns entry_number (JE-<year>-<sequence>) and              *)
(* idempotency_key (where nulls do not clash)                              *)
SameNumber(e, f) ==
  /\ creating[e].input.year = creating[f].input.year
  /\ creating[e].sequence = creating[f].sequence

(* The foreign key period_id *)
PeriodMissing(e) == creating[e].period # None /\ period[creating[e].period] = "absent"

SameKey(e, f) == creating[e].input.key = creating[f].input.key /\ creating[e].input.key # None

NumberTaken(e) == \E f \in Rows : SameNumber(e, f)

(* Mutant: no UNIQUE constraint on the key *)
KeyUnchecked(e) == FALSE

KeyTaken(e) == \E f \in Rows : SameKey(e, f)

-----------------------------------------------------------------------------
Fresh == [step |-> "unused", input |-> None, period |-> None, checked |-> 0, sequence |-> 0]
NoRow == [status |-> "none", lines |-> 0, covered |-> 0]
Idle == [at |-> "idle", entry |-> None, read |-> 0]

Init ==
  /\ period = [p \in Period |-> "absent"]
  /\ account = [a \in Account |-> IF a \in FirstAccount THEN "leaf" ELSE "absent"]
  /\ creating = [e \in Entry |-> Fresh]
  /\ row = [e \in Entry |-> NoRow]
  /\ call = [c \in Call |-> Idle]

-----------------------------------------------------------------------------
(* Fiscal years and periods *)

(* One turn of createFiscalYear's loop: the periods of the year appear one *)
(* at a time, in order, and stop where the request stops.                  *)
InsertPeriod(p) ==
  /\ period[p] = "absent"
  /\ \A q \in Period : q < p => period[q] # "absent"
  /\ period' = [period EXCEPT ![p] = "open"]
  /\ UNCHANGED <<account, creating, row, call>>

(* The period screen: from any status to any other *)
SetPeriodStatus(p, s) ==
  /\ period[p] # "absent"
  /\ period' = [period EXCEPT ![p] = s]
  /\ UNCHANGED <<account, creating, row, call>>

(* The month-end closing: its checks only ask that the period exists *)
ClosePeriod(p) == SetPeriodStatus(p, "closed")

ReopenPeriod(p) == SetPeriodStatus(p, "open")

-----------------------------------------------------------------------------
(* Chart of accounts: createAccount *)

OpenTopAccount(a) ==
  /\ account[a] = "absent"
  /\ account' = [account EXCEPT ![a] = "leaf"]
  /\ UNCHANGED <<period, creating, row, call>>

(* With a parent, the parent stops being a leaf first... *)
MarkAsParent(a, parent) ==
  /\ account[a] = "absent"
  /\ account[parent] \in {"leaf", "parent"}
  /\ account' = [account EXCEPT ![a] = "opening", ![parent] = "parent"]
  /\ UNCHANGED <<period, creating, row, call>>

(* ...and the child is inserted next, as a leaf *)
InsertAccount(a) ==
  /\ account[a] = "opening"
  /\ account' = [account EXCEPT ![a] = "leaf"]
  /\ UNCHANGED <<period, creating, row, call>>

OpenAccountFails(a) ==
  /\ account[a] = "opening"
  /\ account' = [account EXCEPT ![a] = "absent"]
  /\ UNCHANGED <<period, creating, row, call>>

-----------------------------------------------------------------------------
(* createEntry *)

(* Mutant: the period's status is not looked at *)
TooShort(in) == Len(in.lines) < 2

Refused(in) ==
  \/ Len(in.lines) < 2
  \/ PeriodFound(in) # None /\ period[PeriodFound(in)] # "open"

(* The input checks and the look-up of the period.  A period that was      *)
(* looked up and is not open refuses the request, which then leaves no     *)
(* trace.                                                                  *)
BeginEntry(e, in) ==
  /\ creating[e].step = "unused"
  /\ ~Refused(in)
  /\ creating' = [creating EXCEPT ![e] =
                    [Fresh EXCEPT !.step = "accounts", !.input = in, !.period = PeriodStored(in)]]
  /\ UNCHANGED <<period, account, row, call>>

(* Mutants of CheckLine: one half of the check each *)
CheckAccount(e) ==
  /\ creating[e].step = "accounts"
  /\ creating[e].checked < Len(Lines(e))
  /\ account[Lines(e)[creating[e].checked + 1].account] = "leaf"
  /\ creating' = [creating EXCEPT ![e].checked = @ + 1]
  /\ UNCHANGED <<period, account, row, call>>

CheckAmounts(e) ==
  /\ creating[e].step = "accounts"
  /\ creating[e].checked < Len(Lines(e))
  /\ ValidAmounts(Lines(e)[creating[e].checked + 1])
  /\ creating' = [creating EXCEPT ![e].checked = @ + 1]
  /\ UNCHANGED <<period, account, row, call>>

(* One turn of the loop over the lines: amounts, then the account row *)
CheckLine(e) ==
  /\ creating[e].step = "accounts"
  /\ creating[e].checked < Len(Lines(e))
  /\ LET line == Lines(e)[creating[e].checked + 1]
         accepted == ValidAmounts(line) /\ account[line.account] = "leaf"
     IN creating' = IF accepted THEN [creating EXCEPT ![e].checked = @ + 1]
                                ELSE [creating EXCEPT ![e].step = "failed"]
  /\ UNCHANGED <<period, account, row, call>>

(* Mutant: does not wait for the line checks *)
CountUnchecked(e) ==
  /\ creating[e].step = "accounts"
  /\ creating' = [creating EXCEPT ![e].step = "header", ![e].sequence = NextSequence]
  /\ UNCHANGED <<period, account, row, call>>

CountEntries(e) ==
  /\ creating[e].step = "accounts"
  /\ creating[e].checked = Len(Lines(e))
  /\ creating' = [creating EXCEPT ![e].step = "header", ![e].sequence = NextSequence]
  /\ UNCHANGED <<period, account, row, call>>

(* Mutant: tries again with the number it has, until that is free *)
InsertHeaderRetries(e) ==
  /\ creating[e].step = "header"
  /\ ~NumberTaken(e) /\ ~KeyTaken(e) /\ ~PeriodMissing(e)
  /\ creating' = [creating EXCEPT ![e].step = "lines"]
  /\ row' = [row EXCEPT ![e].status = "draft"]
  /\ UNCHANGED <<period, account, call>>

(* insertEntry, first statement: the header as a draft, unless a UNIQUE    *)
(* column or the foreign key of its period refuses it                      *)
InsertHeader(e) ==
  /\ creating[e].step = "header"
  /\ IF NumberTaken(e) \/ KeyTaken(e) \/ PeriodMissing(e)
     THEN /\ creating' = [creating EXCEPT ![e].step = "failed"]
          /\ UNCHANGED row
     ELSE /\ creating' = [creating EXCEPT ![e].step = "lines"]
          /\ row' = [row EXCEPT ![e].status = "draft"]
  /\ UNCHANGED <<period, account, call>>

(* insertEntry, one turn of its loop; the call returns after the last line *)
InsertLine(e) ==
  /\ creating[e].step = "lines"
  /\ row[e].lines < Len(Lines(e))
  /\ row' = [row EXCEPT ![e].lines = @ + 1]
  /\ creating' = IF row[e].lines + 1 = Len(Lines(e))
                 THEN [creating EXCEPT ![e].step = "created"]
                 ELSE creating
  /\ UNCHANGED <<period, account, call>>

InFlight == {"accounts", "header", "lines"}

CreateEntryFails(e) ==
  /\ creating[e].step \in InFlight
  /\ creating' = [creating EXCEPT ![e].step = "failed"]
  /\ UNCHANGED <<period, account, row, call>>

-----------------------------------------------------------------------------
(* postEntry and cancelEntry *)

(* findEntryById reads the header in one statement and the lines in the    *)
(* next; only the first sees the status                                    *)
PostReadsHeader(c, e) ==
  /\ call[c] = Idle
  /\ row[e].status = "draft"
  /\ call' = [call EXCEPT ![c] = [at |-> "lines", entry |-> e, read |-> 0]]
  /\ UNCHANGED <<period, account, creating, row>>

(* Mutants: posts without the balance check; waits for the balance *)
ReadsLinesUnchecked(c) ==
  /\ call[c].at = "lines"
  /\ call' = [call EXCEPT ![c].at = "post", ![c].read = row[call[c].entry].lines]
  /\ UNCHANGED <<period, account, creating, row>>

ReadsLinesUntilBalanced(c) ==
  /\ call[c].at = "lines"
  /\ Balanced(Lines(call[c].entry), row[call[c].entry].lines)
  /\ ReadsLinesUnchecked(c)

PostReadsLines(c) ==
  /\ call[c].at = "lines"
  /\ LET e == call[c].entry
         n == row[e].lines
     IN call' = [call EXCEPT ![c] = IF Balanced(Lines(e), n)
                                    THEN [at |-> "post", entry |-> e, read |-> n]
                                    ELSE Idle]
  /\ UNCHANGED <<period, account, creating, row>>

(* setEntryStatus: by id, whatever the status is by now *)
PostWrites(c) ==
  /\ call[c].at = "post"
  /\ row' = [row EXCEPT ![call[c].entry].status = "posted",
                      ![call[c].entry].covered = call[c].read]
  /\ call' = [call EXCEPT ![c] = Idle]
  /\ UNCHANGED <<period, account, creating>>

(* Mutant: cancels posted entries too *)
CancelReadsAny(c, e) ==
  /\ call[c] = Idle
  /\ row[e].status # "none"
  /\ call' = [call EXCEPT ![c] = [at |-> "cancel", entry |-> e, read |-> 0]]
  /\ UNCHANGED <<period, account, creating, row>>

CancelReads(c, e) ==
  /\ call[c] = Idle
  /\ row[e].status \in {"draft", "cancelled"}
  /\ call' = [call EXCEPT ![c] = [at |-> "cancel", entry |-> e, read |-> 0]]
  /\ UNCHANGED <<period, account, creating, row>>

CancelWrites(c) ==
  /\ call[c].at = "cancel"
  /\ row' = [row EXCEPT ![call[c].entry].status = "cancelled"]
  /\ call' = [call EXCEPT ![c] = Idle]
  /\ UNCHANGED <<period, account, creating>>

CallFails(c) ==
  /\ call[c].at # "idle"
  /\ call' = [call EXCEPT ![c] = Idle]
  /\ UNCHANGED <<period, account, creating, row>>

-----------------------------------------------------------------------------
CreateEntryStep(e) == CheckLine(e) \/ CountEntries(e) \/ InsertHeader(e) \/ InsertLine(e)
CallStepOf(c) == PostReadsLines(c) \/ PostWrites(c) \/ CancelWrites(c)

PeriodNext ==
  \E p \in Period :
    \/ InsertPeriod(p)
    \/ \E s \in PeriodStatus \ {"absent"} : SetPeriodStatus(p, s)
    \/ ClosePeriod(p)
    \/ ReopenPeriod(p)

AccountNext ==
  \E a \in Account :
    \/ OpenTopAccount(a)
    \/ \E parent \in Account : MarkAsParent(a, parent)
    \/ InsertAccount(a)
    \/ OpenAccountFails(a)

CreateNext ==
  \E e \in Entry :
    \/ \E in \in Input : BeginEntry(e, in)
    \/ CreateEntryStep(e)
    \/ CreateEntryFails(e)

CallNext ==
  \E c \in Call :
    \/ \E e \in Entry : PostReadsHeader(c, e) \/ CancelReads(c, e)
    \/ CallStepOf(c)
    \/ CallFails(c)

Next == PeriodNext \/ AccountNext \/ CreateNext \/ CallNext

(* A request that was accepted runs to its end: Node resumes it after each *)
(* statement.  Nothing makes a client send one, or a period close.         *)
Fairness ==
  /\ \A e \in Entry : WF_vars(CreateEntryStep(e))
  /\ \A c \in Call : WF_vars(CallStepOf(c))

Spec == Init /\ [][Next]_vars /\ Fairness

-----------------------------------------------------------------------------
(* Properties *)

(* Every sequence in use is at most the number of rows.  The sequence is   *)
(* one more than a count taken earlier, rows are never deleted, and the    *)
(* new row makes up for the one more.                                      *)
NumberWithinCount == \A e \in Rows : creating[e].sequence <= Cardinality(Rows)

(* createEntry (count + 1, then a UNIQUE column): a request in whose way   *)
(* no other came between its count and its insert is never refused for     *)
(* its number.  Only requests that overlap can collide.                    *)
LoneNumberIsFree ==
  \A e \in Entry :
    creating[e].step = "header" /\ creating[e].sequence = NextSequence => ~NumberTaken(e)

(* createEntry's line loop runs before the insert, while other requests    *)
(* turn leaves into parents: every entry that has a row has two lines or   *)
(* more, each on an account of the chart and on one side only, and never   *)
(* more line rows than it was sent.                                        *)
RowsAreWellFormed ==
  \A e \in Rows :
    /\ creating[e].input \in Input
    /\ Len(Lines(e)) >= 2
    /\ row[e].lines <= Len(Lines(e))
    /\ \A n \in 1..Len(Lines(e)) :
         /\ ValidAmounts(Lines(e)[n])
         /\ account[Lines(e)[n].account] \in {"leaf", "parent"}

(* postEntry decides on lines it read earlier: the lines that it added up  *)
(* are still there when the entry is posted, and they balance.  (Others    *)
(* may have followed: see PostedIsComplete.)                               *)
PostedWasBalanced ==
  \A e \in Entry :
    row[e].status = "posted" =>
      row[e].covered <= row[e].lines /\ Balanced(Lines(e), row[e].covered)

IsShut(p) == period[p] \in {"closed", "locked"}

(* Requests on their way into period p, and those of them that left it to  *)
(* the look-up to find p                                                   *)
Admitted(p) == {e \in Entry : creating[e].step \in InFlight /\ creating[e].period = p}

AdmittedByDate(p) == {e \in Admitted(p) : creating[e].input.named # p}

(* Closing a period (createEntry reads its status before it writes): while *)
(* the period stays shut, the only requests admitted to it are those whose *)
(* period no look-up found, because they name p themselves; and a new      *)
(* entry in it can only come from a request admitted before.               *)
ClosedPeriodDrains ==
  [][\A p \in Period :
       IsShut(p) /\ IsShut(p)' =>
         /\ \A e \in Admitted(p)' \ Admitted(p) :
              PeriodFound(creating'[e].input) = None /\ creating'[e].input.named = p
         /\ RowsIn(p)' \ RowsIn(p) \subseteq Admitted(p)]_vars

(* A period that is shut for good eventually has no request left in it     *)
(* that came by its date: what is entered in it from then on comes from    *)
(* callers that name it.                                                   *)
ClosedPeriodSettles ==
  \A p \in Period : <>[]IsShut(p) => <>[](AdmittedByDate(p) = {})

(* Entries whose check found account a to be a leaf *)
Uses(a) == {e \in Entry : \E n \in 1..creating[e].checked : Lines(e)[n].account = a}

(* createAccount marks the parent before it inserts the child: a parent    *)
(* never becomes a leaf again, and from the mark on no further entry       *)
(* passes the check on it.                                                 *)
ParentAccountDrains ==
  [][\A a \in Account :
       account[a] = "parent" => account'[a] = "parent" /\ Uses(a)' \subseteq Uses(a)]_vars

(* postEntry and cancelEntry, one call at a time: what is posted stays     *)
(* posted and what is cancelled stays cancelled.                           *)
SettledIsFinal ==
  [][\A e \in Entry :
       row[e].status \in {"posted", "cancelled"} => row'[e].status = row[e].status]_vars

(* Every call of postEntry or cancelEntry comes to its end, whatever the   *)
(* other requests do to the entry meanwhile.                               *)
CallsReturn == \A c \in Call : call[c].at # "idle" ~> call[c].at = "idle"

-----------------------------------------------------------------------------
(* The inductive invariant behind these properties, by parts *)

(* What a createEntry call has established at each step *)
CreatingInv ==
  \A e \in Entry : creating[e].step # "unused" =>
    /\ creating[e].input \in Input
    /\ Len(Lines(e)) >= 2
    /\ creating[e].checked <= Len(Lines(e))
    /\ \A n \in 1..creating[e].checked :
         /\ ValidAmounts(Lines(e)[n])
         /\ account[Lines(e)[n].account] \in {"leaf", "parent"}

(* The steps after the count, and before the insert: the sequence is at    *)
(* most one more than the rows there are                                   *)
HeaderInv ==
  \A e \in Entry : creating[e].step = "header" =>
    /\ creating[e].checked = Len(Lines(e))
    /\ creating[e].sequence <= Cardinality(Rows) + 1

(* A row is there exactly from InsertHeader on, with the checks behind it *)
RowInv ==
  \A e \in Entry :
    /\ creating[e].step \in {"unused", "accounts", "header"} => row[e] = NoRow
    /\ creating[e].step \in {"lines", "created"} => e \in Rows
    /\ e \in Rows => creating[e].checked = Len(Lines(e)) /\ row[e].lines <= Len(Lines(e))

(* A call holds an entry that has a row, and lines that are still there *)
CallInv ==
  \A c \in Call : call[c].at # "idle" =>
    /\ call[c].entry \in Rows
    /\ call[c].at = "post" =>
         call[c].read <= row[call[c].entry].lines
           /\ Balanced(Lines(call[c].entry), call[c].read)

JournalInv ==
  /\ TypeOK
  /\ IsFiniteSet(Rows)
  /\ CreatingInv
  /\ HeaderInv
  /\ RowInv
  /\ CallInv
  /\ NumberWithinCount
  /\ PostedWasBalanced

-----------------------------------------------------------------------------
(* What the documents and messages of the repository say, and the code     *)
(* does not keep.                                                          *)

(* "a balanced double-entry unit": a posted entry balances as it stands *)
PostedIsComplete ==
  \A e \in Entry : row[e].status = "posted" => Balanced(Lines(e), row[e].lines)

(* "not modified after closing": nothing is posted into a shut period *)
NothingPostedWhenShut ==
  [][\A p \in Period : IsShut(p) /\ IsShut(p)' =>
       \A e \in RowsIn(p) : row[e].status # "posted" => row'[e].status # "posted"]_vars

=============================================================================
