# Motion ERP in TLA+

Models, model checks and proofs of Motion ERP: what the handlers of its server
(`src/apps/api`) do to the shared tables when requests overlap, repeat and die half-way, and
what the pages of its web client (`src/apps/web/src/app/pages`) show when answers are late,
out of order or missing.

Paths below are relative to `src/apps/api/src/modules/` unless they start with `src/`.

## 1. The system

A NestJS server on PostgreSQL (through drizzle), with a React client. Each module has a
controller, a service with the rules, a repository with the SQL and a schema with the
constraints. Modules call each other's services directly; there is no queue, no event bus,
no timer and no retry inside the server.

Three facts decide everything that follows:

* **No transaction spans two statements.** No code calls `transaction`. Every awaited SQL
  statement commits by itself, so a handler is a sequence of atomic steps, other requests
  run between any two of them, and a handler that throws (or a server that stops) leaves
  what it wrote so far.
* **Reads are not locks.** Handlers read a row, decide, and write by id later. Only what
  the database itself checks (UNIQUE columns, CHECKs, `x = x + delta` in one statement)
  holds at the moment of the write.
* **Numbers are counts.** Every numbered table takes `count(*) + 1`, with a UNIQUE column
  behind it.

### Components

| component | state | operations | interacts with | what makes it correct | here |
|---|---|---|---|---|---|
| Journal entries (`accounting/accounting.service.ts` 186-266) | `journal_entry`, `journal_line` | create, post, cancel | everything that books calls it | numbers and keys are unique; what is posted balances; final states are final | `Journal` |
| Periods (`accounting/accounting.service.ts` 96-138, `period-closing.service.ts`) | `accounting_period.status` | create a year, set status, close, reopen | read by createEntry | nothing changes in a shut period | `Journal` |
| Chart of accounts (`accounting.service.ts` 61-89) | `chart_of_accounts.is_leaf` | create an account | read by createEntry | entries go to leaves | `Journal` |
| Financial documents (`finance/finance.service.ts`) | status of invoices, payments, notes, transfers | create, post, cancel | createEntry, postEntry | one entry for one document; posted means booked; cancelled means not booked | `Documents`, `DocumentLifecycle` |
| Stock (`inventory/inventory.service.ts`) | `stock_balance`, `stock_movement`, `stock_ledger_entry`, `stock_reservation` | move, count, reserve, release | the posting engine | no quantity lost; nothing promised twice; ledger and balance agree | `Stock` |
| Stock posting engine (`accounting/posting-engine.service.ts`) | none of its own | post a movement | createEntry, postEntry | one entry for one movement | one action of `Stock` |
| Landed cost (`inventory.service.ts` 407-552) | voucher status, valuation, ledger | create, post, cancel | stock, journal | an expense is added once | `LandedCost`, `StoreTables` |
| Collections, retentions (`finance.service.ts` 49-146) | their rows | record, release | journal | no release beyond the amount | `Tranches`, `SalesTables` |
| Fixed assets (`accounting.service.ts` 299-391) | accumulated depreciation | create, run a month | journal | one entry for a month; asset and journal agree | `Depreciation`, `OfficeTables` |
| Cost pools (`cost/cost.service.ts`) | pools, policies, results | allocate | work orders | results stay within the pool | `Allocation`, `OfficeTables` |
| Payroll (`hr/hr.service.ts`) | payslips, commissions | generate | - | each commission is paid once | `Payroll`, `OfficeTables` |
| Planning (`planning/planning.service.ts`) | forecasts, plans, schedules | create, submit, create work orders | work orders | one work order for an item | `PlanOrders`, `PlantTables` |
| Material requests, shop floor, subcontracting (`production`, `production_ops`) | status of requests, steps, orders | approve, issue, start, close, post | stock, journal | steps in order; one issue for a request | `PlantTables` |
| Bills of materials (`technical/technical.service.ts`) | versions, default, drafts | create, approve, create from a draft | - | at most one default | `DefaultBom`, `PlantTables` |
| Quality (`quality/quality.service.ts`) | workflows, inspections | approve, reject, escalate, evaluate | - | what is settled is not escalated | `Quality`, `PlantTables` |
| Organization and category trees | parent pointers | create, move, archive | a trigger (organization) | no cycle; nothing active below what is archived | `Trees` |
| Items, units, warehouses, batches, serial numbers | their rows | create, register, allocate | - | codes and numbers are unique | `StoreTables`, `SalesTables` |
| Customers, suppliers, quotations, job orders, delivery | status of their rows | create, approve, review | each other | reviews come before approval; one job order for a quotation | `SalesTables` |
| Accruals, taxes, customs, VAT settlement, audit log, roles, users, settings | their rows | create, settle | journal | keys never repeat | `OfficeTables`, `Tranches` |
| Web pages (`src/apps/web/src/app/pages`) | the React state of a page | load, submit, select, leave | the API | what is shown is what was confirmed; no page stays disabled | `Screens`, `TradePages`, `PlantPages` |
| Annual closing, opening entries, overhead allocation, manufacturing tools, reports | - | computations, `UPDATE`s of many rows | - | - | left out |
| Database plumbing; pages of fixed data | - | - | - | - | left out |

The hard behaviours are overlap (two clerks on one row, one document, one item), and death
between two statements followed by a retry from the client. `PROJECT.json` lists them line
by line under `hazards`.

## 2. The modules

**`Journal`** - `AccountingService`: periods, chart, createEntry, postEntry, cancelEntry.
Variables: `period` (the status column), `account` (is_leaf, and how far createAccount is),
`row` (status of each entry and the number of its lines already there), `creating` and
`call` (the local variables of the handlers between two awaits). One action per statement:
BeginEntry (checks and period look-up), CheckLine (once for each line), CountEntries,
InsertHeader, InsertLine (once for each line); PostReadsHeader, PostReadsLines (two SELECTs of
findEntryById), PostWrites; CancelReads, CancelWrites. CreateEntryFails, CallFails and
OpenAccountFails are the ways to die. `covered` is a history variable: how many lines the
balance check added up. The lines of an entry are inserted in the order of the input, so
their number says which are there. createEntry looks up the period of the entry's date, and its status,
only if its input does not name both a fiscal year and a period (`filed` and `named` of an input); what
is named is stored as it is, under the foreign key. The HTTP request has no such fields (main.ts
strips what the DTO lacks), and no service of the repository fills them; the service's input type
(`accounting.types.ts` 89-94) allows both.

**`DocumentLifecycle`** - what posting a document promises: its effect on the ledger happens
once, never goes away, and a document that always has accounts is marked as posted only
after it.

**`Documents`** - EXTENDS `Journal`. Five kinds (purchase and sales invoices, payments,
notes, bank transfers) share one scheme, so documents differ only in `NeedsMapping` (posted
without an entry if the configuration lacks accounts) and in the entries they may resolve to
(`Posting`: with the tax line, or without it). A call runs the journal's own actions; the
journal screen keeps running beside it (`JournalNext`), and may work on the documents'
entries. Documents do not name a period. `Lifecycle` is the refinement mapping: a document is `"with"` when an entry under
its key is posted.

**`Stock`** - `InventoryService`: createMovement and reconcileStock share the statements from
InsertMovement on, and differ in what they read (Receive, AskToIssue and ReadAgain, Count).
UpdateBalance is `on_hand = on_hand + delta` under the CHECK, InsertBalance the first row
under the UNIQUE constraint, ApplyValuation an absolute write. `held` is a history variable.
Costs are left out; of the valuation the quantity it was computed for is kept, which is what
goes stale.

**The offices** - handlers that compute something over several statements, each in a module
with one action per statement, named as the statement's method: `Payroll` (generatePayroll
against new commissions), `Tranches` (releaseRetention, amortizeMonth, utilizeProvision: a
total that was read, added to and written back), `Depreciation`, `LandedCost` (against
movements of the same item), `Allocation` (a pool's entries, policies and results),
`DefaultBom`, `PlanOrders`, `Trees` (nodes and categories), `Quality` (the escalation loop,
and an inspection's parameters). In `Trees` an UPDATE of an org node is two steps: the trigger's
query, which takes no lock and sees only what is committed (READ COMMITTED, a pool of five
connections), and the commit, before which the row is locked; `crossed` remembers whether two
updates were ever between the two at once. In `Quality` an evaluation is sent any list of results:
`belongs` says which inspection a parameter id is of, if any, and `mixed` remembers the inspections
whose results were repeated, of another inspection, or written by two evaluations at once. `Desk` says who is at work: one clerk, whose requests come
in turn, or several, whose statements interleave. Each clerk has one request under way, which
may die before any of its statements. `InTurn` is in the premise of the properties that
overlap breaks. `BackOffice` puts the offices and the web pages under one specification;
they share no state, so a behaviour is one office's.

**`Registers`** - the other handlers that write. `Statements` has the kinds of statement
they consist of (count, look up, check, insert, set, act elsewhere); `SalesTables`,
`PlantTables`, `OfficeTables` and `StoreTables` list the handlers of each table as sequences
of these, in the order of the code; `Registers` runs them against one table, row by row. What a table
does not have in common with others (its columns, its messages, the rows of other tables that
must exist) is left out. A handler that books only if accounts are configured
(postSubcontractingOrder, recordCollection) is in its table twice, with its entry and without. `MCRegisters` adds what is promised of some tables: pairs of
milestones, and final statuses.

**`Screens`** - the web client. `PageFunctions` has what a page's functions consist of (a load of
the main rows or of the details of what is selected; a handler behind a button that is disabled
or not; how each fails), `TradePages` and `PlantPages` have every page of
`src/apps/web/src/app/pages` in these terms, and `Screens` runs one page. Three of the 48 files are
more than one page here, where a part has rows and a load of its own: the four tabs of
`BalanceSheetPage.tsx` (which share `loading` and `error` in the code, so that an answer to one tab
ends the wait of another; the model does not show that), the time logs of
`ProductionOpsPage.tsx` (the window's rows only: its form shares `submitting` with the page's
other buttons, and is a handler of `ProductionOpsPage`), and the periods of `SalesForecastPage.tsx` (which have a
`periodSubmitting` of their own). The server is the
number of changes the page has made to what each load reads, `shown` the number its rows
show, `call` the functions under way. A page that is left forgets its loads; its posts go
on as orphans. Whether the server takes a request, refuses it or does not answer is open.

`JournalProofs`, `DocumentsProofs`, `StockProofs`, `RegistersProofs`, `BackOfficeProofs`,
`PlantProofs` and `ScreensProofs` (which EXTENDS the two before it) hold the theorems, and `Sums`
those about sums over finite sets; `MCJournal`, `MCDocuments`, `MCStock` and `MCRegisters` the small instances. Operators under a comment that begins with *Mutant* are not
used by the specifications. Each is a plausible mistake in the definition that follows it,
and shows that some property would notice (see `mutants` in `PROJECT.json`).

Left out inside the modelled parts: descriptions, parties, cost centers, currencies,
companies (one is modelled, so the check that an account belongs to the entry's company is
not), who may call what (anyone may: no controller is guarded). One fiscal year is
modelled. Rows are never deleted by this code, and account rows stay what they are.
Amounts and quantities are integers in the unit of their numeric column: the sums in the code go
through floating point, whose rounding below `Tolerance` is not modelled.

## 3. The runs

| run | instance | shows |
|---|---|---|
| JournalOverlaps | 2 entries, 2 calls, 3 accounts (one opened on the way), 3 inputs | only requests that overlap collide on a number; posted entries were balanced in the lines that were added up; entries are well formed; a parent account drains |
| JournalInTurn | 2 entries, 1 call, 1 period, an input dated in it, one with a key, and some that name it | the inductive invariant; posted and cancelled are final if calls come one at a time; a shut period only gets what was admitted before or names it, and is at rest but for those; calls end |
| JournalIncomplete | 1 call | *violated*: an entry is posted with part of its lines |
| JournalShut | 1 call, 1 period | *violated*: a draft is posted into a closed period |
| DocumentsRefine | an invoice and a transfer, 2 calls, 2 entries | DocInv, one entry for one document, DocumentLifecycle implemented, calls end |
| DocumentsStranded | a transfer, 2 calls, the journal screen, 1 period | a transfer left half-posted can be cancelled, never posted |
| DocumentsCancelled | a transfer, 1 call | *violated*: a cancelled transfer whose entry is posted |
| StockOverlaps | 3 movements, 2 reservations, 2 releases, any 2 at once | no lost quantity, none below zero, a released reservation holds nothing |
| StockInTurn | 3 movements, 1 reservation, quantities 1 and 2, one at a time | only short counts overdraw; ledger, valuation and balance agree |
| BackOffice | 1 or 2 clerks at an office, or functions of a page | what each handler pays, posts, allocates or creates twice, and what it does not; trees, defaults and inspections; what pages show and that their buttons come back |
| Registers | 1 or 2 clerks, 2 rows, 2 keys, one table after the other (all that the table modules list) | counted numbers are dense; keys never repeat; milestones in order; effects once but for retries; final statuses |
| StockPromises | 1 movement, 2 reservations, 2 at once | *violated*: the last unit is promised twice |

The four violated properties are sentences of the repository (the decisions in
`src/docs/00-Motion-ERP-Architecture-Decisions.md`, and messages of the code), quoted under
`findings`.

**Bounds.** Row ids and requests are used once, so behaviours are finite. Each run has the two
or three requests that its hazard takes: two that overlap, or one that dies and one that
retries, and for stock one movement that brings the quantity the others dispute.
`AtOnce` bounds how many stock requests overlap; `EntryLeft` lets a call on a document start
only if a row id will be left for its entry, so that no call waits for the model to find
one. Both are bounds of the model, not of the code. Two lines or three for an entry are
enough for a balanced proper part to be told from the whole. `Tolerance` is 1 in the journal,
so that the inputs reach both sides of it, and 0 for documents.

Offices: two commissions and months, two items of a voucher and of a plan, two shares and
orders of a pool are enough for a loop to be left half-way and begun again; three months of
an asset that lives two, and three nodes, are the least that overshoot and that make a cycle
through a move and an archive; two inspections with two parameter ids and up to two results have every
way for a result to be repeated or foreign (`MaxResults`). `MaxValue`, `MaxEntries`, `MaxVersion`, `MaxOrders` and
`MaxChanges` cap what requests could otherwise add for ever, always by refusing to start a
request or to take a post; at their values a retry and an overlap both fit. Two clerks are enough for each of
the hazards, which are about pairs. Two rows of a table tell a repeated number, key or
effect; one is used where rows share neither number nor key. A page has two changes, two selections and two
functions under way: an answer that overtakes another needs no more.

**Deadlock** is checked in JournalInTurn. In the other runs every row id, movement,
reservation, month or version is used up in the end, and no further request comes: the system may stop there.

**Fairness.** Weak, for the steps of requests that were accepted (CreateEntryStep,
CallStepOf, TaskStepOf): the server resumes a handler when its statement returns, and a
statement that fails throws. Starting requests, closing periods, and failing have none, so
the liveness properties do not rest on a client's patience or on luck. `Stock`, the offices, `Registers` and `Screens` have no liveness property and no fairness: a request may die, and
what a page owes its user is stated as a safety property (`BusyIsWorking`: a page that is
disabled has a function under way that will end it).

## 4. The proofs

`JournalProofs`, for any sets of entries, calls, accounts, keys and inputs, any number of periods
and any tolerance, from the assumptions at the head of `Journal`:

* `JournalInvariant`: `Spec => []JournalInv`. No single property is inductive. `JournalInv`
  adds what a handler has established at each of its steps (CreatingInv, HeaderInv), that a
  row is there exactly from InsertHeader on and never goes (RowInv), that a call holds an
  entry whose lines can only have grown since it read them (CallInv), and that sequences stay
  within the number of rows (NumberWithinCount). The last is the argument for numbering:
  the count was taken earlier, rows only grow, and the row to be inserted makes up for the
  one more.
* `TypeCorrect`, `LoneNumber`, `WellFormed`, `PostedBalance` follow from it.
* `ClosingDrains` and `ParentsDrain` are action properties, proved action by action from it. A shut
  period admits only requests that name it and whose look-up is skipped or finds none; the others are refused.
* `SettledStays`, **if no two calls of postEntry and cancelEntry overlap** (`Call` has one
  element): the status a call read is still the status of its entry when it writes (HeldInv).
  With two calls it is false, since setEntryStatus writes by id: a posting overtakes a
  cancellation.

`DocumentsProofs`:

* `DocInvariant`: `DocSpec => []DocInv`. The journal's steps are reused as they are
  (`JournalStep`); besides it needs that a call and its entry agree (TaskInv) and that no two
  rows share a key (KeysDiffer), where the interesting step is InsertHeader.
* `OneEntry` follows.
* `DocumentsImplementLifecycle`: every step maps to a step of `DocumentLifecycle` or stutters,
  **if only the documents' own calls post and cancel entries** (`Call = Task`). With the journal
  screen it is false: `cancelEntry` can overtake `postEntry` and take the effect away.
  It needs `UntouchedInv`: no call cancels an entry, and a transfer is marked after it was
  booked.
* `StrandedStays`, an action property, for any number of calls and journal screens: the entry
  left behind keeps its row and its key, so that by KeysDiffer, before and after the step, no
  other call for the document gets a row for its own entry, and none comes to the mark.

`StockProofs`, for any sets of movements, cells, reservations, clerks and quantities. `RowsInv` is what is inductive whatever overlaps: types, which rows of a movement
are written at which of its steps, and that a cell without a row has nothing on hand.

* `StockTypes` follows, and `OnHandTraced` with TracedInv: the quantity on hand is the sum of the
  changes of the movements whose balance is written, which are finitely many. Each step adds at most one movement to
  that sum, which is a lemma of `Sums`.
* `ReleasedIsFree` (HeldInv): what a reservation holds back is what was added for it less what was
  subtracted, and it reads as released only after a subtraction.
* `OverdrawnByCountsOnly` and `LedgerAgrees`, **if one request runs at a time** (`AtOnce = 1`):
  what a request has read is what is there (TurnInv). With two at once they are false:
  StockPromises shows two reservations that read the same balance, and two movements that do leave
  the older of their ledger balances.

`RegistersProofs`, about any tables, clerks, keys and number of rows. What the proofs need of the
handlers (a number is counted before it is inserted and UNIQUE, a key is looked up by
the statement before the insert, a milestone comes after a statement that shows the
earlier one, and so on) are named assumptions in `Registers`, and TLC evaluates them on the tables of the
repository in the run Registers: a handler added to a table without its count, or with its check
in the wrong place, makes an assumption false.

* `RegisterTypes` (RowsInv): a request is at a statement of a handler of the table, and has a
  row when that statement is about one.
* The other proofs go over the ways a request can step (it begins, goes on, inserts, changes its row, ends
  early, and so on) once, in lemmas that say of each what becomes of request and rows.
* `RegisterNumbers` (NumbersInv): as for the journal, a count taken earlier is at most the
  rows there are, and the new row makes up for the one more. Overlaps included.
* `RegisterKeys`: by UNIQUE when the key is (UniqueKeys), else in turn, since what the look-up did
  not find is still not there at the insert (KeysInv).
* `RegisterMilestones` (MilestonesInv), overlaps included (an order of subcontracting is posted after its
  materials; its entry is not a milestone, since the code posts without one when no account is configured): a row never loses a milestone, so what a
  statement has shown of the request's row still holds at the later ones.
* `RegisterFinal` (StatusInv): in turn, the status a request was shown is that of its row.
* `RegisterEffects` (EffectsInv, NeverTwice): in turn, the effects a row has had are those of ended
  requests and those that the one request under way has passed.

`BackOfficeProofs` and `PlantProofs`, about `BackOffice`, for any clerks and from the
assumptions at the head of each office. Every office has its inductive invariant: the type
invariant, that only clerks at the desk have requests (so that in turn there is one), and what
a request knows at each of its steps.

* `PaidOnPayslip` (PayrollInv): before the insert, what is pending is in the sum the request
  took; after it, on a payslip.
* `PaidWithinWithheld` (TranchesInv): in turn, the total a request will write is the total
  there is, and its amount.
* `OneDefault` (DefaultBomInv), overlaps included: the versions below the one a request looks at
  are taken, so that requests that may still insert have found the same version, and UNIQUE
  lets one of them in; before it is inserted, no other row is the default.
* `RecordedIsPosted` (DepreciationInv), overlaps included: what a request read is at most the
  number of posted months, of which the month whose key it holds is not yet one. It needs that
  the months are finitely many.
* `CapitalizedWhenPosted` (LandedCostInv): in turn, items below the request's have their line,
  and the value it is about to write starts from the value that is there.
* `OneOrder` (PlanOrdersInv): an order without a link is the one about to be linked; items linked
  from the request's item on were linked when it read the plan.
* `FailedForACause` (QualityInv), overlaps included: unless the inspection is `mixed`, its evaluation is the
  only one, and the failed result behind its verdict is among those written or among those left, which
  write other rows. `SettledRests`: in turn, the workflows a loop has left are as they were read.
* `PoolNotExceeded` (AllocationInv): in turn, the shares of the policies add up to no more than the whole,
  each policy's results to no more than its share of the pool, once for each work order left,
  and a sum of such parts is bounded by the sum of the shares (a lemma of `Sums`).
* `TreesStaySound` (TreesInv): a tree is sound when no set of nodes is a trap, that is, has all its
  parents within itself. The nodes from which the top is not reached would be a trap;
  conversely a trap closed by a move lies below the moved node, where the ancestor check or the trigger
  has looked. That a walk over a finite set of nodes ends is by pigeonhole, for which the nodes are
  finitely many. For the organization it holds as long as no two moves have been past the trigger at
  once: a move that waits for its commit was checked against the tree there still is. For categories it holds in turn.

`ScreensProofs`, about `Screens` and `BackOffice`, for any clerks, selections and number of
changes:

* `BusyWorks` (BusyInv: a call that waits for the answer to a post does not cover the page's
  loading flag, so that the load which follows is the first to), for any pages that are made of
  `PageFunctions`, not only those listed.
* `OneSubmit`, `SelectionShown` and `ConfirmedShown`, for the pages of `TradePages` and
  `PlantPages`. What they need of a page (IsPage: which handlers may free the buttons, wipe an
  error, or load what) is proved of each of the 53 pages in turn, from its definition. ScreensInv
  says what a function under way knows of its page (CallsInv), when a button is free (FlagsInv),
  whose details are on their way (SelectedInv), and that rows a load has seen are no older than
  what was confirmed, or that newer ones are on their way (ShownInv).
* `OfficeTypes`: the type invariant of the whole back office, a conjunct of each office's
  inductive invariant.

The provers have no induction over data. Where a proof needs one (sums, walks in a tree), it looks at
a smallest counterexample: the natural numbers are well ordered (`LeastNatural`), and a finite set has a
cardinality.

Only model-checked: the liveness properties ClosedPeriodSettles, CallsReturn and TasksEnd, since
tlapm knows no rule for fairness of an action that is quantified over, nor ENABLED. Every other
property of a passing run is a theorem, some under the premise that is named with it.

## 5. What the models say about the code

What holds: numbers and keys never repeat; a lone request is never refused for its number;
balances lose no movement and never go below zero; a document has at most one entry; an
asset never shows more depreciation than the ledger; there is at most one default bill of
materials; no page stays disabled.

What does not, by the violated runs: a posted entry may lack lines (JournalIncomplete); closing
a period does not stop drafts in it from being posted (JournalShut), nor requests that were already
admitted; a cancellation that was decided before a posting overwrites it (DocumentsCancelled);
stock can be promised twice (StockPromises).

What the properties leave room for, because the code does (each is named where the property is
stated, with its premise, or as what a dying request leaves):

* two moves of org nodes that pass the trigger at once make a cycle, where
  `src/apps/api/drizzle/migrations/0000_organization_core.sql` 60 says "D10: no cycles";
* an entry whose caller names its fiscal year and period is booked in that period, shut or not;
* a failed inspection may have no failed parameter: the last of the results for a parameter stays, and a
  result for the parameter of another inspection changes that one;
* an order of subcontracting is posted without an entry when no work-in-progress account is configured;
* a retry of a half-done posting of a bank transfer can never succeed, since its key is taken
  (StrandedNeverPosts is the proof of a dead end as much as a guarantee); so with the month of
  a depreciation, and with a VAT month whose entry was left a draft;
* a retry of a landed cost voucher adds the expense of its first items again; a retry of
  createBoms makes another version of the product's bill of materials; a work order whose plan
  item was not yet updated is created again;
* a payroll that dies before markCommissionsPaid leaves its commissions to the next one, where
  `hr/hr.service.ts` 77-78 says "so they are never counted twice";
* `cost/cost.schema.ts` 110-112 lets a pool have several policies, but executing the first sets the pool
  to 'allocated' (`cost.service.ts` 180), and the second is then refused (152);
* two clerks at once pay a retention out twice, double the results of a policy, escalate what
  was just approved.

What the pages add:

* Buttons in the rows of tables are not disabled while a page submits; two requests can be
  under way, and the first to end enables the form again.
* A load has no number, so that a late answer puts back older rows, also over a confirmed
  change. The partner ledger goes on showing the partner before the selected one.
* A transfer of stock is two requests, and a refusal of the second leaves half of it.
* `AttendancePage` and `LeaveApplicationPage` take a form and send nothing; `ExpensesPage`
  confirms a request that was refused (`Deaf`).
* Some requests have no route in the API, so that the server of `Screens` can only refuse
  them: prices of an item (`ItemPricePage`, `QuotationPage`), `/inventory/stock-balances`
  (`StockLedgerPage`, `ProductionPlanPage`), `/production-ops/downtime-entries` and
  `/production-ops/time-logs` (the API has `downtime` and `steps/:id/time-logs`),
  `GET /organization/nodes`, and `/quality/inspections`. The model does not single them out.
* `App.tsx` opens 19 of these pages; the others are components that nothing renders yet. The
  rest of what it opens is `src/apps/web/src/pages`.

## 6. The plan

1. `StockPosting`: `Stock` composed with `Journal` through postStockMovement, the movement's
   key and the draft that its idempotency check takes for posted; the journal's steps are reused
   as in `DocumentsProofs`.
2. An abstract specification of a register (rows with unique numbers that pass milestones in order),
   and `Registers` shown to implement it, from RowsInv, NumbersInv and MilestonesInv.
3. `OnHandIsTraced` as a refinement: `Stock` implements a ledger in which a movement is one step.

### Not modelled

* The annual closing and the opening entries: they read and write columns of `fiscal_year`
  that `accounting.schema.ts` does not define, and post through `createManualJournalEntry`,
  which no class has, so that neither gets as far as a period or an entry.
* Overhead allocation, analytics, reports, `rbac.service.ts`: computations over constants or
  over rows they only read.
* Manufacturing tools (replaceBom, an UPDATE of two tables with nothing that relates them) and
  setPeriodLines (a DELETE, then inserts: `deletes` is a kind of statement `Registers` does not have).
* Costs and currencies beyond the quantities named in section 2; the text of forms, rows and
  messages; who may call what.
* Pages of fixed data, exports, translations; database plumbing, configuration, health.
