------------------------------ MODULE Registers ------------------------------
(***************************************************************************)
(* Registers: the handlers that the modules of tables list, run statement  *)
(* by statement against a table of the database.                           *)
(*                                                                         *)
(* One table is picked at a time: the handlers of different tables share   *)
(* no state, but for the effects that the statements name.  A table has at *)
(* most MaxRows rows, and a request names one of the keys in Key (a code,  *)
(* a name, the job order a row is counted in).                             *)
(*                                                                         *)
(* A request may end before any of its statements: its process dies, the   *)
(* database is gone, a line or what happens elsewhere is refused.  What it *)
(* wrote stays, because no handler opens a transaction.                    *)
(***************************************************************************)
EXTENDS Statements, Desk, Naturals, FiniteSets

CONSTANTS
  Tables,       \* the tables, by name
  Milestones,   \* table -> pairs <<later, earlier>> of a row's milestones
  Final,        \* table -> the statuses that a row does not leave
  Key,
  MaxRows

ASSUME RegistersAssumption ==
  /\ MaxRows \in Nat \ {0} /\ Key # {}
  /\ DOMAIN Milestones \subseteq DOMAIN Tables
  /\ DOMAIN Final \subseteq DOMAIN Tables

VARIABLES
  table,     \* the name of the table at hand
  rows,      \* its rows, in the order of their inserts
  request    \* each clerk's: its handler, the next statement, and what it knows

registerVars == <<table, rows, request>>

Unasked ==
  [handler |-> <<>>, next |-> 1, key |-> "none", row |-> 0, number |-> 0, acted |-> FALSE]

-----------------------------------------------------------------------------
(* Whether a handler of the table has such a statement *)
Kinds == [t \in DOMAIN Tables |->
            UNION {{h[i].do : i \in DOMAIN h} : h \in Tables[t].handlers}]
Has(kinds) == Kinds[table] \cap kinds # {}

(* A row's been: the marks and effects it has had, and those statuses that *)
(* Milestones names; twice: the effects it has had again; hurt: a request  *)
(* has ended early after such an effect                                    *)

Tracked(status) ==
  IF table \in DOMAIN Milestones
  THEN {status} \cap UNION {{m[1], m[2]} : m \in Milestones[table]}
  ELSE {}

(* Bounds: keys where the table uses them; one row where rows share        *)
(* neither a number nor a key, and so do not meet                          *)
UsesKeys == Has({"countByKey", "unused", "reuse"}) \/ "key" \in Tables[table].unique
UsesNumbers == Has({"count", "countByKey", "draw"})
Keys == IF UsesKeys THEN Key ELSE {CHOOSE k \in Key : TRUE}
Room == IF UsesKeys \/ UsesNumbers THEN MaxRows ELSE 1

This(c) == request[c].handler[request[c].next]
At(c, kinds) == request[c].handler # <<>> /\ This(c).do \in kinds

(* The statements for which a request needs its row *)
AboutARow == {"check", "onlyIf", "onlyWith", "set", "mark", "once", "again"}

-----------------------------------------------------------------------------
(* What the handlers of the services have in common, statement by          *)
(* statement: h is a handler, and i and j are places in it.                *)

(* The statements after which a request has another row than before *)
ChangesRow == {"insert", "reuse", "next"}

(* None of these comes after the statement j, up to the statement i *)
NoneSince(h, j, i, kinds) == \A m \in (j + 1)..i : h[m].do \notin kinds

(* After n statements the request has a row: it was asked for one, or has  *)
(* inserted one.                                                           *)
HasRow(h, n) ==
  \/ ~MakesItsRow(h) /\ NoneSince(h, 0, n, {"next"})
  \/ \E j \in 1..n : h[j].do = "insert" /\ NoneSince(h, j, n, {"next"})

ASSUME HandlersAssumption ==
  \A t \in DOMAIN Tables : \A h \in Tables[t].handlers :
    /\ h \in Seq([do : STRING, in : SUBSET STRING, mark : STRING]) /\ h # <<>>
    /\ \A i \in DOMAIN h :
         /\ h[i].do \in AboutARow => HasRow(h, i - 1)
         /\ h[i].do = "reuse" => i < Len(h) /\ h[i + 1].do = "insert"

(* Where one handler counts, every new row's number is a count, and UNIQUE *)
ASSUME NumbersAssumption ==
  \A t \in DOMAIN Tables : "count" \in Kinds[t] =>
    /\ "number" \in Tables[t].unique
    /\ \A h \in Tables[t].handlers : \A i \in DOMAIN h :
         h[i].do = "insert" =>
           \E j \in 1..(i - 1) : /\ h[j].do = "count"
                                /\ NoneSince(h, j, i - 1, {"next", "countByKey", "draw"})

(* A key that is not UNIQUE is looked up by the statement before an        *)
(* insert, always among the same statuses, which rows do not leave, or do  *)
(* not enter again.                                                        *)
LookedUpIn(t, used) ==
  /\ \A h \in Tables[t].handlers : \A i \in DOMAIN h :
       /\ h[i].do = "unused" => h[i].in = used
       /\ h[i].do = "insert" => i > 1 /\ h[i - 1].do = "unused"
  /\ \/ used = Whatever
     \/ \A h \in Tables[t].handlers : \A i \in DOMAIN h :
          h[i].do \in {"insert", "set"} => h[i].in \subseteq used
     \/ \A h \in Tables[t].handlers : \A i \in DOMAIN h :
          h[i].do = "set" => h[i].in \cap used = {}

ASSUME KeysAssumption ==
  \A t \in DOMAIN Tables :
    ("unused" \in Kinds[t] /\ "key" \notin Tables[t].unique) =>
      \E used \in {h[1].in : h \in Tables[t].handlers} : LookedUpIn(t, used)

(* What a statement that goes on has shown of its row: that it has passed  *)
(* x, or something that comes after x                                      *)
ShowsPassed(t, statement, x) ==
  \/ statement.do \in {"mark", "once", "again", "check"} /\ statement.mark = x
  \/ statement.do = "set" /\ statement.in = {x}
  \/ /\ statement.do = "check" /\ statement.in # Whatever
      /\ \A y \in statement.in : y = x \/ (\E m \in Milestones[t] : m[1] = y /\ m[2] = x)

(* A row passes a milestone after a statement that shows the earlier one   *)
ASSUME MilestonesAssumption ==
  \A t \in DOMAIN Milestones : \A m \in Milestones[t] :
    /\ m[2] # ""
    /\ \A h \in Tables[t].handlers : \A i \in DOMAIN h :
         /\ h[i].do = "insert" => m[1] \notin h[i].in
         /\ (\/ h[i].do \in {"mark", "once", "again"} /\ h[i].mark = m[1]
             \/ h[i].do = "set" /\ m[1] \in h[i].in)
            => \E j \in 1..(i - 1) : /\ ShowsPassed(t, h[j], m[2])
                                    /\ NoneSince(h, j, i - 1, ChangesRow)

(* A status is set after one, or a check, that is not final, or is it      *)
Precedes(t, h, j, i) ==
  /\ h[j].do \in {"check", "onlyIf", "set"}
  /\ NoneSince(h, j, i - 1, ChangesRow \cup {"set"})
  /\ \A s \in h[j].in \cap Final[t] : h[i].in = {s}

ASSUME FinalAssumption ==
  \A t \in DOMAIN Final : \A h \in Tables[t].handlers : \A i \in DOMAIN h :
    h[i].do = "set" => \E j \in 1..(i - 1) : Precedes(t, h, j, i)

Effects(t) == UNION {{h[i].mark : i \in {j \in DOMAIN h : h[j].do = "again"}} :
                     h \in Tables[t].handlers}
Acts(h) == \E i \in DOMAIN h : h[i].do = "again"

(* Done are the statuses of a row that has had its effects.  A handler     *)
(* that has effects begins with a check that the row is not done, and sets *)
(* it to done; other handlers leave a row that is done as it is.           *)
ChecksFirst(h, done) ==
  /\ h[1].do = "check" /\ h[1].in \cap done = {}
  /\ NoneSince(h, 0, Len(h), ChangesRow)

EndsIn(t, done) ==
  \A h \in Tables[t].handlers :
    /\ Acts(h) =>
         /\ ChecksFirst(h, done)
         /\ \E i \in DOMAIN h : h[i].do = "set"
         /\ \A i, j \in DOMAIN h :
              (h[i].do = "again" /\ i < j) =>
                /\ h[j].do \notin {"onlyIf", "onlyWith"}
                /\ h[j].do = "again" => h[i].mark # h[j].mark
    /\ \A i \in DOMAIN h :
         /\ h[i].do = "set" =>
              h[i].in \subseteq done \/ (ChecksFirst(h, done) /\ ~Acts(h))
         /\ h[i].do \in {"insert", "set"} => h[i].in \cap Effects(t) = {}
         /\ h[i].do \in {"mark", "once"} => h[i].mark \notin Effects(t)

ASSUME EffectsAssumption ==
  \A t \in DOMAIN Tables : "again" \in Kinds[t] =>
    \E done \in SUBSET UNION {UNION {h[i].in : i \in DOMAIN h} : h \in Tables[t].handlers} :
      EndsIn(t, done)

-----------------------------------------------------------------------------

(* A request knows its row when it comes to a statement about it. *)
RegistersTypeOK ==
  /\ table \in DOMAIN Tables
  /\ Len(rows) <= Room
  /\ \A i \in DOMAIN rows :
       /\ rows[i].number \in 0..(MaxRows + 1)
       /\ rows[i].key \in Key
       /\ Tracked(rows[i].status) \subseteq rows[i].been
       /\ rows[i].twice \subseteq rows[i].been
       /\ rows[i].hurt \in BOOLEAN
  /\ \A c \in Clerk :
       /\ request[c].key \in Key \cup {"none"}
       /\ request[c].row \in IF At(c, AboutARow) THEN DOMAIN rows ELSE 0..Len(rows)
       /\ request[c].number \in 0..(MaxRows + 1)

RegistersInit ==
  /\ table \in DOMAIN Tables
  /\ rows = <<>>
  /\ request = [c \in Clerk |-> Unasked]

-----------------------------------------------------------------------------
(* The request goes on after n of its statements, knowing what q says *)
GoesOn(c, n, q) ==
  LET h == request[c].handler  next == request[c].next + n
  IN  request' = [request EXCEPT ![c] =
                    IF next > Len(h) THEN Unasked
                                     ELSE [q EXCEPT !.handler = h, !.next = next]]

Proceeds(c) == GoesOn(c, 1, request[c])

(* It ends early, whatever it has done *)
EndsEarly(c) ==
  /\ request' = [request EXCEPT ![c] = Unasked]
  /\ rows' = IF request[c].acted
             THEN [rows EXCEPT ![request[c].row].hurt = TRUE]
             ELSE rows

KeyRows(key) == {i \in DOMAIN rows : rows[i].key = key}

-----------------------------------------------------------------------------
Begins(c) ==
  /\ request[c].handler = <<>>
  /\ \E h \in Tables[table].handlers :
       \/ /\ MakesItsRow(h)
          /\ \E k \in Keys :
               request' = [request EXCEPT ![c] = [Unasked EXCEPT !.handler = h, !.key = k]]
       \/ /\ ~MakesItsRow(h)
          /\ \E i \in DOMAIN rows :
               request' = [request EXCEPT ![c] =
                             [Unasked EXCEPT !.handler = h, !.key = rows[i].key, !.row = i]]
  /\ UNCHANGED <<table, rows>>

(* Mutant: the number is the count itself *)
CountsNoMore(c) ==
  /\ At(c, {"count"})
  /\ GoesOn(c, 1, [request[c] EXCEPT !.number = Len(rows)])
  /\ UNCHANGED <<table, rows>>

Counts(c) ==
  /\ At(c, {"count"})
  /\ GoesOn(c, 1, [request[c] EXCEPT !.number = Len(rows) + 1])
  /\ UNCHANGED <<table, rows>>

CountsByKey(c) ==
  /\ At(c, {"countByKey"})
  /\ GoesOn(c, 1, [request[c] EXCEPT !.number = Cardinality(KeyRows(request[c].key)) + 1])
  /\ UNCHANGED <<table, rows>>

Draws(c) ==
  /\ At(c, {"draw"})
  /\ \E n \in 1..MaxRows : GoesOn(c, 1, [request[c] EXCEPT !.number = n])
  /\ UNCHANGED <<table, rows>>

Used(c) ==
  \E i \in KeyRows(request[c].key) : This(c).in \in {Whatever, This(c).in \cup {rows[i].status}}

(* Mutant: nothing is looked up *)
LooksAway(c) ==
  /\ At(c, {"unused"})
  /\ Proceeds(c)
  /\ UNCHANGED <<table, rows>>

LooksUp(c) ==
  /\ At(c, {"unused"})
  /\ IF Used(c) THEN EndsEarly(c) ELSE Proceeds(c) /\ UNCHANGED rows
  /\ UNCHANGED table

Reuses(c) ==
  /\ At(c, {"reuse"})
  /\ IF Used(c)
     THEN \E i \in KeyRows(request[c].key) : GoesOn(c, 2, [request[c] EXCEPT !.row = i])
     ELSE Proceeds(c)
  /\ UNCHANGED <<table, rows>>

Mine(c) == rows[request[c].row]

(* Mutant: the mark is not asked for *)
ChecksStatusOnly(c) ==
  /\ At(c, {"check"})
  /\ IF Mine(c).status \in This(c).in
     THEN Proceeds(c) /\ UNCHANGED rows
     ELSE EndsEarly(c)
  /\ UNCHANGED table

(* Mutant: the row's status is not looked at *)
ChecksNothing(c) ==
  /\ At(c, {"check"})
  /\ Proceeds(c)
  /\ UNCHANGED <<table, rows>>

ChecksRow(c) ==
  /\ At(c, {"check"})
  /\ IF Mine(c).status \in This(c).in /\ This(c).mark \in Mine(c).been \cup {""}
     THEN Proceeds(c) /\ UNCHANGED rows
     ELSE EndsEarly(c)
  /\ UNCHANGED table

IsDone(c) ==
  /\ \/ At(c, {"onlyIf"}) /\ Mine(c).status \notin This(c).in
     \/ At(c, {"onlyWith"}) /\ Mine(c).prefix # This(c).mark
  /\ request' = [request EXCEPT ![c] = Unasked]
  /\ UNCHANGED <<table, rows>>

HasMore(c) ==
  /\ \/ At(c, {"onlyIf"}) /\ Mine(c).status \in This(c).in
     \/ At(c, {"onlyWith"}) /\ Mine(c).prefix = This(c).mark
  /\ Proceeds(c)
  /\ UNCHANGED <<table, rows>>

-----------------------------------------------------------------------------
(* A UNIQUE number is one with its prefix *)
IsTaken(c) ==
  \E i \in DOMAIN rows :
    \/ /\ "number" \in Tables[table].unique
       /\ rows[i].number = request[c].number /\ rows[i].prefix = This(c).mark
    \/ /\ "key" \in Tables[table].unique
       /\ rows[i].key = request[c].key

(* Mutant: the id of the new row is not kept *)
InsertsUnnamed(c) ==
  /\ At(c, {"insert"})
  /\ ~IsTaken(c) /\ Len(rows) < Room
  /\ \E s \in This(c).in :
       rows' = Append(rows, [number |-> request[c].number, prefix |-> This(c).mark,
                             key |-> request[c].key, status |-> s, been |-> Tracked(s),
                             twice |-> {}, hurt |-> FALSE])
  /\ Proceeds(c)
  /\ UNCHANGED table

Inserts(c) ==
  /\ At(c, {"insert"})
  /\ IF IsTaken(c)
     THEN EndsEarly(c)
     ELSE /\ Len(rows) < Room
          /\ \E s \in This(c).in :
               rows' = Append(rows, [number |-> request[c].number, prefix |-> This(c).mark,
                                     key |-> request[c].key, status |-> s, been |-> Tracked(s),
                                     twice |-> {}, hurt |-> FALSE])
          /\ GoesOn(c, 1, [request[c] EXCEPT !.row = Len(rows) + 1])
  /\ UNCHANGED table

Adds(c) ==
  /\ At(c, {"lines"})
  /\ Proceeds(c)
  /\ UNCHANGED <<table, rows>>

Sets(c) ==
  /\ At(c, {"set"})
  /\ \E s \in This(c).in :
       rows' = [rows EXCEPT ![request[c].row].status = s,
                            ![request[c].row].been = @ \cup Tracked(s)]
  /\ Proceeds(c)
  /\ UNCHANGED table

Marks(c) ==
  /\ At(c, {"mark"})
  /\ rows' = [rows EXCEPT ![request[c].row].been = @ \cup {This(c).mark}]
  /\ Proceeds(c)
  /\ UNCHANGED table

DoesOnce(c) ==
  /\ At(c, {"once"})
  /\ IF This(c).mark \in Mine(c).been
     THEN EndsEarly(c)
     ELSE /\ rows' = [rows EXCEPT ![request[c].row].been = @ \cup {This(c).mark}]
          /\ Proceeds(c)
  /\ UNCHANGED table

DoesAgain(c) ==
  /\ At(c, {"again"})
  /\ rows' = [rows EXCEPT ![request[c].row].been = @ \cup {This(c).mark},
                          ![request[c].row].twice =
                            @ \cup ({This(c).mark} \cap Mine(c).been)]
  /\ GoesOn(c, 1, [request[c] EXCEPT !.acted = TRUE])
  /\ UNCHANGED table

IsRefused(c) ==
  /\ At(c, {"insertFails", "updateFails"})
  /\ EndsEarly(c)
  /\ UNCHANGED table

TakesNext(c) ==
  /\ At(c, {"next"})
  /\ \E k \in Keys :
       GoesOn(c, 1, [Unasked EXCEPT !.key = k])
  /\ UNCHANGED <<table, rows>>

RequestDies(c) ==
  /\ request[c].handler # <<>>
  /\ EndsEarly(c)
  /\ UNCHANGED table

RegistersNext ==
  \E c \in desk :
    \/ Begins(c) \/ Counts(c) \/ CountsByKey(c) \/ Draws(c) \/ LooksUp(c) \/ Reuses(c)
    \/ ChecksRow(c) \/ IsDone(c) \/ HasMore(c) \/ Inserts(c) \/ Adds(c) \/ Sets(c) \/ Marks(c)
    \/ DoesOnce(c) \/ DoesAgain(c) \/ IsRefused(c) \/ TakesNext(c) \/ RequestDies(c)

Init == DeskInit /\ RegistersInit
Next == RegistersNext /\ UNCHANGED desk
Spec == Init /\ [][Next]_<<desk, registerVars>>

-----------------------------------------------------------------------------
(* A counted, UNIQUE number is never larger than the rows there were, and  *)
(* none is drawn twice, however the counts of requests interleave: nothing *)
(* is deleted from these tables (count* + 1 in the services; the UNIQUE    *)
(* columns of the schemas).                                                *)
NumbersAreDense ==
  Has({"count"}) =>
    \A i \in DOMAIN rows :
      /\ rows[i].number \in 1..i
      /\ \A j \in DOMAIN rows :
           <<rows[i].number, rows[i].prefix>> = <<rows[j].number, rows[j].prefix>> => i = j

(* A key that is looked up before the insert is that of one row: whatever  *)
(* the order of the requests when it is UNIQUE, and when they come in turn *)
(* otherwise (a serial number on an invoice line, a batch on a purchase's  *)
(* line, a check point's pending workflow).                                *)
KeysNeverRepeat ==
  (Has({"unused"}) /\ (InTurn \/ "key" \in Tables[table].unique)) =>
    \A h \in Tables[table].handlers, i, j \in DOMAIN rows :
      (h[1].do = "unused" /\ i # j /\ rows[i].key = rows[j].key) =>
        h[1].in # Whatever /\ {rows[i].status, rows[j].status} \ h[1].in # {}

(* A row has passed a milestone only after the earlier ones: a job order   *)
(* is approved after its financial review, a request closed after the      *)
(* stock is issued, a subcontracting order posted after all its materials  *)
(* are issued; also when requests interleave or die.                       *)
MilestonesInOrder ==
  table \in DOMAIN Milestones =>
    \A i \in DOMAIN rows : \A m \in Milestones[table] :
      m[1] \in rows[i].been => m[2] \in rows[i].been

(* When requests come in turn, what a handler does elsewhere on behalf of  *)
(* a row is done a second time only after a request that had done it ended *)
(* early (issueRequest, postSubcontractingOrder, approveQuotation).        *)
EffectsOnce ==
  InTurn => \A i \in DOMAIN rows : rows[i].twice # {} => rows[i].hurt

(* When requests come in turn, a row does not leave a final status.        *)
FinalStaysFinal ==
  [][(InTurn /\ table \in DOMAIN Final) =>
       \A i \in DOMAIN rows :
         rows[i].status \in Final[table] => rows'[i].status = rows[i].status]_registerVars

=============================================================================
