----------------------------- MODULE Statements -----------------------------
(***************************************************************************)
(* Statements: what the handlers of the services consist of, for the       *)
(* modules that list the handlers (SalesTables, PlantTables, OfficeTables, *)
(* StoreTables) and for Registers, which runs them.                        *)
(*                                                                         *)
(* A handler is a sequence of awaited statements about one row of a table. *)
(* Handlers whose computation matters have modules of their own.  Left out *)
(* are the checks of the input, and look-ups that only refuse a request    *)
(* because a row of another table is not there: nothing deletes such a     *)
(* row, and a request refused before its first write has done nothing.     *)
(***************************************************************************)
EXTENDS Sequences

Statement(kind, statuses, mark) == [do |-> kind, in |-> statuses, mark |-> mark]

Whatever == {}   \* any status

(* The number the new row will have: the rows there are, or those of the   *)
(* same key, plus one; or four digits from Math.random or from the clock   *)
Counted == Statement("count", Whatever, "")
CountedByKey == Statement("countByKey", Whatever, "")
Drawn == Statement("draw", Whatever, "")

(* A row with this key (in one of these statuses) refuses the request; or  *)
(* it is the request's row, and the insert that follows is skipped         *)
Unused(statuses) == Statement("unused", statuses, "")
OrReuse == Statement("reuse", Whatever, "")

(* The row must be in one of these statuses (and have the mark), or the    *)
(* request is refused; the row must be (or have the prefix), or the        *)
(* request has nothing more to do                                          *)
Check(statuses) == Statement("check", statuses, "")
CheckMarked(statuses, mark) == Statement("check", statuses, mark)
OnlyIf(statuses) == Statement("onlyIf", statuses, "")
OnlyWith(prefix) == Statement("onlyWith", Whatever, prefix)

(* INSERT of the row, whose number may have a prefix; then what belongs to *)
(* it in other tables, such as its lines                                   *)
InsertAs(status) == Statement("insert", {status}, "")
InsertAsAny(statuses) == Statement("insert", statuses, "")
InsertWith(prefix, status) == Statement("insert", {status}, prefix)
Lines == Statement("lines", Whatever, "")

(* UPDATE by id, whatever the row's status is by now                       *)
SetTo(status) == Statement("set", {status}, "")
SetToAny(statuses) == Statement("set", statuses, "")
MarkAs(mark) == Statement("mark", Whatever, mark)

(* What the handler does elsewhere on behalf of the row: once, because an  *)
(* idempotency key refuses a second time; or each time it comes here       *)
Once(effect) == Statement("once", Whatever, effect)
Again(effect) == Statement("again", Whatever, effect)

(* The database refuses the INSERT or the UPDATE whatever the row (a       *)
(* made-up id for a uuid column) *)
InsertFails == Statement("insertFails", Whatever, "")
UpdateFails == Statement("updateFails", Whatever, "")

(* A loop over a list of two, each with a key of its own *)
NextOfList == Statement("next", Whatever, "")
ForEach(handler) == handler \o <<NextOfList>> \o handler

(* A handler that makes its row, rather than being asked for one *)
MakesItsRow(handler) ==
  handler[1].do \in {"count", "countByKey", "draw", "unused", "reuse", "insert", "insertFails"}

(* unique: the columns with a UNIQUE constraint, among the number drawn    *)
(* for the row and the key the request has given it                        *)
Table(unique, handlers) == [unique |-> unique, handlers |-> handlers]

=============================================================================
