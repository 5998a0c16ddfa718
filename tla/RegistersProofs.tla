-------------------------- MODULE RegistersProofs --------------------------
(***************************************************************************)
(* What the registers keep, for any clerks and keys, any number of rows,   *)
(* and any tables whose handlers are as Registers assumes them to be: TLC  *)
(* evaluates those assumptions for the tables of the repository.           *)
(***************************************************************************)
EXTENDS Registers, FiniteSetTheorems, SequenceTheorems, TLAPS

Handlers == Tables[table].handlers

(* Types *)
Row ==
  [number : 0..(MaxRows + 1), prefix : STRING, key : Key, status : STRING,
   been : SUBSET STRING, twice : SUBSET STRING, hurt : BOOLEAN]

Request ==
  [handler : {<<>>} \cup UNION {Tables[t].handlers : t \in DOMAIN Tables}, next : Nat,
   key : Key \cup {"none"}, row : Nat, number : 0..(MaxRows + 1), acted : BOOLEAN]

(* A request is at a statement of a handler, and has a row when it needs   *)
(* one.                                                                    *)
KnowsItsRow(c) ==
  LET q == request[c] IN
  /\ q.handler = <<>> => q = Unasked
  /\ q.handler # <<>> =>
       /\ c \in desk /\ q.handler \in Handlers /\ q.next \in 1..Len(q.handler) /\ q.key \in Key
       /\ HasRow(q.handler, q.next - 1) => q.row \in DOMAIN rows
  /\ q.row <= Len(rows)

RowsInv ==
  /\ table \in DOMAIN Tables /\ desk \subseteq Clerk
  /\ rows \in Seq(Row) /\ Len(rows) <= Room
  /\ \A i \in DOMAIN rows :
       Tracked(rows[i].status) \subseteq rows[i].been /\ rows[i].twice \subseteq rows[i].been
  /\ request \in [Clerk -> Request]
  /\ \A c \in Clerk : KnowsItsRow(c)

-----------------------------------------------------------------------------
(* Handlers *)

(* What a handler's statements are *)
LEMMA HandlerShape ==
  ASSUME table \in DOMAIN Tables, NEW h \in Handlers
  PROVE  /\ h # <<>> /\ Len(h) \in Nat \ {0} /\ DOMAIN h = 1..Len(h)
         /\ \A i \in 1..Len(h) :
              /\ h[i] \in [do : STRING, in : SUBSET STRING, mark : STRING]
              /\ h[i].do \in AboutARow => HasRow(h, i - 1)
              /\ h[i].do = "reuse" => i < Len(h) /\ h[i + 1].do = "insert"
<1> DEFINE S == [do : STRING, in : SUBSET STRING, mark : STRING]
<1>1. h \in Seq(S) /\ h # <<>>
  BY HandlersAssumption DEF Handlers
<1> HIDE DEF S
<1>2. Len(h) \in Nat \ {0} /\ DOMAIN h = 1..Len(h) /\ \A i \in 1..Len(h) : h[i] \in S
  BY <1>1
<1> QED  BY <1>1, <1>2, HandlersAssumption DEF Handlers, S

(* A statement that is no insert gives the request no row. *)
LEMMA RowBefore ==
  ASSUME NEW h, NEW i \in Nat \ {0}, HasRow(h, i), h[i].do # "insert"
  PROVE  HasRow(h, i - 1) /\ h[i].do # "next"
<1>1. CASE ~MakesItsRow(h) /\ NoneSince(h, 0, i, {"next"})
  BY <1>1 DEF HasRow, NoneSince
<1>2. CASE \E j \in 1..i : h[j].do = "insert" /\ NoneSince(h, j, i, {"next"})
  <2>1. PICK j \in 1..i : h[j].do = "insert" /\ NoneSince(h, j, i, {"next"})
    BY <1>2
  <2>2. j \in 1..(i - 1) /\ i \in (j + 1)..i
    BY <2>1
  <2>3. NoneSince(h, j, i - 1, {"next"}) /\ h[i].do # "next"
    BY <2>1, <2>2 DEF NoneSince
  <2> QED  BY <2>1, <2>2, <2>3 DEF HasRow
<1> QED  BY <1>1, <1>2 DEF HasRow

(* A request that is none *)
LEMMA UnaskedType ==
  /\ Unasked \in Request /\ Unasked.handler = <<>> /\ Unasked.next = 1 /\ Unasked.row = 0
  /\ Unasked.number = 0 /\ Unasked.acted = FALSE
BY RegistersAssumption DEF Unasked, Request

(* What it is then *)
GoneOn(c, n, q) ==
  LET r == request'[c]  h == request[c].handler IN
  \/ r = Unasked /\ request[c].next + n > Len(h)
  \/ /\ r.handler = h /\ r.next = request[c].next + n /\ r.next <= Len(h)
     /\ r.key = q.key /\ r.row = q.row /\ r.number = q.number /\ r.acted = q.acted

(* A request goes on: it ends, or is n statements further, knowing q. *)
LEMMA RequestGoesOn ==
  ASSUME RowsInv, NEW c \in Clerk, request[c].handler # <<>>, NEW q \in Request, NEW n \in Nat,
         GoesOn(c, n, q)
  PROVE  /\ request' \in [Clerk -> Request]
         /\ \A d \in Clerk : d # c => request'[d] = request[d]
         /\ GoneOn(c, n, q)
<1> DEFINE h == request[c].handler
           m == request[c].next + n
           r == [q EXCEPT !.handler = h, !.next = m]
<1>1. request \in [Clerk -> Request] /\ request[c] \in Request
  BY DEF RowsInv
<1>2. h \in {<<>>} \cup UNION {Tables[t].handlers : t \in DOMAIN Tables} /\ m \in Nat
  BY <1>1 DEF Request
<1>3. request' = [request EXCEPT ![c] = IF m > Len(h) THEN Unasked ELSE r]
  BY DEF GoesOn
<1> HIDE DEF h, m
<1>4. /\ r \in Request /\ r.handler = h /\ r.next = m
      /\ r.key = q.key /\ r.row = q.row /\ r.number = q.number /\ r.acted = q.acted
  BY <1>2 DEF Request
<1>5. PICK s \in Request : s = IF m > Len(h) THEN Unasked ELSE r
  BY <1>4, UnaskedType
<1>6. request' = [request EXCEPT ![c] = s]
  BY <1>3, <1>5
<1>7. request'[c] = s /\ request' \in [Clerk -> Request]
  BY <1>1, <1>5, <1>6
<1>8. \A d \in Clerk : d # c => request'[d] = request[d]
  BY <1>1, <1>6
<1>9. h \in Handlers
  BY DEF RowsInv, KnowsItsRow, h
<1>10. Len(h) \in Nat
  BY <1>9, HandlerShape DEF RowsInv
<1>11. CASE m > Len(h)
  BY <1>5, <1>7, <1>8, <1>11 DEF h, m, GoneOn
<1>12. CASE ~ (m > Len(h))
  <2>1. s = r /\ m <= Len(h)
    BY <1>2, <1>5, <1>10, <1>12
  <2> QED  BY <1>4, <1>7, <1>8, <2>1 DEF h, m, GoneOn
<1> QED  BY <1>11, <1>12

-----------------------------------------------------------------------------
(* Rows *)

(* No row is lost, nor what it has been. *)
RowsGrow ==
  /\ Len(rows) <= Len(rows')
  /\ \A i \in DOMAIN rows :
       /\ i \in DOMAIN rows'
       /\ rows'[i].number = rows[i].number /\ rows'[i].prefix = rows[i].prefix
       /\ rows'[i].key = rows[i].key
       /\ rows[i].been \subseteq rows'[i].been
       /\ rows[i].hurt => rows'[i].hurt

(* A row changes, and the others stay. *)
LEMMA RowChanges ==
  ASSUME rows \in Seq(Row), NEW i \in DOMAIN rows, NEW r \in Row, rows' = [rows EXCEPT ![i] = r]
  PROVE  /\ rows' \in Seq(Row) /\ Len(rows') = Len(rows) /\ DOMAIN rows' = DOMAIN rows
         /\ rows'[i] = r /\ \A j \in DOMAIN rows : j # i => rows'[j] = rows[j]
<1> HIDE DEF Row
<1>1. Len(rows) \in Nat /\ DOMAIN rows = 1..Len(rows) /\ i \in 1..Len(rows)
  OBVIOUS
<1>2. rows' \in Seq(Row) /\ Len(rows') = Len(rows)
  BY <1>1, ExceptSeq
<1> QED  BY <1>1, <1>2

(* One request's step, which keeps the rows as they are or lets them grow *)
LEMMA RowsGoOn ==
  ASSUME RowsInv, UNCHANGED <<desk, table>>, NEW c \in Clerk,
         rows' \in Seq(Row), Len(rows') <= Room, RowsGrow,
         \A i \in DOMAIN rows' :
           Tracked(rows'[i].status) \subseteq rows'[i].been /\ rows'[i].twice \subseteq rows'[i].been,
         request' \in [Clerk -> Request], \A d \in Clerk : d # c => request'[d] = request[d],
         KnowsItsRow(c)'
  PROVE  RowsInv'
<1>1. Room' = Room /\ Handlers' = Handlers /\ \A s : Tracked(s)' = Tracked(s)
  BY DEF Room, UsesKeys, UsesNumbers, Has, Handlers, Tracked
<1>2. DOMAIN rows = 1..Len(rows) /\ Len(rows) \in Nat /\ Len(rows') \in Nat
  BY DEF RowsInv
<1>3. ASSUME NEW d \in Clerk PROVE KnowsItsRow(d)'
  <2>1. CASE d = c
    BY <2>1
  <2>2. CASE d # c
    <3>1. KnowsItsRow(d) /\ request'[d] = request[d] /\ request[d].row \in Nat
      BY <2>2 DEF RowsInv, Request
    <3>2. request[d].row <= Len(rows')
      BY <1>2, <3>1 DEF KnowsItsRow, RowsGrow
    <3> QED  BY <1>1, <3>1, <3>2 DEF KnowsItsRow, RowsGrow
  <2> QED  BY <2>1, <2>2
<1> QED  BY <1>1, <1>3 DEF RowsInv

(* The rows are as they were. *)
LEMMA RowsStay ==
  ASSUME RowsInv, UNCHANGED rows
  PROVE  /\ rows' \in Seq(Row) /\ Len(rows') <= Room /\ RowsGrow
         /\ \A i \in DOMAIN rows' :
              Tracked(rows'[i].status) \subseteq rows'[i].been /\ rows'[i].twice \subseteq rows'[i].been
<1>1. Len(rows) \in Nat
  BY DEF RowsInv
<1> QED  BY <1>1 DEF RowsInv, RowsGrow

(* A row of the kind that the request's is changes, and has been more. *)
LEMMA RowsChange ==
  ASSUME RowsInv, NEW i \in DOMAIN rows, NEW r \in Row, rows' = [rows EXCEPT ![i] = r],
         r.number = rows[i].number, r.prefix = rows[i].prefix, r.key = rows[i].key,
         rows[i].been \subseteq r.been, rows[i].hurt => r.hurt,
         Tracked(r.status) \subseteq r.been, r.twice \subseteq r.been
  PROVE  /\ rows' \in Seq(Row) /\ Len(rows') <= Room /\ RowsGrow
         /\ \A j \in DOMAIN rows' :
              Tracked(rows'[j].status) \subseteq rows'[j].been /\ rows'[j].twice \subseteq rows'[j].been
         /\ rows'[i] = r /\ DOMAIN rows' = DOMAIN rows
         /\ \A j \in DOMAIN rows : j # i => rows'[j] = rows[j]
<1>1. /\ rows' \in Seq(Row) /\ Len(rows') = Len(rows) /\ DOMAIN rows' = DOMAIN rows
      /\ rows'[i] = r /\ \A j \in DOMAIN rows : j # i => rows'[j] = rows[j]
  BY RowChanges DEF RowsInv
<1>2. Len(rows) \in Nat /\ Len(rows') <= Room
  BY <1>1 DEF RowsInv
<1>3. RowsGrow
  <2>1. Len(rows) <= Len(rows')
    BY <1>1, <1>2
  <2>2. ASSUME NEW j \in DOMAIN rows
        PROVE  /\ j \in DOMAIN rows'
               /\ rows'[j].number = rows[j].number /\ rows'[j].prefix = rows[j].prefix
               /\ rows'[j].key = rows[j].key
               /\ rows[j].been \subseteq rows'[j].been
               /\ rows[j].hurt => rows'[j].hurt
    <3>1. CASE j = i
      BY <1>1, <3>1
    <3>2. CASE j # i
      BY <1>1, <3>2
    <3> QED  BY <3>1, <3>2
  <2> QED  BY <2>1, <2>2 DEF RowsGrow
<1>4. ASSUME NEW j \in DOMAIN rows'
      PROVE  Tracked(rows'[j].status) \subseteq rows'[j].been /\ rows'[j].twice \subseteq rows'[j].been
  BY <1>1 DEF RowsInv
<1> QED  BY <1>1, <1>2, <1>3, <1>4

(* What comes of the rows and of the others, whatever the step *)
Goes(c) ==
  /\ RowsInv' /\ RowsGrow /\ UNCHANGED table
  /\ \A d \in Clerk : d # c => request'[d] = request[d]

(* A request ends early. *)
LEMMA EndsEarlyGoes ==
  ASSUME RowsInv, UNCHANGED <<desk, table>>, NEW c \in Clerk, request[c].handler # <<>>,
         EndsEarly(c)
  PROVE  /\ Goes(c) /\ request'[c] = Unasked /\ DOMAIN rows' = DOMAIN rows
         /\ \A i \in DOMAIN rows :
              /\ i # request[c].row \/ ~request[c].acted => rows'[i] = rows[i]
              /\ rows'[i].status = rows[i].status /\ rows'[i].been = rows[i].been
              /\ rows'[i].twice = rows[i].twice
              /\ i = request[c].row /\ request[c].acted => rows'[i].hurt
<1>1. request'[c] = Unasked /\ request' \in [Clerk -> Request]
      /\ \A d \in Clerk : d # c => request'[d] = request[d]
  BY UnaskedType DEF RowsInv, EndsEarly
<1>2. ASSUME rows' \in Seq(Row) PROVE KnowsItsRow(c)'
  BY <1>1, <1>2, UnaskedType DEF KnowsItsRow
<1>3. CASE request[c].acted /\ request[c].row \in DOMAIN rows
  <2>1. PICK i \in DOMAIN rows : i = request[c].row
    BY <1>3
  <2>2. rows[i] \in Row
    BY DEF RowsInv
  <2> DEFINE r == [rows[i] EXCEPT !.hurt = TRUE]
  <2>3. /\ r \in Row /\ r.number = rows[i].number /\ r.prefix = rows[i].prefix
        /\ r.key = rows[i].key /\ r.been = rows[i].been /\ r.status = rows[i].status
        /\ r.twice = rows[i].twice /\ r.hurt
    BY <2>2 DEF Row
  <2>4. rows' = [rows EXCEPT ![i] = r]
    BY <1>3, <2>1 DEF EndsEarly, RowsInv
  <2> HIDE DEF r
  <2>5. Tracked(r.status) \subseteq r.been /\ r.twice \subseteq r.been
    BY <2>3 DEF RowsInv
  <2>6. /\ rows' \in Seq(Row) /\ Len(rows') <= Room /\ RowsGrow
        /\ \A j \in DOMAIN rows' :
              Tracked(rows'[j].status) \subseteq rows'[j].been /\ rows'[j].twice \subseteq rows'[j].been
        /\ rows'[i] = r /\ DOMAIN rows' = DOMAIN rows
        /\ \A j \in DOMAIN rows : j # i => rows'[j] = rows[j]
    BY <2>3, <2>4, <2>5, RowsChange
  <2>7. Goes(c)
    BY <1>1, <1>2, <2>6, RowsGoOn DEF Goes
  <2> QED  BY <1>1, <1>3, <2>1, <2>3, <2>6, <2>7
<1>4. CASE ~ (request[c].acted /\ request[c].row \in DOMAIN rows)
  <2>1. rows' = rows
    <3>1. CASE ~ request[c].acted
      BY <3>1 DEF EndsEarly
    <3>2. CASE request[c].row \notin DOMAIN rows
      <4>1. rows = [j \in DOMAIN rows |-> rows[j]]
        BY DEF RowsInv
      <4> QED  BY <3>2, <4>1 DEF EndsEarly
    <3> QED  BY <1>4, <3>1, <3>2
  <2>2. Goes(c)
    BY <1>1, <1>2, <2>1, RowsStay, RowsGoOn DEF Goes
  <2> QED  BY <1>1, <1>4, <2>1, <2>2
<1> QED  BY <1>3, <1>4

(* What a request under way is at *)
LEMMA AtStatement ==
  ASSUME RowsInv, NEW c \in Clerk, request[c].handler # <<>>
  PROVE  LET h == request[c].handler  n == request[c].next IN
         /\ h \in Handlers /\ n \in 1..Len(h) /\ Len(h) \in Nat /\ c \in desk
         /\ This(c) = h[n] /\ This(c) \in [do : STRING, in : SUBSET STRING, mark : STRING]
         /\ This(c).do \in AboutARow => request[c].row \in DOMAIN rows
         /\ This(c).do = "reuse" => n < Len(h) /\ h[n + 1].do = "insert"
         /\ request[c] \in Request /\ request[c].key \in Key
<1> DEFINE h == request[c].handler
           n == request[c].next
<1>1. /\ h \in Handlers /\ n \in 1..Len(h) /\ c \in desk /\ table \in DOMAIN Tables
      /\ HasRow(h, n - 1) => request[c].row \in DOMAIN rows
      /\ request[c] \in Request /\ request[c].key \in Key
  BY DEF RowsInv, KnowsItsRow
<1>2. This(c) = h[n]
  BY DEF This
<1> HIDE DEF h, n
<1>3. /\ Len(h) \in Nat /\ h[n] \in [do : STRING, in : SUBSET STRING, mark : STRING]
      /\ h[n].do \in AboutARow => HasRow(h, n - 1)
      /\ h[n].do = "reuse" => n < Len(h) /\ h[n + 1].do = "insert"
  BY <1>1, HandlerShape
<1> QED  BY <1>1, <1>2, <1>3 DEF h, n

(* A request goes on to the next statement, with the same row, unless the  *)
(* list goes on.                                                           *)
LEMMA NextGoes ==
  ASSUME RowsInv, UNCHANGED <<desk, table>>, NEW c \in Clerk, request[c].handler # <<>>,
         This(c).do # "insert", NEW q \in Request, q.key \in Key,
         q.row = request[c].row \/ (This(c).do = "next" /\ q.row = 0),
         GoesOn(c, 1, q),
         rows' \in Seq(Row), Len(rows') <= Room, RowsGrow,
         \A i \in DOMAIN rows' :
           Tracked(rows'[i].status) \subseteq rows'[i].been /\ rows'[i].twice \subseteq rows'[i].been
  PROVE  Goes(c) /\ GoneOn(c, 1, q)
<1> DEFINE h == request[c].handler
           n == request[c].next
<1>1. /\ h \in Handlers /\ n \in 1..Len(h) /\ Len(h) \in Nat /\ c \in desk /\ This(c) = h[n]
  BY AtStatement
<1>2. HasRow(h, n - 1) => request[c].row \in DOMAIN rows
  BY DEF RowsInv, KnowsItsRow
<1>3. /\ request' \in [Clerk -> Request] /\ \A d \in Clerk : d # c => request'[d] = request[d]
      /\ GoneOn(c, 1, q)
  BY RequestGoesOn
<1>4. Handlers' = Handlers /\ Len(rows) \in Nat /\ Len(rows') \in Nat /\ request[c].row \in Nat
      /\ Len(rows) <= Len(rows') /\ DOMAIN rows \subseteq DOMAIN rows' /\ request[c].row <= Len(rows)
  BY DEF Handlers, RowsInv, RowsGrow, Request, KnowsItsRow
<1>5. HasRow(h, n) => q.row \in DOMAIN rows
  BY <1>1, <1>2, RowBefore
<1> HIDE DEF h, n
<1>6. KnowsItsRow(c)'
  <2>1. CASE request'[c] = Unasked
    BY <1>4, <2>1, UnaskedType DEF KnowsItsRow
  <2>2. CASE /\ request'[c].handler = h /\ request'[c].next = n + 1 /\ n + 1 <= Len(h)
             /\ request'[c].key = q.key /\ request'[c].row = q.row
    <3>1. (n + 1) - 1 = n /\ n + 1 \in 1..Len(h) /\ h # <<>>
      BY <1>1, <2>2 DEF h
    <3>2. q.row <= Len(rows')
      BY <1>4
    <3> QED  BY <1>1, <1>4, <1>5, <2>2, <3>1, <3>2 DEF KnowsItsRow
  <2> QED  BY <1>3, <2>1, <2>2 DEF GoneOn, h, n
<1> QED  BY <1>3, <1>6, RowsGoOn DEF Goes

-----------------------------------------------------------------------------
(* Steps *)

(* A request begins at the first statement of a handler. *)
Began(c) ==
  /\ UNCHANGED rows /\ request[c].handler = <<>>
  /\ LET r == request'[c] IN
     /\ r.handler \in Handlers /\ r.next = 1 /\ r.number = 0 /\ ~r.acted

(* A request ends early; a row it had an effect for is hurt. *)
EndedEarly(c) ==
  /\ request[c].handler # <<>> /\ request'[c] = Unasked /\ DOMAIN rows' = DOMAIN rows
  /\ \A i \in DOMAIN rows :
       /\ i # request[c].row \/ ~request[c].acted => rows'[i] = rows[i]
       /\ rows'[i].status = rows[i].status /\ rows'[i].been = rows[i].been
       /\ rows'[i].twice = rows[i].twice
       /\ i = request[c].row /\ request[c].acted => rows'[i].hurt

(* A request has nothing more to do. *)
WasDone(c) ==
  /\ At(c, {"onlyIf", "onlyWith"}) /\ request'[c] = Unasked
  /\ UNCHANGED rows

(* What a request knows after a statement that only reads *)
Reads == {"count", "countByKey", "draw", "unused", "reuse", "check", "onlyIf", "onlyWith",
          "lines", "next"}
Knows(c, q) ==
  /\ This(c).do = "count" => q.number = Len(rows) + 1
  /\ This(c).do \notin {"count", "countByKey", "draw", "next"} => q.number = request[c].number
  /\ This(c).do # "next" => /\ q.row = request[c].row /\ q.key = request[c].key
                           /\ q.acted = request[c].acted
  /\ This(c).do = "next" => ~q.acted /\ q.row = 0 /\ q.key \in Key
  /\ This(c).do = "unused" => ~Used(c)
  /\ This(c).do = "check" => /\ Mine(c).status \in This(c).in
                            /\ This(c).mark \in Mine(c).been \cup {""}
  /\ This(c).do = "onlyIf" => Mine(c).status \in This(c).in

(* A request goes on, and knows more than before. *)
Learned(c) ==
  /\ At(c, Reads)
  /\ UNCHANGED rows
  /\ \E q \in Request : GoneOn(c, 1, q) /\ Knows(c, q)

(* A request has found its row, and leaves out the insert. *)
Found(c) ==
  /\ At(c, {"reuse"})
  /\ UNCHANGED rows
  /\ \E q \in Request :
       /\ GoneOn(c, 2, q)
       /\ q.row \in DOMAIN rows /\ q.key = request[c].key /\ q.number = request[c].number
       /\ q.acted = request[c].acted

(* There is a new row, which is the request's. *)
Inserted(c) ==
  /\ At(c, {"insert"}) /\ ~IsTaken(c)
  /\ Len(rows') = Len(rows) + 1
  /\ \A i \in DOMAIN rows : rows'[i] = rows[i]
  /\ LET r == rows'[Len(rows) + 1] IN
     /\ r.number = request[c].number /\ r.prefix = This(c).mark /\ r.key = request[c].key
     /\ r.status \in This(c).in /\ r.been = Tracked(r.status) /\ r.twice = {} /\ ~r.hurt
  /\ \E q \in Request :
       /\ GoneOn(c, 1, q)
       /\ q.row = Len(rows) + 1 /\ q.key = request[c].key /\ q.number = request[c].number
       /\ q.acted = request[c].acted

(* The request's row is updated, or something is done on its behalf. *)
Changed(c) ==
  /\ At(c, {"set", "mark", "once", "again"})
  /\ request[c].row \in DOMAIN rows /\ DOMAIN rows' = DOMAIN rows
  /\ \A i \in DOMAIN rows : i # request[c].row => rows'[i] = rows[i]
  /\ LET r == rows'[request[c].row] IN
     /\ r.hurt = Mine(c).hurt
     /\ This(c).do = "set" => /\ r.status \in This(c).in
                             /\ r.been = Mine(c).been \cup Tracked(r.status)
     /\ This(c).do # "set" => /\ r.status = Mine(c).status
                             /\ r.been = Mine(c).been \cup {This(c).mark}
     /\ This(c).do # "again" => r.twice = Mine(c).twice
     /\ This(c).do = "again" => r.twice = Mine(c).twice \cup ({This(c).mark} \cap Mine(c).been)
  /\ \E q \in Request :
       /\ GoneOn(c, 1, q)
       /\ q.row = request[c].row /\ q.key = request[c].key /\ q.number = request[c].number
       /\ This(c).do # "again" => q.acted = request[c].acted
       /\ This(c).do = "again" => q.acted

(* A request begins. *)
LEMMA BeginsSteps ==
  ASSUME RowsInv, UNCHANGED desk, NEW c \in desk, Begins(c)
  PROVE  Goes(c) /\ Began(c)
<1>1. /\ request \in [Clerk -> Request] /\ c \in Clerk /\ table \in DOMAIN Tables
      /\ rows \in Seq(Row) /\ Len(rows) \in Nat /\ DOMAIN rows = 1..Len(rows)
  BY DEF RowsInv
<1>2. PICK h \in Handlers :
        \/ /\ MakesItsRow(h)
           /\ \E k \in Keys :
                request' = [request EXCEPT ![c] = [Unasked EXCEPT !.handler = h, !.key = k]]
        \/ /\ ~MakesItsRow(h)
           /\ \E i \in DOMAIN rows :
                request' = [request EXCEPT ![c] =
                              [Unasked EXCEPT !.handler = h, !.key = rows[i].key, !.row = i]]
  BY DEF Begins, Handlers
<1>3. Keys \subseteq Key
  <2>1. (CHOOSE k \in Key : TRUE) \in Key
    BY RegistersAssumption
  <2> QED  BY <2>1 DEF Keys
<1>4. PICK k \in Key, i \in 0..Len(rows), r \in Request :
        /\ request' = [request EXCEPT ![c] = r]
        /\ r.handler = h /\ r.next = 1 /\ r.number = 0 /\ ~r.acted /\ r.key = k /\ r.row = i
        /\ ~MakesItsRow(h) => i \in DOMAIN rows
  <2> DEFINE Asks(r, k, i) ==
        r.handler = h /\ r.next = 1 /\ r.number = 0 /\ ~r.acted /\ r.key = k /\ r.row = i
  <2>1. h \in UNION {Tables[t].handlers : t \in DOMAIN Tables} /\ Unasked \in Request
    BY <1>1, UnaskedType DEF Handlers
  <2>2. CASE MakesItsRow(h)
    <3>1. PICK k \in Key : request' = [request EXCEPT ![c] = [Unasked EXCEPT !.handler = h, !.key = k]]
      BY <1>2, <1>3, <2>2
    <3> DEFINE r == [Unasked EXCEPT !.handler = h, !.key = k]
    <3>2. r \in Request
      BY <2>1 DEF Request
    <3>3. Asks(r, k, 0)
      BY <2>1, UnaskedType DEF Request
    <3>4. 0 \in 0..Len(rows)
      BY <1>1
    <3> HIDE DEF r, Asks
    <3>5. request' = [request EXCEPT ![c] = r]
      BY <3>1 DEF r
    <3> QED  BY <2>2, <3>2, <3>3, <3>4, <3>5 DEF Asks
  <2>3. CASE ~MakesItsRow(h)
    <3>1. PICK i \in DOMAIN rows :
            request' = [request EXCEPT ![c] =
                          [Unasked EXCEPT !.handler = h, !.key = rows[i].key, !.row = i]]
      BY <1>2, <2>3
    <3>2. rows[i] \in Row /\ i \in 0..Len(rows) /\ i \in Nat
      BY <1>1
    <3>3. PICK k \in Key : k = rows[i].key
      BY <3>2 DEF Row
    <3> DEFINE r == [Unasked EXCEPT !.handler = h, !.key = k, !.row = i]
    <3>4. r \in Request
      BY <2>1, <3>2 DEF Request
    <3>5. Asks(r, k, i)
      BY <2>1, UnaskedType DEF Request
    <3> HIDE DEF r, Asks
    <3>6. request' = [request EXCEPT ![c] = r]
      BY <3>1, <3>3 DEF r
    <3> QED  BY <2>3, <3>2, <3>4, <3>5, <3>6 DEF Asks
  <2> QED  BY <2>2, <2>3
<1>5. request'[c] = r /\ request' \in [Clerk -> Request]
      /\ \A d \in Clerk : d # c => request'[d] = request[d]
  BY <1>1, <1>4
<1>6. h # <<>> /\ Len(h) \in Nat \ {0}
  BY <1>1, HandlerShape
<1>7. HasRow(h, 0) => i \in DOMAIN rows
  BY <1>4 DEF HasRow
<1>8. UNCHANGED <<rows, table>> /\ Handlers' = Handlers
  BY DEF Begins, Handlers
<1>9. KnowsItsRow(c)'
  BY <1>1, <1>4, <1>5, <1>6, <1>7, <1>8 DEF KnowsItsRow
<1>10. Goes(c)
  BY <1>1, <1>5, <1>8, <1>9, RowsStay, RowsGoOn DEF Goes
<1> QED  BY <1>4, <1>5, <1>8, <1>10 DEF Began, Begins

(* A request that only reads goes on. *)
LEMMA LearnedSteps ==
  ASSUME RowsInv, UNCHANGED <<desk, table, rows>>, NEW c \in Clerk, At(c, Reads),
         NEW q \in Request, Knows(c, q), GoesOn(c, 1, q)
  PROVE  Goes(c) /\ Learned(c)
<1>1. request[c].handler # <<>> /\ This(c).do \in Reads
  BY DEF At
<1>2. request[c].key \in Key
  BY <1>1, AtStatement
<1>3. /\ This(c).do # "insert" /\ q.key \in Key
      /\ q.row = request[c].row \/ (This(c).do = "next" /\ q.row = 0)
  BY <1>1, <1>2 DEF Reads, Knows
<1>4. Goes(c) /\ GoneOn(c, 1, q)
  BY <1>1, <1>3, RowsStay, NextGoes
<1> QED  BY <1>4 DEF Learned

(* There are at most so many rows with a key. *)
LEMMA KeyRowsType ==
  ASSUME RowsInv, NEW k
  PROVE  Cardinality(KeyRows(k)) \in 0..Len(rows)
<1>1. Len(rows) \in Nat /\ DOMAIN rows = 1..Len(rows)
  BY DEF RowsInv
<1>2. IsFiniteSet(1..Len(rows)) /\ Cardinality(1..Len(rows)) = Len(rows)
  <2>1. PICK n \in Nat : n = Len(rows)
    BY <1>1
  <2>2. IsFiniteSet(1..n) /\ Cardinality(1..n) = IF 1 > n THEN 0 ELSE n - 1 + 1
    BY FS_Interval
  <2>3. (IF 1 > n THEN 0 ELSE n - 1 + 1) = n
    OBVIOUS
  <2> QED  BY <2>1, <2>2, <2>3
<1>3. KeyRows(k) \subseteq 1..Len(rows)
  BY <1>1 DEF KeyRows
<1>4. IsFiniteSet(KeyRows(k)) /\ Cardinality(KeyRows(k)) <= Len(rows)
  BY <1>2, <1>3, FS_Subset
<1> QED  BY <1>1, <1>4, FS_CardinalityType

(* The statements that give a request its number *)
LEMMA CountingSteps ==
  ASSUME RowsInv, UNCHANGED desk, NEW c \in Clerk, Counts(c) \/ CountsByKey(c) \/ Draws(c)
  PROVE  Goes(c) /\ Learned(c)
<1>1. /\ request[c].handler # <<>> /\ UNCHANGED <<table, rows>>
      /\ This(c).do \in {"count", "countByKey", "draw"}
  BY DEF Counts, CountsByKey, Draws, At
<1>2. request[c] \in Request
  BY <1>1, AtStatement
<1>3. PICK n \in 0..(MaxRows + 1) :
        /\ GoesOn(c, 1, [request[c] EXCEPT !.number = n])
        /\ This(c).do = "count" => n = Len(rows) + 1
  <2>1. Len(rows) \in Nat /\ Len(rows) <= MaxRows /\ MaxRows \in Nat
    BY RegistersAssumption DEF RowsInv, Room
  <2>2. CASE Counts(c)
    <3>1. Len(rows) + 1 \in 0..(MaxRows + 1)
      BY <2>1
    <3> QED  BY <2>2, <3>1 DEF Counts
  <2>3. CASE CountsByKey(c)
    <3>1. Cardinality(KeyRows(request[c].key)) \in 0..Len(rows)
      BY KeyRowsType
    <3>2. Cardinality(KeyRows(request[c].key)) + 1 \in 0..(MaxRows + 1)
      BY <2>1, <3>1
    <3> QED  BY <2>3, <3>2 DEF CountsByKey, At
  <2>4. CASE Draws(c)
    <3>1. \A n \in 1..MaxRows : n \in 0..(MaxRows + 1)
      BY <2>1
    <3> QED  BY <2>4, <3>1 DEF Draws, At
  <2> QED  BY <2>2, <2>3, <2>4
<1> DEFINE q == [request[c] EXCEPT !.number = n]
<1>4. /\ q \in Request /\ q.number = n
      /\ q.row = request[c].row /\ q.key = request[c].key /\ q.acted = request[c].acted
  BY <1>2 DEF Request
<1> HIDE DEF q
<1>5. Knows(c, q)
  BY <1>1, <1>3, <1>4 DEF Knows
<1>6. At(c, Reads)
  BY <1>1 DEF At, Reads
<1>7. GoesOn(c, 1, q)
  BY <1>3 DEF q
<1> QED  BY <1>1, <1>4, <1>5, <1>6, <1>7, LearnedSteps

(* A request looks for rows with its key. *)
LEMMA LookingSteps ==
  ASSUME RowsInv, UNCHANGED desk, NEW c \in Clerk, LooksUp(c)
  PROVE  Goes(c) /\ (EndedEarly(c) \/ Learned(c))
<1>1. request[c].handler # <<>> /\ UNCHANGED table /\ This(c).do = "unused" /\ At(c, Reads)
  BY DEF LooksUp, At, Reads
<1>2. CASE Used(c)
  <2>1. EndsEarly(c)
    BY <1>2 DEF LooksUp
  <2> QED  BY <1>1, <2>1, EndsEarlyGoes DEF EndedEarly
<1>3. CASE ~Used(c)
  <2>1. GoesOn(c, 1, request[c]) /\ UNCHANGED rows
    BY <1>3 DEF LooksUp, Proceeds
  <2>2. request[c] \in Request
    BY <1>1, AtStatement
  <2>3. Knows(c, request[c])
    BY <1>1, <1>3 DEF Knows
  <2> QED  BY <1>1, <2>1, <2>2, <2>3, LearnedSteps
<1> QED  BY <1>2, <1>3

(* A request reuses the row with its key, or goes on to insert one. *)
LEMMA ReusingSteps ==
  ASSUME RowsInv, UNCHANGED desk, NEW c \in Clerk, Reuses(c)
  PROVE  Goes(c) /\ (Found(c) \/ Learned(c))
<1> DEFINE h == request[c].handler
           n == request[c].next
<1>1. /\ h # <<>> /\ UNCHANGED <<table, rows>> /\ This(c).do = "reuse" /\ At(c, Reads)
      /\ At(c, {"reuse"})
  BY DEF Reuses, At, Reads
<1>2. /\ h \in Handlers /\ n \in 1..Len(h) /\ Len(h) \in Nat /\ c \in desk
      /\ n < Len(h) /\ h[n + 1].do = "insert" /\ request[c] \in Request /\ request[c].key \in Key
  BY <1>1, AtStatement
<1>3. CASE Used(c)
  <2>1. PICK i \in DOMAIN rows : GoesOn(c, 2, [request[c] EXCEPT !.row = i])
    BY <1>3 DEF Reuses, KeyRows
  <2>2. i \in Nat /\ i <= Len(rows) /\ Len(rows) \in Nat
    BY DEF RowsInv
  <2> DEFINE q == [request[c] EXCEPT !.row = i]
  <2>3. /\ q \in Request /\ q.number = request[c].number
        /\ q.row = i /\ q.key = request[c].key /\ q.acted = request[c].acted
    BY <1>2, <2>2 DEF Request
  <2> HIDE DEF q
  <2>4. GoesOn(c, 2, q)
    BY <2>1 DEF q
  <2>5. /\ request' \in [Clerk -> Request] /\ \A d \in Clerk : d # c => request'[d] = request[d]
        /\ GoneOn(c, 2, q)
    BY <1>1, <2>3, <2>4, RequestGoesOn
  <2>6. KnowsItsRow(c)'
    <3>1. CASE request'[c] = Unasked
      BY <1>1, <2>2, <3>1, UnaskedType DEF KnowsItsRow
    <3>2. CASE /\ request'[c].handler = h /\ request'[c].next = n + 2 /\ n + 2 <= Len(h)
               /\ request'[c].key = q.key /\ request'[c].row = q.row
      <4>1. n + 2 \in 1..Len(h)
        BY <1>2, <3>2
      <4>2. Handlers' = Handlers
        BY <1>1 DEF Handlers
      <4> QED  BY <1>1, <1>2, <2>2, <2>3, <3>2, <4>1, <4>2 DEF KnowsItsRow
    <3> QED  BY <2>5, <3>1, <3>2 DEF GoneOn
  <2>7. Goes(c)
    BY <1>1, <2>5, <2>6, RowsStay, RowsGoOn DEF Goes
  <2> QED  BY <1>1, <2>3, <2>5, <2>7 DEF Found
<1>4. CASE ~Used(c)
  <2>1. GoesOn(c, 1, request[c])
    BY <1>4 DEF Reuses, Proceeds
  <2>2. Knows(c, request[c])
    BY <1>1 DEF Knows
  <2> QED  BY <1>1, <1>2, <2>1, <2>2, LearnedSteps
<1> QED  BY <1>3, <1>4

(* The other statements that only read *)
LEMMA ReadingSteps ==
  ASSUME RowsInv, UNCHANGED desk, NEW c \in Clerk,
         ChecksRow(c) \/ IsDone(c) \/ HasMore(c) \/ Adds(c) \/ TakesNext(c)
  PROVE  Goes(c) /\ (EndedEarly(c) \/ WasDone(c) \/ Learned(c))
<1>1. request[c].handler # <<>> /\ At(c, Reads) /\ UNCHANGED table
  BY DEF ChecksRow, IsDone, HasMore, Adds, TakesNext, At, Reads
<1>2. request[c] \in Request /\ request[c].key \in Key
  BY <1>1, AtStatement
<1>3. CASE ChecksRow(c)
  <2>1. This(c).do = "check"
    BY <1>3 DEF ChecksRow, At
  <2>2. CASE Mine(c).status \in This(c).in /\ This(c).mark \in Mine(c).been \cup {""}
    <3>1. GoesOn(c, 1, request[c]) /\ UNCHANGED rows
      BY <1>3, <2>2 DEF ChecksRow, Proceeds
    <3>2. Knows(c, request[c])
      BY <2>1, <2>2 DEF Knows
    <3> QED  BY <1>1, <1>2, <3>1, <3>2, LearnedSteps
  <2>3. CASE ~(Mine(c).status \in This(c).in /\ This(c).mark \in Mine(c).been \cup {""})
    <3>1. EndsEarly(c)
      BY <1>3, <2>3 DEF ChecksRow
    <3> QED  BY <1>1, <3>1, EndsEarlyGoes DEF EndedEarly
  <2> QED  BY <2>2, <2>3
<1>4. CASE IsDone(c)
  <2>1. /\ request' = [request EXCEPT ![c] = Unasked] /\ UNCHANGED rows
        /\ At(c, {"onlyIf", "onlyWith"})
    BY <1>4 DEF IsDone, At
  <2>2. /\ request' \in [Clerk -> Request] /\ request'[c] = Unasked
        /\ \A d \in Clerk : d # c => request'[d] = request[d] /\ Len(rows) \in Nat
    BY <2>1, UnaskedType DEF RowsInv
  <2>3. KnowsItsRow(c)'
    BY <2>1, <2>2, UnaskedType DEF KnowsItsRow, RowsInv
  <2> QED  BY <1>1, <2>1, <2>2, <2>3, RowsStay, RowsGoOn DEF Goes, WasDone
<1>5. CASE HasMore(c)
  <2>1. GoesOn(c, 1, request[c]) /\ UNCHANGED rows
    BY <1>5 DEF HasMore, Proceeds
  <2>2. Knows(c, request[c])
    BY <1>5 DEF HasMore, At, Knows
  <2> QED  BY <1>1, <1>2, <2>1, <2>2, LearnedSteps
<1>6. CASE Adds(c)
  <2>1. GoesOn(c, 1, request[c]) /\ UNCHANGED rows
    BY <1>6 DEF Adds, Proceeds
  <2>2. Knows(c, request[c])
    BY <1>6 DEF Adds, At, Knows
  <2> QED  BY <1>1, <1>2, <2>1, <2>2, LearnedSteps
<1>7. CASE TakesNext(c)
  <2>1. PICK k \in Key : GoesOn(c, 1, [Unasked EXCEPT !.key = k])
    <3>1. Keys \subseteq Key
      BY RegistersAssumption DEF Keys
    <3> QED  BY <1>7, <3>1 DEF TakesNext
  <2> DEFINE q == [Unasked EXCEPT !.key = k]
  <2>2. q \in Request /\ q.key = k /\ q.row = 0 /\ ~q.acted
    BY UnaskedType DEF Request
  <2> HIDE DEF q
  <2>3. Knows(c, q)
    BY <1>7, <2>2 DEF TakesNext, At, Knows
  <2>4. GoesOn(c, 1, q) /\ UNCHANGED rows
    BY <1>7, <2>1 DEF TakesNext, q
  <2> QED  BY <1>1, <2>2, <2>3, <2>4, LearnedSteps
<1> QED  BY <1>3, <1>4, <1>5, <1>6, <1>7

(* A request inserts its row. *)
LEMMA InsertingSteps ==
  ASSUME RowsInv, UNCHANGED desk, NEW c \in Clerk, Inserts(c)
  PROVE  Goes(c) /\ (EndedEarly(c) \/ Inserted(c))
<1> DEFINE h == request[c].handler
           n == request[c].next
           q == [request[c] EXCEPT !.row = Len(rows) + 1]
<1>1. h # <<>> /\ UNCHANGED table /\ This(c).do = "insert" /\ At(c, {"insert"})
  BY DEF Inserts, At
<1>2. /\ h \in Handlers /\ n \in 1..Len(h) /\ Len(h) \in Nat /\ c \in desk
      /\ request[c] \in Request /\ request[c].key \in Key
      /\ This(c) \in [do : STRING, in : SUBSET STRING, mark : STRING]
  BY <1>1, AtStatement
<1>3. rows \in Seq(Row) /\ Len(rows) \in Nat /\ DOMAIN rows = 1..Len(rows)
  BY DEF RowsInv
<1>4. CASE IsTaken(c)
  <2>1. EndsEarly(c)
    BY <1>4 DEF Inserts
  <2> QED  BY <1>1, <2>1, EndsEarlyGoes DEF EndedEarly
<1>5. CASE ~IsTaken(c)
  <2>1. PICK s \in This(c).in :
          rows' = Append(rows, [number |-> request[c].number, prefix |-> This(c).mark,
                                key |-> request[c].key, status |-> s, been |-> Tracked(s),
                                twice |-> {}, hurt |-> FALSE])
    BY <1>5 DEF Inserts
  <2>2. Len(rows) < Room /\ GoesOn(c, 1, q)
    BY <1>5 DEF Inserts
  <2>3. /\ q \in Request /\ q.number = request[c].number
        /\ q.row = Len(rows) + 1 /\ q.key = request[c].key /\ q.acted = request[c].acted
    BY <1>2, <1>3 DEF Request
  <2> HIDE DEF q
  <2> DEFINE r == [number |-> request[c].number, prefix |-> This(c).mark,
                   key |-> request[c].key, status |-> s, been |-> Tracked(s),
                   twice |-> {}, hurt |-> FALSE]
  <2>4. s \in STRING /\ Tracked(s) \subseteq {s}
    BY <1>2 DEF Tracked
  <2>5. r \in Row
    BY <1>2, <2>4 DEF Row, Request
  <2>6. /\ r.number = request[c].number /\ r.prefix = This(c).mark /\ r.key = request[c].key
        /\ r.status = s /\ r.been = Tracked(s) /\ r.twice = {} /\ ~r.hurt
    OBVIOUS
  <2> HIDE DEF r
  <2>7. rows' = Append(rows, r)
    BY <2>1 DEF r
  <2> HIDE DEF Row
  <2>8. /\ rows' \in Seq(Row) /\ Len(rows') = Len(rows) + 1 /\ rows'[Len(rows) + 1] = r
        /\ DOMAIN rows' = 1..(Len(rows) + 1) /\ \A i \in DOMAIN rows : rows'[i] = rows[i]
    BY <1>3, <2>5, <2>7
  <2>9. Len(rows') <= Room
    BY <1>3, <2>2, <2>8, RegistersAssumption DEF Room
  <2>10. RowsGrow
    BY <1>3, <2>8 DEF RowsGrow
  <2>11. ASSUME NEW i \in DOMAIN rows'
         PROVE  /\ Tracked(rows'[i].status) \subseteq rows'[i].been
                /\ rows'[i].twice \subseteq rows'[i].been
    <3>1. CASE i = Len(rows) + 1
      BY <2>6, <2>8, <3>1
    <3>2. CASE i # Len(rows) + 1
      <4>1. i \in DOMAIN rows /\ rows'[i] = rows[i]
        BY <1>3, <2>8, <3>2
      <4> QED  BY <4>1 DEF RowsInv
    <3> QED  BY <3>1, <3>2
  <2>12. /\ request' \in [Clerk -> Request] /\ \A d \in Clerk : d # c => request'[d] = request[d]
         /\ GoneOn(c, 1, q)
    BY <1>1, <2>2, <2>3, RequestGoesOn
  <2>13. KnowsItsRow(c)'
    <3>1. CASE request'[c] = Unasked
      BY <1>3, <2>8, <3>1, UnaskedType DEF KnowsItsRow
    <3>2. CASE /\ request'[c].handler = h /\ request'[c].next = n + 1 /\ n + 1 <= Len(h)
               /\ request'[c].key = q.key /\ request'[c].row = q.row
      <4>1. n + 1 \in 1..Len(h)
        BY <1>2, <3>2
      <4>2. Handlers' = Handlers
        BY <1>1 DEF Handlers
      <4>3. q.row \in DOMAIN rows' /\ q.row <= Len(rows')
        BY <1>3, <2>3, <2>8
      <4> QED  BY <1>1, <1>2, <2>3, <3>2, <4>1, <4>2, <4>3 DEF KnowsItsRow
    <3> QED  BY <2>12, <3>1, <3>2 DEF GoneOn
  <2>14. Goes(c)
    BY <1>1, <2>8, <2>9, <2>10, <2>11, <2>12, <2>13, RowsGoOn DEF Goes
  <2> QED  BY <1>1, <1>5, <2>3, <2>6, <2>8, <2>12, <2>14 DEF Inserted
<1> QED  BY <1>4, <1>5

(* The request's row becomes r. *)
Becomes(c, r) ==
  /\ rows' = [rows EXCEPT ![request[c].row] = r]
  /\ r.number = Mine(c).number /\ r.prefix = Mine(c).prefix /\ r.key = Mine(c).key
  /\ r.hurt = Mine(c).hurt
  /\ This(c).do = "set" => r.status \in This(c).in /\ r.been = Mine(c).been \cup Tracked(r.status)
  /\ This(c).do # "set" => r.status = Mine(c).status /\ r.been = Mine(c).been \cup {This(c).mark}
  /\ This(c).do # "again" => r.twice = Mine(c).twice
  /\ This(c).do = "again" => r.twice = Mine(c).twice \cup ({This(c).mark} \cap Mine(c).been)

(* The request goes on, knowing q. *)
GoesOnWith(c, q) ==
  /\ GoesOn(c, 1, q)
  /\ q.row = request[c].row /\ q.key = request[c].key /\ q.number = request[c].number
  /\ This(c).do # "again" => q.acted = request[c].acted
  /\ This(c).do = "again" => q.acted

(* Its row changes, and the request goes on. *)
LEMMA ChangedSteps ==
  ASSUME RowsInv, UNCHANGED <<desk, table>>, NEW c \in Clerk,
         At(c, {"set", "mark", "once", "again"}),
         NEW r \in Row, Becomes(c, r), NEW q \in Request, GoesOnWith(c, q)
  PROVE  Goes(c) /\ Changed(c)
<1>1. request[c].handler # <<>> /\ This(c).do \in {"set", "mark", "once", "again"}
  BY DEF At
<1>2. request[c].row \in DOMAIN rows /\ request[c].key \in Key
  BY <1>1, AtStatement DEF AboutARow
<1>3. PICK i \in DOMAIN rows : i = request[c].row /\ Mine(c) = rows[i]
  BY <1>2 DEF Mine
<1>4. Tracked(rows[i].status) \subseteq rows[i].been /\ rows[i].twice \subseteq rows[i].been
  BY DEF RowsInv
<1>5. /\ rows' = [rows EXCEPT ![i] = r] /\ r.number = rows[i].number
      /\ r.prefix = rows[i].prefix /\ r.key = rows[i].key /\ r.hurt = rows[i].hurt
      /\ rows[i].been \subseteq r.been /\ Tracked(r.status) \subseteq r.been
      /\ r.twice \subseteq r.been
  BY <1>1, <1>3, <1>4 DEF Becomes
<1> HIDE DEF Row
<1>6. /\ rows' \in Seq(Row) /\ Len(rows') <= Room /\ RowsGrow
      /\ \A j \in DOMAIN rows' :
           Tracked(rows'[j].status) \subseteq rows'[j].been /\ rows'[j].twice \subseteq rows'[j].been
      /\ rows'[i] = r /\ DOMAIN rows' = DOMAIN rows
      /\ \A j \in DOMAIN rows : j # i => rows'[j] = rows[j]
  BY <1>3, <1>5, RowsChange
<1>7. Goes(c) /\ GoneOn(c, 1, q)
  BY <1>1, <1>2, <1>6, NextGoes DEF GoesOnWith
<1> QED  BY <1>2, <1>3, <1>6, <1>7 DEF Changed, Becomes, GoesOnWith

(* A request updates its row, or does something on its behalf. *)
LEMMA WritingSteps ==
  ASSUME RowsInv, UNCHANGED desk, NEW c \in Clerk,
         Sets(c) \/ Marks(c) \/ DoesOnce(c) \/ DoesAgain(c)
  PROVE  Goes(c) /\ (EndedEarly(c) \/ Changed(c))
<1>1. /\ request[c].handler # <<>> /\ UNCHANGED table
      /\ At(c, {"set", "mark", "once", "again"})
  BY DEF Sets, Marks, DoesOnce, DoesAgain, At
<1>2. This(c).do \in AboutARow
  BY <1>1 DEF At, AboutARow
<1>3. /\ request[c] \in Request /\ request[c].row \in DOMAIN rows
      /\ This(c) \in [do : STRING, in : SUBSET STRING, mark : STRING]
  BY <1>1, <1>2, AtStatement
<1>4. PICK i \in DOMAIN rows : i = request[c].row /\ Mine(c) = rows[i]
  BY <1>3 DEF Mine
<1>5. rows[i] \in Row
  BY DEF RowsInv
<1>6. request[c].row = i
  BY <1>4
<1>7. CASE Sets(c)
  <2>1. PICK s \in This(c).in :
          rows' = [rows EXCEPT ![i].status = s, ![i].been = @ \cup Tracked(s)]
    BY <1>6, <1>7 DEF Sets
  <2>2. s \in STRING /\ Tracked(s) \subseteq {s}
    BY <1>3 DEF Tracked
  <2> DEFINE r == [rows[i] EXCEPT !.status = s, !.been = @ \cup Tracked(s)]
  <2>3. /\ r \in Row /\ r.number = rows[i].number /\ r.prefix = rows[i].prefix
        /\ r.key = rows[i].key /\ r.hurt = rows[i].hurt /\ r.twice = rows[i].twice
        /\ r.status = s /\ r.been = rows[i].been \cup Tracked(s)
    BY <1>5, <2>2 DEF Row
  <2>4. rows' = [rows EXCEPT ![i] = r]
    BY <2>1 DEF RowsInv
  <2> HIDE DEF r, Row
  <2>5. This(c).do = "set" /\ GoesOn(c, 1, request[c])
    BY <1>7 DEF Sets, At, Proceeds
  <2>6. Becomes(c, r)
    BY <1>4, <2>1, <2>3, <2>4, <2>5 DEF Becomes
  <2>7. GoesOnWith(c, request[c])
    BY <2>5 DEF GoesOnWith
  <2> QED  BY <1>1, <1>3, <2>3, <2>6, <2>7, ChangedSteps
<1>8. CASE Marks(c) \/ (DoesOnce(c) /\ This(c).mark \notin Mine(c).been)
  <2>1. /\ rows' = [rows EXCEPT ![i].been = @ \cup {This(c).mark}]
        /\ This(c).do \in {"mark", "once"} /\ GoesOn(c, 1, request[c])
    BY <1>6, <1>8 DEF Marks, DoesOnce, At, Proceeds
  <2> DEFINE r == [rows[i] EXCEPT !.been = @ \cup {This(c).mark}]
  <2>2. /\ r \in Row /\ r.number = rows[i].number /\ r.prefix = rows[i].prefix
        /\ r.key = rows[i].key /\ r.hurt = rows[i].hurt /\ r.twice = rows[i].twice
        /\ r.status = rows[i].status /\ r.been = rows[i].been \cup {This(c).mark}
    BY <1>3, <1>5 DEF Row
  <2>3. rows' = [rows EXCEPT ![i] = r]
    BY <2>1 DEF RowsInv
  <2> HIDE DEF r, Row
  <2>4. Becomes(c, r)
    BY <1>4, <2>1, <2>2, <2>3 DEF Becomes
  <2>5. GoesOnWith(c, request[c])
    BY <2>1 DEF GoesOnWith
  <2> QED  BY <1>1, <1>3, <2>2, <2>4, <2>5, ChangedSteps
<1>9. CASE DoesOnce(c) /\ This(c).mark \in Mine(c).been
  <2>1. EndsEarly(c)
    BY <1>9 DEF DoesOnce
  <2> QED  BY <1>1, <2>1, EndsEarlyGoes DEF EndedEarly
<1>10. CASE DoesAgain(c)
  <2> DEFINE q == [request[c] EXCEPT !.acted = TRUE]
             r == [rows[i] EXCEPT !.been = @ \cup {This(c).mark},
                                  !.twice = @ \cup ({This(c).mark} \cap rows[i].been)]
  <2>1. /\ rows' = [rows EXCEPT ![i].been = @ \cup {This(c).mark},
                                ![i].twice = @ \cup ({This(c).mark} \cap rows[i].been)]
        /\ This(c).do = "again" /\ GoesOn(c, 1, q)
    BY <1>4, <1>6, <1>10 DEF DoesAgain, At
  <2>2. /\ q \in Request /\ q.row = request[c].row /\ q.key = request[c].key
        /\ q.number = request[c].number /\ q.acted
    BY <1>3 DEF Request
  <2>3. /\ r \in Row /\ r.number = rows[i].number /\ r.prefix = rows[i].prefix
        /\ r.key = rows[i].key /\ r.hurt = rows[i].hurt /\ r.status = rows[i].status
        /\ r.been = rows[i].been \cup {This(c).mark}
        /\ r.twice = rows[i].twice \cup ({This(c).mark} \cap rows[i].been)
    BY <1>3, <1>5 DEF Row
  <2>4. rows' = [rows EXCEPT ![i] = r]
    BY <2>1 DEF RowsInv
  <2> HIDE DEF q, r, Row
  <2>5. Becomes(c, r)
    BY <1>4, <2>1, <2>3, <2>4 DEF Becomes
  <2>6. GoesOnWith(c, q)
    BY <2>1, <2>2 DEF GoesOnWith
  <2> QED  BY <1>1, <2>2, <2>3, <2>5, <2>6, ChangedSteps
<1> QED  BY <1>7, <1>8, <1>9, <1>10

(* A request is refused, or dies. *)
LEMMA FailingSteps ==
  ASSUME RowsInv, UNCHANGED desk, NEW c \in Clerk, IsRefused(c) \/ RequestDies(c)
  PROVE  Goes(c) /\ EndedEarly(c)
<1>1. request[c].handler # <<>> /\ EndsEarly(c) /\ UNCHANGED table
  BY DEF IsRefused, RequestDies, At
<1> QED  BY <1>1, EndsEarlyGoes DEF EndedEarly

(* What a step is *)
Steps(c) ==
  Began(c) \/ EndedEarly(c) \/ WasDone(c) \/ Learned(c) \/ Found(c) \/ Inserted(c) \/ Changed(c)

(* Every step is one request's. *)
LEMMA NextSteps ==
  ASSUME RowsInv, Next
  PROVE  \E c \in desk : c \in Clerk /\ Goes(c) /\ Steps(c)
<1>1. UNCHANGED desk /\ desk \subseteq Clerk
  BY DEF Next, RowsInv
<1>2. PICK c \in desk :
        \/ Begins(c) \/ Counts(c) \/ CountsByKey(c) \/ Draws(c) \/ LooksUp(c) \/ Reuses(c)
        \/ ChecksRow(c) \/ IsDone(c) \/ HasMore(c) \/ Inserts(c) \/ Adds(c) \/ Sets(c) \/ Marks(c)
        \/ DoesOnce(c) \/ DoesAgain(c) \/ IsRefused(c) \/ TakesNext(c) \/ RequestDies(c)
  BY DEF Next, RegistersNext
<1>3. c \in Clerk
  BY <1>1
<1> QED
  BY <1>1, <1>2, <1>3, BeginsSteps, CountingSteps, LookingSteps, ReusingSteps, ReadingSteps,
     InsertingSteps, WritingSteps, FailingSteps DEF Steps

(* A step that changes nothing *)
LEMMA NothingSteps ==
  ASSUME RowsInv, UNCHANGED <<desk, registerVars>>
  PROVE  RowsInv'
BY DEF RowsInv, registerVars, Room, UsesKeys, UsesNumbers, Has, Tracked, KnowsItsRow, Handlers

(* The rows and the requests are what they are taken for: a request at a   *)
(* statement about a row has one.                                          *)
THEOREM RegisterRows == Spec => []RowsInv
<1>1. Init => RowsInv
  <2> SUFFICES ASSUME Init PROVE RowsInv
    OBVIOUS
  <2>1. desk \subseteq Clerk
    BY DEF Init, DeskInit
  <2>2. rows = <<>> /\ rows \in Seq(Row) /\ Len(rows) = 0 /\ DOMAIN rows = {}
    BY DEF Init, RegistersInit
  <2>3. 0 <= Room
    BY RegistersAssumption DEF Room
  <2>4. request \in [Clerk -> Request] /\ \A c \in Clerk : request[c] = Unasked
    BY UnaskedType DEF Init, RegistersInit
  <2>5. \A c \in Clerk : KnowsItsRow(c)
    BY <2>2, <2>4, UnaskedType DEF KnowsItsRow
  <2> QED  BY <2>1, <2>2, <2>3, <2>4, <2>5 DEF Init, RegistersInit, RowsInv
<1>2. RowsInv /\ [Next]_<<desk, registerVars>> => RowsInv'
  BY NextSteps, NothingSteps DEF Goes
<1> QED  BY <1>1, <1>2, PTL DEF Spec

(* RegistersTypeOK: a request knows its row when it comes to a statement   *)
(* about it.                                                               *)
THEOREM RegisterTypes == Spec => []RegistersTypeOK
<1>1. RowsInv => RegistersTypeOK
  <2> SUFFICES ASSUME RowsInv PROVE RegistersTypeOK
    OBVIOUS
  <2>1. Len(rows) \in Nat /\ DOMAIN rows = 1..Len(rows)
    BY DEF RowsInv
  <2>2. ASSUME NEW i \in DOMAIN rows
        PROVE  /\ rows[i].number \in 0..(MaxRows + 1) /\ rows[i].key \in Key
               /\ Tracked(rows[i].status) \subseteq rows[i].been
               /\ rows[i].twice \subseteq rows[i].been
               /\ rows[i].hurt \in BOOLEAN
    <3>1. rows[i] \in Row
      BY DEF RowsInv
    <3> QED  BY <3>1 DEF Row, RowsInv
  <2>3. ASSUME NEW c \in Clerk
        PROVE  /\ request[c].key \in Key \cup {"none"}
               /\ request[c].row \in IF At(c, AboutARow) THEN DOMAIN rows ELSE 0..Len(rows)
               /\ request[c].number \in 0..(MaxRows + 1)
    <3>1. request[c] \in Request /\ request[c].row <= Len(rows)
      BY DEF RowsInv, KnowsItsRow
    <3>2. request[c].row \in 0..Len(rows)
      BY <2>1, <3>1 DEF Request
    <3>3. At(c, AboutARow) => request[c].row \in DOMAIN rows
      BY AtStatement DEF At
    <3> QED  BY <3>1, <3>2, <3>3 DEF Request
  <2> QED  BY <2>1, <2>2, <2>3 DEF RegistersTypeOK, RowsInv
<1> QED  BY <1>1, RegisterRows, PTL

-----------------------------------------------------------------------------
(* What a step leaves of the request that takes it *)

(* The request is at its next statement. *)
WentOn(c) ==
  LET h == request[c].handler  n == request[c].next  r == request'[c] IN
  /\ h \in Handlers /\ n \in 1..Len(h) /\ Len(h) \in Nat /\ h # <<>>
  /\ r.handler = h /\ r.next = n + 1 /\ r.next <= Len(h)
  /\ Learned(c) \/ Inserted(c) \/ Changed(c)
  /\ h[n].do = "count" => r.number = Len(rows) + 1
  /\ h[n].do \notin {"count", "countByKey", "draw", "next"} => r.number = request[c].number
  /\ h[n].do # "next" => r.key = request[c].key
  /\ h[n].do \notin ChangesRow => r.row = request[c].row
  /\ h[n].do = "next" => ~r.acted
  /\ h[n].do = "again" => r.acted
  /\ h[n].do \notin {"next", "again"} => r.acted = request[c].acted

(* The request has left out an insert. *)
LeftOut(c) ==
  LET h == request[c].handler  n == request[c].next  r == request'[c] IN
  /\ h \in Handlers /\ n \in 1..Len(h) /\ Len(h) \in Nat /\ h # <<>>
  /\ r.handler = h /\ r.next = n + 2 /\ r.next <= Len(h)
  /\ Found(c)
  /\ h[n].do = "reuse" /\ h[n + 1].do = "insert"
  /\ r.number = request[c].number /\ r.key = request[c].key /\ r.acted = request[c].acted

(* After its step a request is none, at its first statement, or further on. *)
LEMMA RequestAfter ==
  ASSUME RowsInv, NEW c \in Clerk, Steps(c)
  PROVE  request'[c] = Unasked \/ Began(c) \/ WentOn(c) \/ LeftOut(c)
<1> DEFINE h == request[c].handler
           n == request[c].next
<1>1. CASE Began(c) \/ EndedEarly(c) \/ WasDone(c)
  BY <1>1 DEF EndedEarly, WasDone
<1> DEFINE UnderWay ==
             /\ h \in Handlers /\ n \in 1..Len(h) /\ Len(h) \in Nat /\ h # <<>>
             /\ This(c) = h[n]
             /\ h[n].do = "reuse" => n < Len(h) /\ h[n + 1].do = "insert"
<1>2. ASSUME Learned(c) \/ Found(c) \/ Inserted(c) \/ Changed(c) PROVE UnderWay
  <2>1. h # <<>>
    BY <1>2 DEF Learned, Found, Inserted, Changed, At
  <2> QED  BY <2>1, AtStatement
<1>3. CASE Learned(c)
  <2>0. UnderWay
    BY <1>2, <1>3
  <2>1. PICK q \in Request : GoneOn(c, 1, q) /\ Knows(c, q)
    BY <1>3 DEF Learned
  <2>2. h[n].do \in Reads /\ This(c) = h[n]
    BY <2>0, <1>3 DEF Learned, At
  <2>3. CASE request'[c] = Unasked
    BY <2>3
  <2>4. CASE request'[c] # Unasked
    BY <1>3, <2>0, <2>1, <2>2, <2>4 DEF GoneOn, WentOn, Reads, ChangesRow, Knows
  <2> QED  BY <2>3, <2>4
<1>4. CASE Found(c)
  <2>0. UnderWay
    BY <1>2, <1>4
  <2>1. PICK q \in Request :
          /\ GoneOn(c, 2, q)
          /\ q.row \in DOMAIN rows /\ q.key = request[c].key /\ q.number = request[c].number
          /\ q.acted = request[c].acted
    BY <1>4 DEF Found
  <2>2. h[n].do = "reuse"
    BY <2>0, <1>4 DEF Found, At
  <2> QED  BY <1>4, <2>0, <2>1, <2>2 DEF GoneOn, LeftOut
<1>5. CASE Inserted(c)
  <2>0. UnderWay
    BY <1>2, <1>5
  <2>1. PICK q \in Request :
          /\ GoneOn(c, 1, q)
          /\ q.row = Len(rows) + 1 /\ q.key = request[c].key /\ q.number = request[c].number
          /\ q.acted = request[c].acted
    BY <1>5 DEF Inserted
  <2>2. h[n].do = "insert"
    BY <2>0, <1>5 DEF Inserted, At
  <2> QED  BY <1>5, <2>0, <2>1, <2>2 DEF GoneOn, WentOn, ChangesRow
<1>6. CASE Changed(c)
  <2>0. UnderWay
    BY <1>2, <1>6
  <2>1. PICK q \in Request :
          /\ GoneOn(c, 1, q)
          /\ q.row = request[c].row /\ q.key = request[c].key /\ q.number = request[c].number
          /\ This(c).do # "again" => q.acted = request[c].acted
          /\ This(c).do = "again" => q.acted
    BY <1>6 DEF Changed
  <2>2. h[n].do \in {"set", "mark", "once", "again"} /\ This(c) = h[n]
    BY <2>0, <1>6 DEF Changed, At
  <2> QED  BY <1>6, <2>0, <2>1, <2>2 DEF GoneOn, WentOn, ChangesRow
<1> QED  BY <1>1, <1>3, <1>4, <1>5, <1>6 DEF Steps

(* Only an insert makes a row. *)
LEMMA SameRows ==
  ASSUME RowsInv, RowsInv', NEW c \in Clerk, Steps(c), ~Inserted(c)
  PROVE  DOMAIN rows' = DOMAIN rows /\ Len(rows') = Len(rows)
<1>1. DOMAIN rows' = DOMAIN rows
  BY DEF Steps, Began, EndedEarly, WasDone, Learned, Found, Changed
<1>2. Len(rows) \in Nat /\ Len(rows') \in Nat /\ DOMAIN rows = 1..Len(rows) /\ DOMAIN rows' = 1..Len(rows')
  BY DEF RowsInv
<1> QED  BY <1>1, <1>2

(* None since j up to n: none up to n - 1, and not at n *)
LEMMA SinceStep ==
  ASSUME NEW h, NEW n \in Nat, NEW j \in 1..n, NEW kinds, NoneSince(h, j, n, kinds), j # n
  PROVE  j \in 1..(n - 1) /\ NoneSince(h, j, n - 1, kinds) /\ h[n].do \notin kinds
BY DEF NoneSince

-----------------------------------------------------------------------------
(* Numbers *)

(* After n statements a request has a number that it counted. *)
HasCounted(h, n) ==
  \E j \in 1..n : h[j].do = "count" /\ NoneSince(h, j, n, {"next", "countByKey", "draw"})

NumbersInv ==
  "count" \in Kinds[table] =>
    /\ \A i \in DOMAIN rows : rows[i].number \in 1..i
    /\ \A i, j \in DOMAIN rows :
         (rows[i].number = rows[j].number /\ rows[i].prefix = rows[j].prefix) => i = j
    /\ \A c \in Clerk :
         HasCounted(request[c].handler, request[c].next - 1) =>
           request[c].number \in 1..(Len(rows) + 1)

(* A request that has counted after a step counted in it, or had before. *)
LEMMA CountedFurther ==
  ASSUME RowsInv, NEW c \in Clerk, WentOn(c) \/ LeftOut(c),
         HasCounted(request'[c].handler, request'[c].next - 1)
  PROVE  \/ request'[c].number = Len(rows) + 1
         \/ /\ HasCounted(request[c].handler, request[c].next - 1)
            /\ request'[c].number = request[c].number
<1> DEFINE h == request[c].handler
           n == request[c].next
           K == {"next", "countByKey", "draw"}
<1>1. n \in 1..Len(h) /\ Len(h) \in Nat /\ request'[c].handler = h
  BY DEF WentOn, LeftOut
<1>2. PICK j \in 1..(request'[c].next - 1) : h[j].do = "count" /\ NoneSince(h, j, request'[c].next - 1, K)
  BY <1>1 DEF HasCounted
<1>3. CASE WentOn(c)
  <2>1. /\ request'[c].next - 1 = n /\ n \in Nat
        /\ h[n].do = "count" => request'[c].number = Len(rows) + 1
        /\ h[n].do \notin K \cup {"count"} => request'[c].number = request[c].number
    BY <1>1, <1>3 DEF WentOn
  <2>2. CASE h[n].do = "count"
    BY <2>1, <2>2
  <2>3. CASE h[n].do # "count"
    <3>1. j \in 1..(n - 1) /\ NoneSince(h, j, n - 1, K) /\ h[n].do \notin K
      BY <1>2, <2>1, <2>3, SinceStep
    <3> QED  BY <1>2, <2>1, <2>3, <3>1 DEF HasCounted
  <2> QED  BY <2>2, <2>3
<1>4. CASE LeftOut(c)
  <2>1. /\ request'[c].next - 1 = n + 1 /\ n \in Nat /\ h[n].do = "reuse" /\ h[n + 1].do = "insert"
        /\ request'[c].number = request[c].number
    BY <1>1, <1>4 DEF LeftOut
  <2>2. j \in 1..n /\ NoneSince(h, j, n, K)
    BY <1>2, <2>1 DEF NoneSince
  <2>3. j \in 1..(n - 1) /\ NoneSince(h, j, n - 1, K)
    BY <1>2, <2>1, <2>2, SinceStep
  <2> QED  BY <1>2, <2>1, <2>3 DEF HasCounted
<1> QED  BY <1>3, <1>4

(* Every step leaves the numbers in order. *)
LEMMA NumbersKept ==
  ASSUME RowsInv, RowsInv', NumbersInv, Next
  PROVE  NumbersInv'
<1>1. PICK c \in Clerk : Goes(c) /\ Steps(c)
  BY NextSteps
<1> SUFFICES ASSUME "count" \in Kinds[table]'
             PROVE  /\ \A i \in DOMAIN rows' : rows'[i].number \in 1..i
                    /\ \A i, j \in DOMAIN rows' :
                         (rows'[i].number = rows'[j].number /\ rows'[i].prefix = rows'[j].prefix) => i = j
                    /\ \A d \in Clerk :
                         HasCounted(request'[d].handler, request'[d].next - 1) =>
                           request'[d].number \in 1..(Len(rows') + 1)
  BY DEF NumbersInv, HasCounted, NoneSince
<1>2. /\ \A i \in DOMAIN rows : rows[i].number \in 1..i
      /\ \A i, j \in DOMAIN rows :
           (rows[i].number = rows[j].number /\ rows[i].prefix = rows[j].prefix) => i = j
      /\ \A d \in Clerk :
           HasCounted(request[d].handler, request[d].next - 1) =>
             request[d].number \in 1..(Len(rows) + 1)
  BY <1>1 DEF NumbersInv, Goes, Kinds
<1>3. "count" \in Kinds[table] /\ table \in DOMAIN Tables
  BY <1>1 DEF Goes, RowsInv
<1>4. /\ Len(rows) \in Nat /\ Len(rows') \in Nat /\ Len(rows) <= Len(rows')
      /\ DOMAIN rows = 1..Len(rows) /\ DOMAIN rows' = 1..Len(rows')
      /\ \A i \in DOMAIN rows : /\ i \in DOMAIN rows'
                               /\ rows'[i].number = rows[i].number /\ rows'[i].prefix = rows[i].prefix
  BY <1>1 DEF Goes, RowsInv, RowsGrow
<1>5. CASE ~Inserted(c)
  <2>1. DOMAIN rows' = DOMAIN rows /\ Len(rows') = Len(rows)
    BY <1>1, <1>5, SameRows
  <2>2. ASSUME NEW d \in Clerk, HasCounted(request'[d].handler, request'[d].next - 1)
        PROVE  request'[d].number \in 1..(Len(rows') + 1)
    <3>1. CASE d # c
      <4>1. request'[d] = request[d]
        BY <1>1, <3>1 DEF Goes
      <4> QED  BY <1>2, <2>1, <2>2, <4>1
    <3>2. CASE d = c /\ WentOn(c)
      BY <1>2, <1>4, <2>1, <2>2, <3>2, CountedFurther
    <3>3. CASE d = c /\ LeftOut(c)
      BY <1>2, <1>4, <2>1, <2>2, <3>3, CountedFurther
    <3>4. CASE d = c /\ (request'[c] = Unasked \/ Began(c))
      <4>1. request'[d].next - 1 = 0
        BY <3>4, UnaskedType DEF Began
      <4> QED  BY <2>2, <4>1 DEF HasCounted
    <3> QED  BY <1>1, <3>1, <3>2, <3>3, <3>4, RequestAfter
  <2> QED  BY <1>2, <1>4, <2>1, <2>2
<1>6. CASE Inserted(c)
  <2> DEFINE h == request[c].handler
             n == request[c].next
             new == Len(rows) + 1
  <2>1. /\ h # <<>> /\ This(c).do = "insert" /\ ~IsTaken(c) /\ Len(rows') = new
        /\ rows'[new].number = request[c].number /\ rows'[new].prefix = This(c).mark
    BY <1>6 DEF Inserted, At
  <2>2. h \in Handlers /\ n \in 1..Len(h) /\ Len(h) \in Nat /\ This(c) = h[n] /\ DOMAIN h = 1..Len(h)
    BY <1>3, <2>1, AtStatement, HandlerShape
  <2>3. HasCounted(h, n - 1) /\ "number" \in Tables[table].unique
    BY <1>3, <2>1, <2>2, NumbersAssumption DEF HasCounted, Handlers
  <2>4. request[c].number \in 1..new
    BY <1>2, <2>3
  <2>5. \A i \in DOMAIN rows :
          ~(rows[i].number = request[c].number /\ rows[i].prefix = This(c).mark)
    BY <2>1, <2>3 DEF IsTaken
  <2> HIDE DEF h, n
  <2>6. \A i \in DOMAIN rows' : i \in DOMAIN rows \/ i = new
    BY <1>4, <2>1
  <2>7. \A i \in DOMAIN rows' : rows'[i].number \in 1..i
    BY <1>2, <1>4, <2>1, <2>4, <2>6
  <2>8. ASSUME NEW i \in DOMAIN rows', NEW j \in DOMAIN rows',
               rows'[i].number = rows'[j].number, rows'[i].prefix = rows'[j].prefix
        PROVE  i = j
    <3>1. CASE i \in DOMAIN rows /\ j \in DOMAIN rows
      BY <1>2, <1>4, <2>8, <3>1
    <3>2. CASE i \in DOMAIN rows /\ j = new
      BY <1>4, <2>1, <2>5, <2>8, <3>2
    <3>3. CASE i = new /\ j \in DOMAIN rows
      BY <1>4, <2>1, <2>5, <2>8, <3>3
    <3> QED  BY <2>6, <3>1, <3>2, <3>3
  <2>9. ASSUME NEW d \in Clerk, HasCounted(request'[d].handler, request'[d].next - 1)
        PROVE  request'[d].number \in 1..(Len(rows') + 1)
    <3>1. CASE d # c
      <4>1. request'[d] = request[d]
        BY <1>1, <3>1 DEF Goes
      <4> QED  BY <1>2, <1>4, <2>9, <4>1
    <3>2. CASE d = c /\ WentOn(c)
      BY <1>2, <1>4, <2>9, <3>2, CountedFurther
    <3>3. CASE d = c /\ LeftOut(c)
      BY <1>2, <1>4, <2>9, <3>3, CountedFurther
    <3>4. CASE d = c /\ (request'[c] = Unasked \/ Began(c))
      <4>1. request'[d].next - 1 = 0
        BY <3>4, UnaskedType DEF Began
      <4> QED  BY <2>9, <4>1 DEF HasCounted
    <3> QED  BY <1>1, <3>1, <3>2, <3>3, <3>4, RequestAfter
  <2> QED  BY <2>7, <2>8, <2>9
<1> QED  BY <1>5, <1>6

(* NumbersAreDense: a counted, UNIQUE number is never larger than the rows *)
(* there were, and none is drawn twice.                                    *)
THEOREM RegisterNumbers == Spec => []NumbersAreDense
<1>1. Init => NumbersInv
  <2> SUFFICES ASSUME Init PROVE NumbersInv
    OBVIOUS
  <2>1. DOMAIN rows = {} /\ \A c \in Clerk : request[c].next - 1 = 0
    BY UnaskedType DEF Init, RegistersInit
  <2> QED  BY <2>1 DEF NumbersInv, HasCounted
<1>2. RowsInv /\ RowsInv' /\ NumbersInv /\ [Next]_<<desk, registerVars>> => NumbersInv'
  <2>1. NumbersInv /\ UNCHANGED <<desk, registerVars>> => NumbersInv'
    BY DEF NumbersInv, registerVars, HasCounted, NoneSince
  <2> QED  BY <2>1, NumbersKept
<1>3. NumbersInv => NumbersAreDense
  BY DEF NumbersInv, NumbersAreDense, Has
<1> QED  BY <1>1, <1>2, <1>3, RegisterRows, PTL DEF Spec

-----------------------------------------------------------------------------
(* Keys *)

(* When requests come in turn, a request that takes a step is the only one. *)
LEMMA OthersAreNone ==
  ASSUME RowsInv, InTurn, NEW c \in desk, NEW d \in Clerk, d # c
  PROVE  request[d] = Unasked
BY DEF RowsInv, KnowsItsRow, InTurn

(* Rows stay among the statuses that are looked up. *)
Stays(used) ==
  \A h \in Handlers : \A i \in DOMAIN h : h[i].do \in {"insert", "set"} => h[i].in \subseteq used

(* The statement before has looked up the request's key. *)
LookedUp(c) ==
  LET q == request[c] IN q.handler # <<>> /\ q.next > 1 /\ q.handler[q.next - 1].do = "unused"

KeysIn(used) ==
  /\ Stays(used) => \A i \in DOMAIN rows : rows[i].status \in used
  /\ \A i, j \in DOMAIN rows :
       (i # j /\ rows[i].key = rows[j].key) =>
         used # Whatever /\ (rows[i].status \notin used \/ rows[j].status \notin used)
  /\ \A c \in Clerk : LookedUp(c) =>
       \A i \in DOMAIN rows : rows[i].key = request[c].key =>
         used # Whatever /\ rows[i].status \notin used

UniqueKeys ==
  "key" \in Tables[table].unique =>
    \A i, j \in DOMAIN rows : rows[i].key = rows[j].key => i = j

KeysInv ==
  InTurn => \A used \in SUBSET STRING : LookedUpIn(table, used) => KeysIn(used)

(* A UNIQUE key stays so. *)
LEMMA UniqueKeysKept ==
  ASSUME RowsInv, RowsInv', UniqueKeys, Next
  PROVE  UniqueKeys'
<1>1. PICK c \in Clerk : Goes(c) /\ Steps(c)
  BY NextSteps
<1>2. /\ Len(rows) \in Nat /\ Len(rows') \in Nat
      /\ DOMAIN rows = 1..Len(rows) /\ DOMAIN rows' = 1..Len(rows')
      /\ \A i \in DOMAIN rows : i \in DOMAIN rows' /\ rows'[i].key = rows[i].key
      /\ table' = table
  BY <1>1 DEF Goes, RowsInv, RowsGrow
<1> SUFFICES ASSUME "key" \in Tables[table].unique, NEW i \in DOMAIN rows', NEW j \in DOMAIN rows',
                    rows'[i].key = rows'[j].key
             PROVE  i = j
  BY <1>2 DEF UniqueKeys
<1>3. \A k, m \in DOMAIN rows : rows[k].key = rows[m].key => k = m
  BY DEF UniqueKeys
<1>4. CASE ~Inserted(c)
  BY <1>1, <1>2, <1>3, <1>4, SameRows
<1>5. CASE Inserted(c)
  <2>1. /\ Len(rows') = Len(rows) + 1 /\ rows'[Len(rows) + 1].key = request[c].key
        /\ \A k \in DOMAIN rows : rows[k].key # request[c].key
    BY <1>5 DEF Inserted, IsTaken
  <2>2. \A k \in DOMAIN rows' : k \in DOMAIN rows \/ k = Len(rows) + 1
    BY <1>2, <2>1
  <2> QED  BY <1>2, <1>3, <2>1, <2>2
<1> QED  BY <1>4, <1>5

(* Keys that are looked up, when requests come in turn *)
LEMMA KeysKept ==
  ASSUME RowsInv, RowsInv', KeysInv, Next
  PROVE  KeysInv'
<1>1. PICK c \in desk : c \in Clerk /\ Goes(c) /\ Steps(c)
  BY NextSteps
<1>2. desk' = desk /\ table' = table /\ Handlers' = Handlers
  BY <1>1 DEF Next, Goes, Handlers
<1> SUFFICES ASSUME InTurn, NEW used \in SUBSET STRING, LookedUpIn(table, used)
             PROVE  KeysIn(used)'
  BY <1>2 DEF KeysInv, InTurn, LookedUpIn
<1>3. KeysIn(used)
  BY DEF KeysInv
<1>4. /\ Len(rows) \in Nat /\ Len(rows') \in Nat /\ table \in DOMAIN Tables
      /\ DOMAIN rows = 1..Len(rows) /\ DOMAIN rows' = 1..Len(rows')
      /\ \A i \in DOMAIN rows : i \in DOMAIN rows' /\ rows'[i].key = rows[i].key
  BY <1>1 DEF Goes, RowsInv, RowsGrow
<1>5. \A i, j \in DOMAIN rows :
        (i # j /\ rows[i].key = rows[j].key) =>
          used # Whatever /\ (rows[i].status \notin used \/ rows[j].status \notin used)
  BY <1>3 DEF KeysIn
<1>6. Stays(used)' <=> Stays(used)
  BY <1>2 DEF Stays
<1> DEFINE h == request[c].handler
           n == request[c].next
<1>7. ASSUME NEW d \in Clerk, LookedUp(d)'
      PROVE  /\ d = c /\ UNCHANGED rows /\ request'[c].key = request[c].key
             /\ \A i \in DOMAIN rows : rows[i].key = request[c].key =>
                  used # Whatever /\ rows[i].status \notin used
  <2>1. d = c
    <3>1. CASE d # c
      <4>1. request'[d] = Unasked
        BY <1>1, <3>1, OthersAreNone DEF Goes
      <4> QED  BY <1>7, <4>1, UnaskedType DEF LookedUp
    <3> QED  BY <3>1
  <2>2. request'[c].handler # <<>> /\ request'[c].next > 1
        /\ request'[c].handler[request'[c].next - 1].do = "unused"
    BY <1>7, <2>1 DEF LookedUp
  <2>3. WentOn(c)
    <3>1. request'[c] # Unasked /\ ~Began(c)
      BY <2>2, UnaskedType DEF Began
    <3>2. ~LeftOut(c)
      <4>1. LeftOut(c) => request'[c].next - 1 = n + 1
        BY DEF LeftOut
      <4> QED  BY <2>2, <4>1 DEF LeftOut
    <3> QED  BY <1>1, <3>1, <3>2, RequestAfter
  <2>4. /\ h[n].do = "unused" /\ h \in Handlers /\ n \in 1..Len(h) /\ h # <<>>
        /\ Learned(c) \/ Inserted(c) \/ Changed(c)
        /\ request'[c].key = request[c].key
    <3>1. request'[c].next - 1 = n /\ request'[c].handler = h
      BY <2>3 DEF WentOn
    <3> QED  BY <2>2, <2>3, <3>1 DEF WentOn
  <2>5. This(c) = h[n] /\ DOMAIN h = 1..Len(h)
    BY <1>4, <2>4, HandlerShape DEF This
  <2>6. Learned(c)
    BY <2>4, <2>5 DEF Inserted, Changed, At
  <2>7. UNCHANGED rows /\ ~Used(c)
    BY <2>4, <2>5, <2>6 DEF Learned, Knows
  <2>8. This(c).in = used
    BY <2>4, <2>5 DEF LookedUpIn, Handlers
  <2> QED  BY <2>1, <2>4, <2>7, <2>8 DEF Used, KeyRows, Whatever
<1>8. ASSUME NEW d \in Clerk, LookedUp(d)', NEW i \in DOMAIN rows', rows'[i].key = request'[d].key
      PROVE  used # Whatever /\ rows'[i].status \notin used
  BY <1>7, <1>8
<1>9. CASE Began(c) \/ EndedEarly(c) \/ WasDone(c) \/ Learned(c) \/ Found(c)
  <2>1. DOMAIN rows' = DOMAIN rows /\ \A i \in DOMAIN rows : rows'[i].status = rows[i].status
    BY <1>9 DEF Began, EndedEarly, WasDone, Learned, Found
  <2> QED  BY <1>3, <1>4, <1>6, <1>8, <2>1 DEF KeysIn
<1>10. CASE Inserted(c)
  <2> DEFINE new == Len(rows) + 1
  <2>1. /\ h # <<>> /\ This(c).do = "insert" /\ Len(rows') = new
        /\ rows'[new].key = request[c].key /\ rows'[new].status \in This(c).in
        /\ \A i \in DOMAIN rows : rows'[i] = rows[i]
    BY <1>10 DEF Inserted, At
  <2>2. h \in Handlers /\ n \in 1..Len(h) /\ Len(h) \in Nat /\ This(c) = h[n] /\ DOMAIN h = 1..Len(h)
    <3>1. h \in Handlers /\ n \in 1..Len(h) /\ Len(h) \in Nat /\ This(c) = h[n]
      BY <1>1, <2>1, AtStatement
    <3> HIDE DEF h, n
    <3> QED  BY <1>4, <3>1, HandlerShape
  <2>3. n > 1 /\ h[n - 1].do = "unused"
    BY <2>1, <2>2 DEF LookedUpIn, Handlers
  <2>4. \A i \in DOMAIN rows : rows[i].key = request[c].key =>
          used # Whatever /\ rows[i].status \notin used
    BY <1>1, <1>3, <2>1, <2>3 DEF KeysIn, LookedUp
  <2>5. Stays(used) => This(c).in \subseteq used
    BY <2>1, <2>2 DEF Stays
  <2>6. \A i \in DOMAIN rows' : i \in DOMAIN rows \/ i = new
    BY <1>4, <2>1
  <2>7. Stays(used) => \A i \in DOMAIN rows' : rows'[i].status \in used
    BY <1>3, <2>1, <2>5, <2>6 DEF KeysIn
  <2>8. ASSUME NEW i \in DOMAIN rows', NEW j \in DOMAIN rows', i # j, rows'[i].key = rows'[j].key
        PROVE  used # Whatever /\ (rows'[i].status \notin used \/ rows'[j].status \notin used)
    <3> HIDE DEF new
    <3>1. CASE i \in DOMAIN rows /\ j \in DOMAIN rows
      BY <1>5, <2>1, <2>8, <3>1
    <3>2. CASE i \in DOMAIN rows /\ j = new
      BY <2>1, <2>4, <2>8, <3>2
    <3>3. CASE i = new /\ j \in DOMAIN rows
      BY <2>1, <2>4, <2>8, <3>3
    <3> QED  BY <2>6, <2>8, <3>1, <3>2, <3>3
  <2> QED  BY <1>6, <1>8, <2>7, <2>8 DEF KeysIn
<1>11. CASE Changed(c)
  <2> DEFINE k == request[c].row
  <2>1. /\ h # <<>> /\ k \in DOMAIN rows /\ DOMAIN rows' = DOMAIN rows
        /\ \A i \in DOMAIN rows : i # k => rows'[i] = rows[i]
        /\ This(c).do = "set" => rows'[k].status \in This(c).in
        /\ This(c).do # "set" => rows'[k].status = rows[k].status
    BY <1>11 DEF Changed, At, Mine
  <2>2. h \in Handlers /\ n \in 1..Len(h) /\ This(c) = h[n] /\ DOMAIN h = 1..Len(h)
    <3>1. h \in Handlers /\ n \in 1..Len(h) /\ This(c) = h[n]
      BY <1>1, <2>1, AtStatement
    <3> HIDE DEF h, n
    <3> QED  BY <1>4, <3>1, HandlerShape
  <2> HIDE DEF k
  <2>3. CASE This(c).do # "set"
    <3>1. \A i \in DOMAIN rows : rows'[i].status = rows[i].status
      BY <2>1, <2>3
    <3> QED  BY <1>3, <1>4, <1>6, <1>8, <2>1, <3>1 DEF KeysIn
  <2>4. CASE This(c).do = "set"
    <3>1. Stays(used) => \A i \in DOMAIN rows' : rows'[i].status \in used
      <4>1. Stays(used) => This(c).in \subseteq used
        BY <2>2, <2>4 DEF Stays
      <4> QED  BY <1>3, <2>1, <2>4, <4>1 DEF KeysIn
    <3>2. used = Whatever \/ Stays(used) \/ This(c).in \cap used = {}
      BY <2>2, <2>4 DEF LookedUpIn, Stays, Handlers
    <3>3. ASSUME NEW i \in DOMAIN rows', NEW j \in DOMAIN rows', i # j, rows'[i].key = rows'[j].key
          PROVE  used # Whatever /\ (rows'[i].status \notin used \/ rows'[j].status \notin used)
      <4>1. /\ i \in DOMAIN rows /\ j \in DOMAIN rows /\ used # Whatever
            /\ rows[i].status \notin used \/ rows[j].status \notin used
        BY <1>4, <1>5, <2>1, <3>3
      <4>2. ~Stays(used)
        BY <1>3, <4>1 DEF KeysIn
      <4>3. rows'[k].status \notin used
        BY <2>1, <2>4, <3>2, <4>1, <4>2
      <4> QED  BY <2>1, <4>1, <4>3
    <3> QED  BY <1>6, <1>8, <3>1, <3>3 DEF KeysIn
  <2> QED  BY <2>3, <2>4
<1> QED  BY <1>1, <1>9, <1>10, <1>11 DEF Steps

(* KeysNeverRepeat: a key that is looked up before the insert is that of   *)
(* one row, when it is UNIQUE or when requests come in turn.               *)
THEOREM RegisterKeys == Spec => []KeysNeverRepeat
<1>1. Init => UniqueKeys /\ KeysInv
  <2> SUFFICES ASSUME Init PROVE UniqueKeys /\ KeysInv
    OBVIOUS
  <2>1. DOMAIN rows = {} /\ \A c \in Clerk : request[c].handler = <<>>
    BY UnaskedType DEF Init, RegistersInit
  <2> QED  BY <2>1 DEF UniqueKeys, KeysInv, KeysIn, LookedUp
<1>2. RowsInv /\ RowsInv' /\ UniqueKeys /\ KeysInv /\ [Next]_<<desk, registerVars>>
      => UniqueKeys' /\ KeysInv'
  <2>1. ASSUME UniqueKeys, KeysInv, UNCHANGED <<desk, registerVars>> PROVE UniqueKeys' /\ KeysInv'
    <3>1. rows' = rows /\ request' = request /\ table' = table /\ InTurn' = InTurn
      BY <2>1 DEF registerVars, InTurn
    <3>2. UniqueKeys'
      BY <2>1, <3>1 DEF UniqueKeys
    <3>3. ASSUME NEW used, KeysIn(used) PROVE KeysIn(used)'
      BY <3>1, <3>3 DEF KeysIn, LookedUp, Stays, Handlers
    <3> QED  BY <2>1, <3>1, <3>2, <3>3 DEF KeysInv
  <2> QED  BY <2>1, UniqueKeysKept, KeysKept
<1>3. RowsInv /\ UniqueKeys /\ KeysInv => KeysNeverRepeat
  <2> SUFFICES ASSUME RowsInv, UniqueKeys, KeysInv,
                      Has({"unused"}), InTurn \/ "key" \in Tables[table].unique,
                      NEW h \in Handlers, NEW i \in DOMAIN rows, NEW j \in DOMAIN rows,
                      h[1].do = "unused", i # j, rows[i].key = rows[j].key
               PROVE  h[1].in # Whatever /\ {rows[i].status, rows[j].status} \ h[1].in # {}
    BY DEF KeysNeverRepeat, Handlers
  <2>1. "key" \notin Tables[table].unique /\ InTurn /\ "unused" \in Kinds[table]
    BY DEF UniqueKeys, Has
  <2>2. table \in DOMAIN Tables /\ 1 \in DOMAIN h /\ h[1].in \in SUBSET STRING
    <3>1. table \in DOMAIN Tables
      BY DEF RowsInv
    <3>2. 1 \in 1..Len(h)
      BY <3>1, HandlerShape
    <3> QED  BY <3>1, <3>2, HandlerShape
  <2>3. PICK used : LookedUpIn(table, used)
    BY <2>1, <2>2, KeysAssumption
  <2>4. used = h[1].in
    BY <2>2, <2>3 DEF LookedUpIn, Handlers
  <2>5. KeysIn(used)
    BY <2>1, <2>2, <2>3, <2>4 DEF KeysInv
  <2> QED  BY <2>4, <2>5 DEF KeysIn
<1> QED  BY <1>1, <1>2, <1>3, RegisterRows, PTL DEF Spec

-----------------------------------------------------------------------------
(* Milestones *)

(* One of the first n statements has shown that the row has passed x. *)
HasShown(t, h, n, x) ==
  \E j \in 1..n : ShowsPassed(t, h[j], x) /\ NoneSince(h, j, n, ChangesRow)

InOrder(m) ==
  /\ \A i \in DOMAIN rows : m[1] \in rows[i].been => m[2] \in rows[i].been
  /\ \A c \in Clerk :
       HasShown(table, request[c].handler, request[c].next - 1, m[2]) =>
         request[c].row \in DOMAIN rows /\ m[2] \in rows[request[c].row].been

MilestonesInv == table \in DOMAIN Milestones => \A m \in Milestones[table] : InOrder(m)

(* What the statement that goes on shows is so, after it. *)
LEMMA ShowsWhatIs ==
  ASSUME RowsInv, RowsInv', NEW c \in Clerk, Goes(c), WentOn(c),
         table \in DOMAIN Milestones, \A m \in Milestones[table] : InOrder(m),
         NEW m \in Milestones[table],
         ShowsPassed(table, request[c].handler[request[c].next], m[2])
  PROVE  request[c].row \in DOMAIN rows' /\ m[2] \in rows'[request[c].row].been
<1> DEFINE h == request[c].handler
           n == request[c].next
           k == request[c].row
           x == m[2]
<1>1. /\ h \in Handlers /\ n \in 1..Len(h) /\ h # <<>>
      /\ Learned(c) \/ Inserted(c) \/ Changed(c)
  BY DEF WentOn
<1>2. /\ This(c) = h[n]
      /\ This(c).do \in AboutARow => k \in DOMAIN rows
  BY <1>1, AtStatement
<1>3. x # ""
  BY MilestonesAssumption
<1>4. ShowsPassed(table, This(c), x)
  BY <1>2
<1>5. k \in DOMAIN rows
  BY <1>2, <1>4 DEF ShowsPassed, AboutARow
<1>6. k \in DOMAIN rows' /\ rows[k].been \subseteq rows'[k].been
  BY <1>5 DEF Goes, RowsGrow
<1>7. table' = table
  BY DEF Goes
<1> HIDE DEF h, n, k, x
<1>8. CASE This(c).do \in {"mark", "once", "again"} /\ This(c).mark = x
  <2>1. Changed(c)
    BY <1>1, <1>8 DEF Learned, Inserted, At, Reads
  <2> QED  BY <1>6, <1>8, <2>1 DEF Changed, k, x
<1>9. CASE This(c).do = "set" /\ This(c).in = {x}
  <2>1. Changed(c)
    BY <1>1, <1>9 DEF Learned, Inserted, At, Reads
  <2>2. rows'[k].status = x
    BY <1>9, <2>1 DEF Changed, k
  <2>3. Tracked(x)' \subseteq rows'[k].been
    BY <1>6, <2>2 DEF RowsInv
  <2>4. x \in Tracked(x)'
    BY <1>7 DEF Tracked, x
  <2> QED  BY <1>6, <2>3, <2>4 DEF k, x
<1>10. CASE This(c).do = "check"
  <2>1. Learned(c)
    BY <1>1, <1>10 DEF Inserted, Changed, At
  <2>2. UNCHANGED rows /\ rows[k].status \in This(c).in /\ This(c).mark \in rows[k].been \cup {""}
    BY <1>10, <2>1 DEF Learned, Knows, Mine, k
  <2>3. Tracked(rows[k].status) \subseteq rows[k].been
    BY <1>5 DEF RowsInv
  <2>4. CASE This(c).mark = x
    BY <1>3, <1>6, <2>2, <2>4 DEF k, x
  <2>5. CASE This(c).mark # x
    <3>1. rows[k].status = x \/ \E d \in Milestones[table] : d[1] = rows[k].status /\ d[2] = x
      BY <1>4, <1>10, <2>2, <2>5 DEF ShowsPassed
    <3>2. CASE rows[k].status = x
      <4>1. x \in Tracked(x)
        BY DEF Tracked, x
      <4> QED  BY <1>6, <2>2, <2>3, <3>2, <4>1 DEF k, x
    <3>3. ASSUME NEW d \in Milestones[table], d[1] = rows[k].status, d[2] = x
          PROVE  x \in rows[k].been
      <4>1. d[1] \in Tracked(d[1])
        BY DEF Tracked
      <4>2. d[1] \in rows[k].been /\ InOrder(d)
        BY <2>3, <3>3, <4>1
      <4> QED  BY <1>5, <3>3, <4>2 DEF InOrder
    <3> QED  BY <1>6, <2>2, <3>1, <3>2, <3>3 DEF k, x
  <2> QED  BY <2>4, <2>5
<1> QED  BY <1>4, <1>8, <1>9, <1>10 DEF ShowsPassed

(* Every step leaves the milestones in order. *)
LEMMA MilestonesKept ==
  ASSUME RowsInv, RowsInv', MilestonesInv, Next
  PROVE  MilestonesInv'
<1>1. PICK c \in Clerk : Goes(c) /\ Steps(c)
  BY NextSteps
<1>2. table' = table
  BY <1>1 DEF Goes
<1> SUFFICES ASSUME table \in DOMAIN Milestones, NEW m \in Milestones[table]
             PROVE  InOrder(m)'
  BY <1>2 DEF MilestonesInv
<1>3. InOrder(m) /\ \A d \in Milestones[table] : InOrder(d)
  BY DEF MilestonesInv
<1>4. /\ Len(rows) \in Nat /\ Len(rows') \in Nat /\ table \in DOMAIN Tables
      /\ DOMAIN rows = 1..Len(rows) /\ DOMAIN rows' = 1..Len(rows')
      /\ \A i \in DOMAIN rows : i \in DOMAIN rows' /\ rows[i].been \subseteq rows'[i].been
  BY <1>1 DEF Goes, RowsInv, RowsGrow
<1> DEFINE h == request[c].handler
           n == request[c].next
           k == request[c].row
<1>5. ASSUME NEW d \in Clerk, HasShown(table, request'[d].handler, request'[d].next - 1, m[2])
      PROVE  request'[d].row \in DOMAIN rows' /\ m[2] \in rows'[request'[d].row].been
  <2>1. PICK j \in 1..(request'[d].next - 1) :
          /\ ShowsPassed(table, request'[d].handler[j], m[2])
          /\ NoneSince(request'[d].handler, j, request'[d].next - 1, ChangesRow)
    BY <1>2, <1>5 DEF HasShown
  <2>2. CASE d # c
    <3>1. request'[d] = request[d]
      BY <1>1, <2>2 DEF Goes
    <3>2. request[d].row \in DOMAIN rows /\ m[2] \in rows[request[d].row].been
      BY <1>3, <2>1, <3>1 DEF InOrder, HasShown
    <3> QED  BY <1>4, <3>1, <3>2
  <2>3. CASE d = c /\ WentOn(c)
    <3>1. /\ request'[c].handler = h /\ request'[c].next - 1 = n /\ n \in Nat
          /\ h[n].do \notin ChangesRow => request'[c].row = k
      BY <2>3 DEF WentOn
    <3>2. CASE j = n
      <4>1. h[n].do \notin ChangesRow /\ ShowsPassed(table, h[n], m[2])
        BY <2>1, <2>3, <3>1, <3>2 DEF ShowsPassed, ChangesRow
      <4>2. k \in DOMAIN rows' /\ m[2] \in rows'[k].been
        BY <1>1, <1>3, <2>3, <4>1, ShowsWhatIs
      <4> QED  BY <2>3, <3>1, <4>1, <4>2
    <3>3. CASE j # n
      <4>1. j \in 1..n /\ NoneSince(h, j, n, ChangesRow)
        BY <2>1, <2>3, <3>1
      <4>2. j \in 1..(n - 1) /\ NoneSince(h, j, n - 1, ChangesRow) /\ h[n].do \notin ChangesRow
        BY <3>1, <3>3, <4>1, SinceStep
      <4>3. k \in DOMAIN rows /\ m[2] \in rows[k].been
        BY <1>3, <2>1, <2>3, <3>1, <4>2 DEF InOrder, HasShown
      <4> QED  BY <1>4, <2>3, <3>1, <4>2, <4>3
    <3> QED  BY <3>2, <3>3
  <2>4. CASE d = c /\ LeftOut(c)
    <3>1. /\ request'[c].handler = h /\ request'[c].next - 1 = n + 1 /\ n \in Nat
          /\ h[n].do = "reuse" /\ h[n + 1].do = "insert"
      BY <2>4 DEF LeftOut
    <3>2. j \in 1..(n + 1) /\ ShowsPassed(table, h[j], m[2]) /\ NoneSince(h, j, n + 1, ChangesRow)
      BY <2>1, <2>4, <3>1
    <3>3. j # n + 1 /\ j # n
      BY <3>1, <3>2 DEF ShowsPassed
    <3>4. n \in (j + 1)..(n + 1)
      BY <3>1, <3>2, <3>3
    <3> QED  BY <3>1, <3>2, <3>4 DEF NoneSince, ChangesRow
  <2>5. CASE d = c /\ (request'[c] = Unasked \/ Began(c))
    <3>1. request'[d].next - 1 = 0
      BY <2>5, UnaskedType DEF Began
    <3> QED  BY <2>1, <3>1
  <2> QED  BY <1>1, <2>2, <2>3, <2>4, <2>5, RequestAfter
<1>6. CASE Began(c) \/ EndedEarly(c) \/ WasDone(c) \/ Learned(c) \/ Found(c)
  <2>1. DOMAIN rows' = DOMAIN rows /\ \A i \in DOMAIN rows : rows'[i].been = rows[i].been
    BY <1>6 DEF Began, EndedEarly, WasDone, Learned, Found
  <2> QED  BY <1>2, <1>3, <1>5, <2>1 DEF InOrder
<1>7. ASSUME Inserted(c) \/ Changed(c)
      PROVE  h \in Handlers /\ n \in 1..Len(h) /\ This(c) = h[n] /\ DOMAIN h = 1..Len(h)
             /\ h # <<>> /\ Len(h) \in Nat
  <2>1. h # <<>>
    BY <1>7 DEF Inserted, Changed, At
  <2>2. h \in Handlers /\ n \in 1..Len(h) /\ This(c) = h[n] /\ Len(h) \in Nat
    BY <2>1, AtStatement
  <2> HIDE DEF h, n
  <2> QED  BY <1>4, <2>1, <2>2, HandlerShape
<1>8. CASE Inserted(c)
  <2> DEFINE new == Len(rows) + 1
  <2>1. /\ This(c).do = "insert" /\ Len(rows') = new /\ rows'[new].status \in This(c).in
        /\ rows'[new].been = Tracked(rows'[new].status)
        /\ \A i \in DOMAIN rows : rows'[i] = rows[i]
    BY <1>8 DEF Inserted, At
  <2>2. m[1] \notin This(c).in
    <3>1. /\ h \in Handlers /\ n \in 1..Len(h) /\ This(c) = h[n] /\ DOMAIN h = 1..Len(h)
      BY <1>7, <1>8
    <3> HIDE DEF h, n
    <3>2. \A i \in DOMAIN h : h[i].do = "insert" => m[1] \notin h[i].in
      BY <3>1, MilestonesAssumption DEF Handlers
    <3> QED  BY <2>1, <3>1, <3>2
  <2>3. m[1] \notin rows'[new].been
    BY <2>1, <2>2 DEF Tracked
  <2>4. \A i \in DOMAIN rows' : i \in DOMAIN rows \/ i = new
    BY <1>4, <2>1
  <2> HIDE DEF new
  <2>5. \A i \in DOMAIN rows' : m[1] \in rows'[i].been => m[2] \in rows'[i].been
    BY <1>3, <2>1, <2>3, <2>4 DEF InOrder
  <2> QED  BY <1>2, <1>5, <2>5 DEF InOrder
<1>9. CASE Changed(c)
  <2>1. /\ k \in DOMAIN rows /\ DOMAIN rows' = DOMAIN rows
        /\ \A i \in DOMAIN rows : i # k => rows'[i] = rows[i]
        /\ This(c).do \in {"set", "mark", "once", "again"}
        /\ This(c).do = "set" => /\ rows'[k].status \in This(c).in
                                /\ rows'[k].been = rows[k].been \cup Tracked(rows'[k].status)
        /\ This(c).do # "set" => rows'[k].been = rows[k].been \cup {This(c).mark}
    BY <1>9 DEF Changed, At, Mine
  <2>2. ASSUME m[1] \in rows'[k].been
        PROVE  m[2] \in rows'[k].been
    <3>1. CASE m[1] \in rows[k].been
      BY <1>3, <1>4, <2>1, <3>1 DEF InOrder
    <3>2. CASE m[1] \notin rows[k].been
      <4>1. \/ This(c).do \in {"mark", "once", "again"} /\ This(c).mark = m[1]
            \/ This(c).do = "set" /\ m[1] \in This(c).in
        BY <2>1, <2>2, <3>2 DEF Tracked
      <4>2. h \in Handlers /\ n \in DOMAIN h /\ This(c) = h[n]
        BY <1>7, <1>9
      <4>3. HasShown(table, h, n - 1, m[2])
        BY <4>1, <4>2, MilestonesAssumption DEF HasShown, Handlers
      <4>4. m[2] \in rows[k].been
        BY <1>3, <4>3 DEF InOrder
      <4> QED  BY <1>4, <2>1, <4>4
    <3> QED  BY <3>1, <3>2
  <2> HIDE DEF k
  <2>3. \A i \in DOMAIN rows' : m[1] \in rows'[i].been => m[2] \in rows'[i].been
    BY <1>3, <2>1, <2>2 DEF InOrder
  <2> QED  BY <1>2, <1>5, <2>3 DEF InOrder
<1> QED  BY <1>1, <1>6, <1>8, <1>9 DEF Steps

(* MilestonesInOrder: a row has passed a milestone only after the earlier  *)
(* ones, however requests interleave or die.                               *)
THEOREM RegisterMilestones == Spec => []MilestonesInOrder
<1>1. Init => MilestonesInv
  <2> SUFFICES ASSUME Init PROVE MilestonesInv
    OBVIOUS
  <2>1. DOMAIN rows = {} /\ \A c \in Clerk : request[c].next - 1 = 0
    BY UnaskedType DEF Init, RegistersInit
  <2> QED  BY <2>1 DEF MilestonesInv, InOrder, HasShown
<1>2. RowsInv /\ RowsInv' /\ MilestonesInv /\ [Next]_<<desk, registerVars>> => MilestonesInv'
  <2>1. ASSUME MilestonesInv, UNCHANGED <<desk, registerVars>> PROVE MilestonesInv'
    <3>1. rows' = rows /\ request' = request /\ table' = table
      BY <2>1 DEF registerVars
    <3>2. ASSUME NEW m, InOrder(m) PROVE InOrder(m)'
      BY <3>1, <3>2 DEF InOrder, HasShown
    <3> QED  BY <2>1, <3>1, <3>2 DEF MilestonesInv
  <2> QED  BY <2>1, MilestonesKept
<1>3. MilestonesInv => MilestonesInOrder
  BY DEF MilestonesInv, MilestonesInOrder, InOrder
<1> QED  BY <1>1, <1>2, <1>3, RegisterRows, PTL DEF Spec

-----------------------------------------------------------------------------
(* Final statuses *)

(* What a request may take its row's status to be among, after n           *)
(* statements: what the last of them that tells says                       *)
Tells(h, j, n) ==
  /\ j \in 1..n /\ h[j].do \in {"check", "onlyIf", "set"}
  /\ NoneSince(h, j, n, ChangesRow \cup {"set"})

StatusKnown(c) ==
  LET q == request[c] IN
  \A j : Tells(q.handler, j, q.next - 1) =>
        q.row \in DOMAIN rows /\ rows[q.row].status \in q.handler[j].in

StatusInv == InTurn => \A c \in Clerk : StatusKnown(c)

(* The statuses of the rows change only when they are set. *)
LEMMA StatusChanges ==
  ASSUME RowsInv, NEW c \in Clerk, Steps(c), NEW i \in DOMAIN rows, rows'[i].status # rows[i].status
  PROVE  /\ Changed(c) /\ This(c).do = "set" /\ i = request[c].row
         /\ rows'[i].status \in This(c).in
<1>1. Changed(c)
  BY DEF Steps, Began, EndedEarly, WasDone, Learned, Found, Inserted
<1>2. i = request[c].row
  BY <1>1 DEF Changed
<1> QED  BY <1>1, <1>2 DEF Changed, Mine

(* In turn, a request's row has the status that the request takes it for. *)
LEMMA StatusKept ==
  ASSUME RowsInv, RowsInv', StatusInv, Next
  PROVE  StatusInv'
<1>1. PICK c \in desk : c \in Clerk /\ Goes(c) /\ Steps(c)
  BY NextSteps
<1>2. desk' = desk
  BY DEF Next
<1> SUFFICES ASSUME InTurn, NEW d \in Clerk, NEW j, Tells(request'[d].handler, j, request'[d].next - 1)
             PROVE  /\ request'[d].row \in DOMAIN rows'
                    /\ rows'[request'[d].row].status \in request'[d].handler[j].in
  BY <1>2 DEF StatusInv, StatusKnown, InTurn
<1> DEFINE h == request[c].handler
           n == request[c].next
           k == request[c].row
           K == ChangesRow \cup {"set"}
<1>3. StatusKnown(c)
  BY <1>1 DEF StatusInv
<1>4. request'[d].next - 1 # 0
  BY DEF Tells
<1>5. d = c
  <2>1. CASE d # c
    <3>1. request'[d] = Unasked
      BY <1>1, <2>1, OthersAreNone DEF Goes
    <3> QED  BY <1>4, <3>1, UnaskedType
  <2> QED  BY <2>1
<1>6. WentOn(c) \/ LeftOut(c)
  <2>1. request'[c] # Unasked /\ ~Began(c)
    BY <1>4, <1>5, UnaskedType DEF Began
  <2> QED  BY <1>1, <2>1, RequestAfter
<1>7. CASE LeftOut(c)
  <2>1. /\ request'[c].handler = h /\ request'[c].next - 1 = n + 1 /\ n \in Nat
        /\ h[n].do = "reuse" /\ h[n + 1].do = "insert"
    BY <1>7 DEF LeftOut
  <2>2. /\ j \in 1..(n + 1) /\ h[j].do \in {"check", "onlyIf", "set"}
        /\ NoneSince(h, j, n + 1, K)
    BY <1>5, <2>1 DEF Tells
  <2>3. n \in (j + 1)..(n + 1)
    BY <2>1, <2>2
  <2> QED  BY <2>1, <2>2, <2>3 DEF NoneSince, ChangesRow
<1>8. CASE WentOn(c)
  <2>1. /\ request'[c].handler = h /\ request'[c].next - 1 = n /\ n \in Nat
        /\ h \in Handlers /\ n \in 1..Len(h) /\ h # <<>>
        /\ Learned(c) \/ Inserted(c) \/ Changed(c)
        /\ h[n].do \notin ChangesRow => request'[c].row = k
    BY <1>8 DEF WentOn
  <2>2. /\ This(c) = h[n]
        /\ This(c).do \in AboutARow => k \in DOMAIN rows
    BY <1>1, <2>1, AtStatement
  <2>3. /\ j \in 1..n /\ h[j].do \in {"check", "onlyIf", "set"} /\ NoneSince(h, j, n, K)
    BY <1>5, <2>1 DEF Tells
  <2>4. \A i \in DOMAIN rows : i \in DOMAIN rows'
    BY <1>1 DEF Goes, RowsGrow
  <2>5. CASE j = n
    <3>1. This(c).do \in {"check", "onlyIf", "set"} /\ k \in DOMAIN rows
          /\ request'[c].row = k
      BY <2>1, <2>2, <2>3, <2>5 DEF AboutARow, ChangesRow
    <3> HIDE DEF k
    <3>2. CASE This(c).do = "set"
      <4>1. Changed(c)
        BY <2>1, <3>2 DEF Learned, Inserted, At, Reads
      <4>2. rows'[k].status \in This(c).in
        BY <3>2, <4>1 DEF Changed, k
      <4> QED  BY <1>5, <2>1, <2>2, <2>4, <2>5, <3>1, <4>2
    <3>3. CASE This(c).do \in {"check", "onlyIf"}
      <4>1. Learned(c)
        BY <2>1, <3>3 DEF Changed, Inserted, At
      <4>2. UNCHANGED rows /\ rows[k].status \in This(c).in
        BY <3>3, <4>1 DEF Learned, Knows, Mine, k
      <4> QED  BY <1>5, <2>1, <2>2, <2>5, <3>1, <4>2
    <3> QED  BY <3>1, <3>2, <3>3
  <2>6. CASE j # n
    <3>1. j \in 1..(n - 1) /\ NoneSince(h, j, n - 1, K) /\ h[n].do \notin K
      BY <2>1, <2>3, <2>6, SinceStep
    <3>2. k \in DOMAIN rows /\ rows[k].status \in h[j].in
      BY <1>3, <2>3, <3>1 DEF StatusKnown, Tells
    <3>3. rows'[k].status = rows[k].status
      BY <1>1, <2>2, <3>1, <3>2, StatusChanges
    <3> QED  BY <1>5, <2>1, <2>4, <3>1, <3>2, <3>3
  <2> QED  BY <2>5, <2>6
<1> QED  BY <1>6, <1>7, <1>8

(* FinalStaysFinal: when requests come in turn, a row does not leave a     *)
(* final status.                                                           *)
THEOREM RegisterFinal == Spec => FinalStaysFinal
<1>1. Init => StatusInv
  <2> SUFFICES ASSUME Init PROVE StatusInv
    OBVIOUS
  <2>1. \A c \in Clerk : request[c].next - 1 = 0
    BY UnaskedType DEF Init, RegistersInit
  <2> QED  BY <2>1 DEF StatusInv, StatusKnown, Tells
<1>2. RowsInv /\ RowsInv' /\ StatusInv /\ [Next]_<<desk, registerVars>> => StatusInv'
  <2>1. ASSUME StatusInv, UNCHANGED <<desk, registerVars>> PROVE StatusInv'
    BY <2>1 DEF StatusInv, StatusKnown, registerVars, InTurn
  <2> QED  BY <2>1, StatusKept
<1>3. RowsInv /\ StatusInv /\ [Next]_<<desk, registerVars>> =>
        [(InTurn /\ table \in DOMAIN Final) =>
           \A i \in DOMAIN rows :
             rows[i].status \in Final[table] => rows'[i].status = rows[i].status]_registerVars
  <2> SUFFICES ASSUME RowsInv, StatusInv, Next, InTurn, table \in DOMAIN Final,
                      NEW i \in DOMAIN rows, rows[i].status \in Final[table]
               PROVE  rows'[i].status = rows[i].status
    OBVIOUS
  <2>1. PICK c \in Clerk : Steps(c)
    BY NextSteps
  <2>2. CASE rows'[i].status # rows[i].status
    <3> DEFINE h == request[c].handler
               n == request[c].next
    <3>1. /\ h # <<>> /\ This(c).do = "set" /\ i = request[c].row
          /\ rows'[i].status \in This(c).in
      BY <2>1, <2>2, StatusChanges DEF Changed, At
    <3>2. h \in Handlers /\ n \in 1..Len(h) /\ This(c) = h[n]
      BY <3>1, AtStatement
    <3>3. n \in DOMAIN h /\ table \in DOMAIN Tables /\ StatusKnown(c)
      <4>1. table \in DOMAIN Tables
        BY DEF RowsInv
      <4> HIDE DEF h, n
      <4> QED  BY <3>2, <4>1, HandlerShape DEF StatusInv
    <3>4. PICK j \in 1..(n - 1) : Precedes(table, h, j, n)
      <4> HIDE DEF h, n
      <4> QED  BY <3>1, <3>2, <3>3, FinalAssumption DEF Handlers
    <3>5. rows[i].status \in h[j].in
      BY <3>1, <3>3, <3>4 DEF StatusKnown, Tells, Precedes
    <3> QED  BY <3>1, <3>2, <3>4, <3>5 DEF Precedes
  <2> QED  BY <2>2
<1> QED  BY <1>1, <1>2, <1>3, RegisterRows, PTL DEF Spec, FinalStaysFinal

-----------------------------------------------------------------------------
(* Effects *)

(* The effects of the first n statements *)
SoFar(h, n) == {h[j].mark : j \in {k \in 1..n : h[k].do = "again"}}

(* A request that acts knows that its row is not done, and has had only    *)
(* what the request has done for it; after that it sets it to done.        *)
Acting(E, done, c) ==
  LET q == request[c]  h == q.handler  n == q.next - 1 IN
  /\ q.acted => \E j \in 1..n : h[j].do = "again"
  /\ (h # <<>> /\ n >= 1 /\ ChecksFirst(h, done)) =>
       q.row \in DOMAIN rows /\ (rows[q.row].hurt \/ rows[q.row].been \cap E \subseteq SoFar(h, n))
  /\ (h # <<>> /\ Acts(h) /\ \E j \in 1..n : h[j].do = "set") => rows[q.row].status \in done

(* A row that has had effects is done, unless a request is acting on it.   *)
RowDone(E, done, i) ==
  (rows[i].been \cap E # {} /\ ~rows[i].hurt) =>
    rows[i].status \in done \/ \E c \in Clerk : request[c].acted /\ request[c].row = i

EffectsIn(E, done) ==
  /\ \A i \in DOMAIN rows : (rows[i].twice # {} => rows[i].hurt) /\ RowDone(E, done, i)
  /\ \A c \in Clerk : Acting(E, done, c)

EffectsInv ==
  (InTurn /\ "again" \in Kinds[table]) =>
    \A done : EndsIn(table, done) => EffectsIn(Effects(table), done)

(* Where no handler repeats an effect, no row has had one again. *)
NeverTwice ==
  "again" \notin Kinds[table] => \A i \in DOMAIN rows : rows[i].twice = {}

(* What EndsIn says of the statement that a request is at *)
LEMMA EndsAtStatement ==
  ASSUME RowsInv, NEW c \in Clerk, request[c].handler # <<>>, NEW done, EndsIn(table, done)
  PROVE  LET h == request[c].handler  n == request[c].next  s == This(c) IN
         /\ n \in 1..Len(h) /\ Len(h) \in Nat /\ h \in Handlers /\ DOMAIN h = 1..Len(h) /\ s = h[n]
         /\ s.do = "again" => Acts(h) /\ s.mark \in Effects(table)
         /\ Acts(h) => ChecksFirst(h, done) /\ \E j \in 1..Len(h) : h[j].do = "set"
         /\ ChecksFirst(h, done) => s.do \notin ChangesRow
         /\ \A j \in 1..(n - 1) : h[j].do = "again" =>
              /\ s.do \notin {"onlyIf", "onlyWith"}
              /\ s.do = "again" => h[j].mark # s.mark
         /\ s.do = "set" => s.in \subseteq done \/ (ChecksFirst(h, done) /\ ~Acts(h))
         /\ s.do \in {"insert", "set"} => s.in \cap Effects(table) = {}
         /\ s.do \in {"mark", "once"} => s.mark \notin Effects(table)
<1> DEFINE h == request[c].handler
           n == request[c].next
<1>1. h \in Handlers /\ n \in 1..Len(h) /\ Len(h) \in Nat /\ This(c) = h[n]
  BY AtStatement
<1> HIDE DEF h, n
<1>2. DOMAIN h = 1..Len(h)
  <2>1. table \in DOMAIN Tables
    BY DEF RowsInv
  <2> QED  BY <1>1, <2>1, HandlerShape
<1>3. \A j \in DOMAIN h : h[j].do = "again" => Acts(h) /\ h[j].mark \in Effects(table)
  BY <1>1 DEF Acts, Effects, Handlers
<1>4. Acts(h) =>
        /\ ChecksFirst(h, done)
        /\ \E i \in DOMAIN h : h[i].do = "set"
        /\ \A i, j \in DOMAIN h :
             (h[i].do = "again" /\ i < j) =>
               /\ h[j].do \notin {"onlyIf", "onlyWith"}
               /\ h[j].do = "again" => h[i].mark # h[j].mark
  BY <1>1 DEF EndsIn, Handlers
<1>5. /\ h[n].do = "set" => h[n].in \subseteq done \/ (ChecksFirst(h, done) /\ ~Acts(h))
      /\ h[n].do \in {"insert", "set"} => h[n].in \cap Effects(table) = {}
      /\ h[n].do \in {"mark", "once"} => h[n].mark \notin Effects(table)
  BY <1>1, <1>2 DEF EndsIn, Handlers
<1>6. ChecksFirst(h, done) => h[n].do \notin ChangesRow
  BY <1>1 DEF ChecksFirst, NoneSince
<1>7. ASSUME NEW j \in 1..(n - 1), h[j].do = "again"
      PROVE  /\ h[n].do \notin {"onlyIf", "onlyWith"}
             /\ h[n].do = "again" => h[j].mark # h[n].mark
  <2>1. j \in DOMAIN h /\ n \in DOMAIN h /\ j < n
    BY <1>1, <1>2
  <2>2. Acts(h)
    BY <1>3, <1>7, <2>1
  <2> QED  BY <1>4, <1>7, <2>1, <2>2
<1>8. n \in DOMAIN h
  BY <1>1, <1>2
<1> QED  BY <1>1, <1>2, <1>3, <1>4, <1>5, <1>6, <1>7, <1>8 DEF h, n

(* A request that has acted goes on, or leaves a row that is done. *)
LEMMA StillActing ==
  ASSUME RowsInv, NEW c \in Clerk, request[c].handler # <<>>, NEW done, EndsIn(table, done),
         NEW E, Acting(E, done, c), Acts(request[c].handler), This(c).do # "set",
         NEW q \in Request, GoneOn(c, 1, q), q.acted, q.row = request[c].row
  PROVE  \/ request'[c].acted /\ request'[c].row = request[c].row
         \/ rows[request[c].row].status \in done
<1> DEFINE h == request[c].handler
           n == request[c].next
<1>1. /\ n \in 1..Len(h) /\ Len(h) \in Nat /\ This(c) = h[n]
      /\ \E j \in 1..Len(h) : h[j].do = "set"
  BY EndsAtStatement
<1>2. CASE request'[c].acted /\ request'[c].row = request[c].row
  BY <1>2
<1>3. CASE ~(request'[c].acted /\ request'[c].row = request[c].row)
  <2>1. n + 1 > Len(h)
    BY <1>3 DEF GoneOn
  <2>2. PICK j \in 1..(n - 1) : h[j].do = "set"
    BY <1>1, <2>1
  <2> QED  BY <2>2 DEF Acting
<1> QED  BY <1>2, <1>3

(* What a row has been, after a change: an effect only by an effect *)
LEMMA EffectsOfChange ==
  ASSUME RowsInv, NEW c \in Clerk, NEW done, EndsIn(table, done), Changed(c)
  PROVE  LET k == request[c].row  E == Effects(table) IN
         /\ This(c).do # "again" => rows'[k].been \cap E = rows[k].been \cap E
         /\ This(c).do = "again" => rows'[k].been \cap E = (rows[k].been \cap E) \cup {This(c).mark}
<1>1. request[c].handler # <<>> /\ This(c).do \in {"set", "mark", "once", "again"}
  BY DEF Changed, At
<1>2. /\ This(c).do = "again" => This(c).mark \in Effects(table)
      /\ This(c).do \in {"insert", "set"} => This(c).in \cap Effects(table) = {}
      /\ This(c).do \in {"mark", "once"} => This(c).mark \notin Effects(table)
  BY <1>1, EndsAtStatement
<1> DEFINE k == request[c].row
<1>3. /\ This(c).do = "set" => /\ rows'[k].status \in This(c).in
                              /\ rows'[k].been = rows[k].been \cup Tracked(rows'[k].status)
      /\ This(c).do # "set" => rows'[k].been = rows[k].been \cup {This(c).mark}
  BY DEF Changed, Mine
<1> HIDE DEF k
<1>4. Tracked(rows'[k].status) \subseteq {rows'[k].status}
  BY DEF Tracked
<1> QED  BY <1>1, <1>2, <1>3, <1>4 DEF k

(* The request that takes the step acts as before. *)
LEMMA ActingKept ==
  ASSUME RowsInv, RowsInv', InTurn, NEW c \in desk, c \in Clerk, Goes(c), Steps(c),
         NEW done, EndsIn(table, done), NEW E, E = Effects(table), EffectsIn(E, done)
  PROVE  Acting(E, done, c)'
<1> DEFINE h == request[c].handler
           n == request[c].next
           k == request[c].row
<1>1. Acting(E, done, c)
  BY DEF EffectsIn
<1>2. CASE request'[c] = Unasked
  <2>1. ~request'[c].acted /\ request'[c].handler = <<>>
    BY <1>2, UnaskedType
  <2> QED  BY <2>1 DEF Acting
<1>3. CASE Began(c)
  <2>1. ~request'[c].acted /\ request'[c].next - 1 = 0
    BY <1>3 DEF Began
  <2> QED  BY <2>1 DEF Acting
<1>4. CASE LeftOut(c)
  <2>1. /\ h # <<>> /\ This(c).do = "reuse" /\ request'[c].handler = h
        /\ request'[c].acted = request[c].acted
    BY <1>4 DEF LeftOut, This
  <2>2. ~ChecksFirst(h, done) /\ ~Acts(h)
    BY <2>1, EndsAtStatement DEF ChangesRow
  <2>3. ~request[c].acted
    <3>1. \A j \in 1..(n - 1) : h[j].do # "again"
      BY <2>1, <2>2, EndsAtStatement DEF Acts
    <3> QED  BY <1>1, <3>1 DEF Acting
  <2> QED  BY <2>1, <2>2, <2>3 DEF Acting
<1>5. CASE WentOn(c)
  <2>1. /\ h # <<>> /\ request'[c].handler = h /\ request'[c].next - 1 = n
        /\ Learned(c) \/ Inserted(c) \/ Changed(c)
        /\ h[n].do \notin ChangesRow => request'[c].row = k
        /\ h[n].do = "next" => ~request'[c].acted
        /\ h[n].do \notin {"next", "again"} => request'[c].acted = request[c].acted
    BY <1>5 DEF WentOn
  <2>2. /\ n \in 1..Len(h) /\ Len(h) \in Nat /\ DOMAIN h = 1..Len(h) /\ This(c) = h[n]
        /\ Acts(h) => ChecksFirst(h, done)
        /\ ChecksFirst(h, done) => This(c).do \notin ChangesRow
    BY <2>1, EndsAtStatement
  <2>3. request'[c].acted => \E j \in 1..n : h[j].do = "again"
    <3>1. CASE This(c).do = "again"
      BY <2>2, <3>1
    <3>2. CASE This(c).do # "again"
      <4>1. request'[c].acted => request[c].acted
        BY <2>1, <2>2, <3>2
      <4>2. request[c].acted => \E j \in 1..(n - 1) : h[j].do = "again"
        BY <1>1 DEF Acting
      <4> QED  BY <2>2, <4>1, <4>2
    <3> QED  BY <3>1, <3>2
  <2>4. ASSUME ChecksFirst(h, done)
        PROVE  /\ k \in DOMAIN rows /\ k \in DOMAIN rows' /\ request'[c].row = k
               /\ rows'[k].hurt \/ rows'[k].been \cap E \subseteq SoFar(h, n)
    <3>1. This(c).do \notin ChangesRow /\ request'[c].row = k
      BY <2>1, <2>2, <2>4
    <3>2. CASE n = 1
      <4>1. This(c).do = "check" /\ This(c).in \cap done = {}
        BY <2>2, <2>4, <3>2 DEF ChecksFirst
      <4>2. Learned(c) /\ k \in DOMAIN rows
        BY <2>1, <4>1, AtStatement DEF Inserted, Changed, At, AboutARow
      <4>3. UNCHANGED rows /\ rows[k].status \in This(c).in
        BY <4>1, <4>2 DEF Learned, Knows, Mine
      <4>4. \A d \in Clerk : ~request[d].acted
        <5>1. ~request[c].acted
          BY <1>1, <3>2 DEF Acting
        <5>2. \A d \in Clerk : d # c => request[d] = Unasked
          BY OthersAreNone
        <5> QED  BY <5>1, <5>2, UnaskedType
      <4>5. RowDone(E, done, k)
        BY <4>2 DEF EffectsIn
      <4>6. rows[k].hurt \/ rows[k].been \cap E = {}
        BY <4>1, <4>3, <4>4, <4>5 DEF RowDone
      <4> QED  BY <3>1, <4>2, <4>3, <4>6
    <3>3. CASE n # 1
      <4>1. k \in DOMAIN rows /\ (rows[k].hurt \/ rows[k].been \cap E \subseteq SoFar(h, n - 1))
        <5>1. n - 1 >= 1
          BY <2>2, <3>3
        <5> QED  BY <1>1, <2>1, <2>4, <5>1 DEF Acting
      <4>2. k \in DOMAIN rows' /\ rows[k].hurt => rows'[k].hurt
        BY <4>1 DEF Goes, RowsGrow
      <4>3. SoFar(h, n - 1) \subseteq SoFar(h, n)
        BY <2>2 DEF SoFar
      <4>4. This(c).do = "again" => This(c).mark \in SoFar(h, n)
        BY <2>2 DEF SoFar
      <4>5. rows'[k].been \cap E \subseteq (rows[k].been \cap E) \cup SoFar(h, n)
        <5>1. CASE Learned(c)
          BY <5>1 DEF Learned
        <5>2. CASE Changed(c)
          BY <4>4, <5>2, EffectsOfChange
        <5>3. ~Inserted(c)
          BY <3>1 DEF Inserted, At, ChangesRow
        <5> QED  BY <2>1, <5>1, <5>2, <5>3
      <4>6. k \in DOMAIN rows'
        BY <4>1 DEF Goes, RowsGrow
      <4> QED  BY <3>1, <4>1, <4>2, <4>3, <4>5, <4>6
    <3> QED  BY <3>2, <3>3
  <2>5. ASSUME Acts(h), NEW j \in 1..n, h[j].do = "set"
        PROVE  rows'[k].status \in done
    <3>1. k \in DOMAIN rows /\ ChecksFirst(h, done)
      BY <2>2, <2>4, <2>5
    <3>2. CASE This(c).do = "set"
      <4>1. Changed(c)
        BY <2>1, <3>2 DEF Learned, Inserted, At, Reads
      <4>2. rows'[k].status \in This(c).in
        BY <3>2, <4>1 DEF Changed
      <4>3. This(c).in \subseteq done
        BY <2>1, <2>5, <3>2, EndsAtStatement
      <4> QED  BY <4>2, <4>3
    <3>3. CASE This(c).do # "set"
      <4>1. rows'[k].status = rows[k].status
        BY <3>1, <3>3, StatusChanges
      <4>2. j \in 1..(n - 1)
        BY <2>2, <2>5, <3>3
      <4>3. rows[k].status \in done
        BY <1>1, <2>1, <2>5, <4>2 DEF Acting
      <4> QED  BY <4>1, <4>3
    <3> QED  BY <3>2, <3>3
  <2>6. Acts(h) => ChecksFirst(h, done) /\ request'[c].row = k
    BY <2>2, <2>4
  <2> QED  BY <2>1, <2>3, <2>4, <2>5, <2>6 DEF Acting
<1> QED  BY <1>2, <1>3, <1>4, <1>5, RequestAfter

(* A row keeps what it has, when its request goes on. *)
LEMMA RowStaysDone ==
  ASSUME RowsInv, InTurn, NEW c \in desk, c \in Clerk, Goes(c), NEW done, NEW E,
         NEW i \in DOMAIN rows, RowDone(E, done, i), rows'[i] = rows[i],
         ~(request[c].acted /\ request[c].row = i)
  PROVE  RowDone(E, done, i)'
<1>1. ~\E d \in Clerk : request[d].acted /\ request[d].row = i
  <2>1. \A d \in Clerk : d # c => request[d] = Unasked
    BY OthersAreNone
  <2> QED  BY <2>1, UnaskedType
<1> QED  BY <1>1 DEF RowDone

(* A request that has not acted leaves a handler that does not act. *)
LEMMA RowsDoneKept ==
  ASSUME RowsInv, RowsInv', InTurn, NEW c \in desk, c \in Clerk, Goes(c), Steps(c),
         NEW done, EndsIn(table, done), NEW E, E = Effects(table), EffectsIn(E, done),
         NEW i \in DOMAIN rows'
  PROVE  (rows'[i].twice # {} => rows'[i].hurt) /\ RowDone(E, done, i)'
<1> DEFINE h == request[c].handler
           n == request[c].next
           k == request[c].row
<1>1. /\ Acting(E, done, c)
      /\ \A j \in DOMAIN rows : (rows[j].twice # {} => rows[j].hurt) /\ RowDone(E, done, j)
  BY DEF EffectsIn
<1>2. /\ Len(rows) \in Nat /\ Len(rows') \in Nat
      /\ DOMAIN rows = 1..Len(rows) /\ DOMAIN rows' = 1..Len(rows')
      /\ \A j \in DOMAIN rows : j \in DOMAIN rows' /\ (rows[j].hurt => rows'[j].hurt)
  BY DEF Goes, RowsInv, RowsGrow
<1>3. request[c].acted => /\ h # <<>> /\ Acts(h) /\ ChecksFirst(h, done)
                          /\ \E j \in 1..(n - 1) : h[j].do = "again"
  <2>1. ASSUME request[c].acted
        PROVE  h # <<>>
    BY <2>1, UnaskedType DEF RowsInv, KnowsItsRow
  <2>2. ASSUME request[c].acted
        PROVE  \E j \in 1..(n - 1) : h[j].do = "again"
    BY <1>1, <2>2 DEF Acting
  <2>3. ASSUME request[c].acted
        PROVE  Acts(h) /\ ChecksFirst(h, done)
    <3>1. h # <<>> /\ n \in 1..Len(h) /\ Len(h) \in Nat /\ DOMAIN h = 1..Len(h)
      BY <2>1, <2>3, EndsAtStatement
    <3>2. Acts(h)
      BY <2>2, <2>3, <3>1 DEF Acts
    <3> QED  BY <3>1, <3>2, EndsAtStatement
  <2> QED  BY <2>1, <2>2, <2>3
<1>4. CASE Began(c)
  <2>1. ~request[c].acted /\ UNCHANGED rows
    BY <1>3, <1>4 DEF Began
  <2> QED  BY <1>1, <2>1, RowStaysDone
<1>5. CASE WasDone(c)
  <2>1. ~request[c].acted /\ UNCHANGED rows
    <3>1. h # <<>> /\ This(c).do \in {"onlyIf", "onlyWith"} /\ UNCHANGED rows
      BY <1>5 DEF WasDone, At
    <3> QED  BY <1>3, <3>1, EndsAtStatement
  <2> QED  BY <1>1, <2>1, RowStaysDone
<1>6. CASE Found(c)
  <2>1. ~request[c].acted /\ UNCHANGED rows
    <3>1. h # <<>> /\ This(c).do = "reuse" /\ UNCHANGED rows
      BY <1>6 DEF Found, At
    <3> QED  BY <1>3, <3>1, EndsAtStatement DEF ChangesRow
  <2> QED  BY <1>1, <2>1, RowStaysDone
<1>7. CASE EndedEarly(c)
  <2>1. /\ i \in DOMAIN rows
        /\ i # k \/ ~request[c].acted => rows'[i] = rows[i]
        /\ rows'[i].twice = rows[i].twice
        /\ i = k /\ request[c].acted => rows'[i].hurt
    BY <1>7 DEF EndedEarly
  <2>2. CASE i = k /\ request[c].acted
    BY <2>1, <2>2 DEF RowDone
  <2>3. CASE ~(i = k /\ request[c].acted)
    BY <1>1, <2>1, <2>3, RowStaysDone
  <2> QED  BY <2>2, <2>3
<1>8. CASE Inserted(c)
  <2> DEFINE new == Len(rows) + 1
  <2>1. /\ h # <<>> /\ This(c).do = "insert" /\ Len(rows') = new
        /\ rows'[new].status \in This(c).in /\ rows'[new].been = Tracked(rows'[new].status)
        /\ rows'[new].twice = {} /\ \A j \in DOMAIN rows : rows'[j] = rows[j]
    BY <1>8 DEF Inserted, At
  <2>2. ~request[c].acted /\ This(c).in \cap E = {}
    BY <1>3, <2>1, EndsAtStatement DEF ChangesRow
  <2>3. CASE i \in DOMAIN rows
    BY <1>1, <2>1, <2>2, <2>3, RowStaysDone
  <2>4. CASE i = new
    <3>1. rows'[i].been \cap E = {}
      BY <2>1, <2>2, <2>4 DEF Tracked
    <3>2. RowDone(E, done, i)'
      BY <3>1 DEF RowDone
    <3> QED  BY <2>1, <2>4, <3>2
  <2>5. i \in DOMAIN rows \/ i = new
    BY <1>2, <2>1
  <2> QED  BY <2>3, <2>4, <2>5
<1>9. CASE Learned(c)
  <2>1. h # <<>> /\ This(c).do \in Reads /\ UNCHANGED rows
    BY <1>9 DEF Learned, At
  <2>2. CASE ~(request[c].acted /\ k = i)
    BY <1>1, <2>1, <2>2, RowStaysDone
  <2>3. CASE request[c].acted /\ k = i
    <3>1. Acts(h) /\ This(c).do \notin ChangesRow
      BY <1>3, <2>1, <2>3, EndsAtStatement
    <3>2. PICK q \in Request : GoneOn(c, 1, q) /\ q.row = k /\ q.acted
      BY <1>9, <2>3, <3>1 DEF Learned, Knows, ChangesRow
    <3>3. \/ request'[c].acted /\ request'[c].row = i
          \/ rows[i].status \in done
      BY <1>1, <2>1, <2>3, <3>1, <3>2, StillActing DEF Reads
    <3> QED  BY <1>1, <2>1, <3>3 DEF RowDone
  <2> QED  BY <2>2, <2>3
<1>10. CASE Changed(c)
  <2>1. /\ h # <<>> /\ This(c).do \in {"set", "mark", "once", "again"}
        /\ k \in DOMAIN rows /\ i \in DOMAIN rows
        /\ \A j \in DOMAIN rows : j # k => rows'[j] = rows[j]
        /\ rows'[k].hurt = rows[k].hurt
        /\ This(c).do = "set" => rows'[k].status \in This(c).in
        /\ This(c).do # "set" => rows'[k].status = rows[k].status
        /\ This(c).do # "again" => rows'[k].twice = rows[k].twice
        /\ This(c).do = "again" => rows'[k].twice = rows[k].twice \cup ({This(c).mark} \cap rows[k].been)
    BY <1>10 DEF Changed, At, Mine
  <2>2. CASE i # k
    BY <1>1, <2>1, <2>2, RowStaysDone
  <2>3. n \in 1..Len(h) /\ Len(h) \in Nat /\ This(c) = h[n]
    BY <2>1, EndsAtStatement
  <2>4. ASSUME ChecksFirst(h, done)
        PROVE  rows[k].hurt \/ rows[k].been \cap E \subseteq SoFar(h, n - 1)
    <3>1. n # 1
      BY <2>1, <2>3, <2>4 DEF ChecksFirst
    <3>2. n - 1 >= 1
      BY <2>3, <3>1
    <3> QED  BY <1>1, <2>1, <2>4, <3>2 DEF Acting
  <2>5. CASE i = k /\ This(c).do = "set"
    <3>1. rows'[k].been \cap E = rows[k].been \cap E
      BY <1>10, <2>5, EffectsOfChange
    <3>2. This(c).in \subseteq done \/ (ChecksFirst(h, done) /\ ~Acts(h))
      BY <2>1, <2>5, EndsAtStatement
    <3>3. CASE This(c).in \subseteq done
      <4>1. rows'[i].status \in done
        BY <2>1, <2>5, <3>3
      <4> QED  BY <1>1, <2>1, <2>5, <4>1 DEF RowDone
    <3>4. CASE ChecksFirst(h, done) /\ ~Acts(h)
      <4>1. SoFar(h, n - 1) = {}
        <5>1. \A j \in 1..(n - 1) : h[j].do # "again"
          BY <2>1, <2>3, <3>4, EndsAtStatement DEF Acts
        <5> QED  BY <5>1 DEF SoFar
      <4>2. rows'[i].hurt \/ rows'[i].been \cap E = {}
        BY <2>1, <2>4, <2>5, <3>1, <3>4, <4>1
      <4> QED  BY <1>1, <2>1, <2>5, <4>2 DEF RowDone
    <3> QED  BY <3>2, <3>3, <3>4
  <2>6. CASE i = k /\ This(c).do # "set"
    <3>1. PICK q \in Request :
            /\ GoneOn(c, 1, q) /\ q.row = k
            /\ This(c).do # "again" => q.acted = request[c].acted
            /\ This(c).do = "again" => q.acted
      BY <1>10 DEF Changed
    <3>2. This(c).do = "again" => Acts(h) /\ This(c).mark \in E /\ ChecksFirst(h, done)
      BY <2>1, EndsAtStatement
    <3>3. q.acted => \/ request'[c].acted /\ request'[c].row = i
                    \/ rows[i].status \in done
      <4>1. q.acted => Acts(h)
        BY <1>3, <3>1, <3>2
      <4> QED  BY <1>1, <2>1, <2>6, <3>1, <4>1, StillActing
    <3>4. ~q.acted => (rows[i].been \cap E # {} /\ ~rows[i].hurt => rows[i].status \in done)
      <4>1. ~q.acted => ~request[c].acted
        BY <3>1
      <4>2. \A d \in Clerk : d # c => request[d] = Unasked
        BY OthersAreNone
      <4> QED  BY <1>1, <2>1, <4>1, <4>2, UnaskedType DEF RowDone
    <3>5. CASE This(c).do # "again"
      <4>1. rows'[i].been \cap E = rows[i].been \cap E
        BY <1>10, <2>6, <3>5, EffectsOfChange
      <4> QED  BY <1>1, <2>1, <2>6, <3>3, <3>4, <3>5, <4>1 DEF RowDone
    <3>6. CASE This(c).do = "again"
      <4>1. RowDone(E, done, i)'
        BY <2>1, <2>6, <3>1, <3>3, <3>6 DEF RowDone
      <4>2. This(c).mark \in rows[k].been => rows[k].hurt
        <5>1. ASSUME This(c).mark \in rows[k].been, ~rows[k].hurt
              PROVE  FALSE
          <6>1. This(c).mark \in SoFar(h, n - 1)
            BY <2>4, <3>2, <3>6, <5>1
          <6>2. PICK j \in 1..(n - 1) : h[j].do = "again" /\ h[j].mark = This(c).mark
            BY <6>1 DEF SoFar
          <6> QED  BY <2>1, <3>6, <6>2, EndsAtStatement
        <5> QED  BY <5>1
      <4>3. rows'[i].twice # {} => rows'[i].hurt
        BY <1>1, <2>1, <2>6, <3>6, <4>2
      <4> QED  BY <4>1, <4>3
    <3> QED  BY <3>5, <3>6
  <2> QED  BY <2>2, <2>5, <2>6
<1> QED  BY <1>4, <1>5, <1>6, <1>7, <1>8, <1>9, <1>10 DEF Steps

(* In turn, every step leaves the effects as they should be. *)
LEMMA EffectsKept ==
  ASSUME RowsInv, RowsInv', EffectsInv, Next
  PROVE  EffectsInv'
<1>1. PICK c \in desk : c \in Clerk /\ Goes(c) /\ Steps(c)
  BY NextSteps
<1>2. desk' = desk /\ table' = table
  BY <1>1 DEF Next, Goes
<1> SUFFICES ASSUME InTurn, "again" \in Kinds[table], NEW done, EndsIn(table, done),
                    NEW E, E = Effects(table)
             PROVE  EffectsIn(E, done)'
  BY <1>2 DEF EffectsInv, InTurn
<1>3. EffectsIn(E, done)
  BY DEF EffectsInv
<1>4. ASSUME NEW d \in Clerk PROVE Acting(E, done, d)'
  <2>1. CASE d = c
    BY <1>1, <1>3, <2>1, ActingKept
  <2>2. CASE d # c
    <3>1. request'[d] = Unasked
      BY <1>1, <2>2, OthersAreNone DEF Goes
    <3>2. ~request'[d].acted /\ request'[d].handler = <<>>
      BY <3>1, UnaskedType
    <3> QED  BY <3>2 DEF Acting
  <2> QED  BY <2>1, <2>2
<1>5. \A i \in DOMAIN rows' : (rows'[i].twice # {} => rows'[i].hurt) /\ RowDone(E, done, i)'
  BY <1>1, <1>3, RowsDoneKept
<1> QED  BY <1>4, <1>5 DEF EffectsIn

(* Every step leaves the rows without effects as they are. *)
LEMMA NeverTwiceKept ==
  ASSUME RowsInv, RowsInv', NeverTwice, Next
  PROVE  NeverTwice'
<1>1. PICK c \in Clerk : Goes(c) /\ Steps(c)
  BY NextSteps
<1>2. table' = table /\ table \in DOMAIN Tables
  BY <1>1 DEF Goes, RowsInv
<1> SUFFICES ASSUME "again" \notin Kinds[table], NEW i \in DOMAIN rows'
             PROVE  rows'[i].twice = {}
  BY <1>2 DEF NeverTwice
<1>3. \A j \in DOMAIN rows : rows[j].twice = {}
  BY DEF NeverTwice
<1>4. CASE Began(c) \/ EndedEarly(c) \/ WasDone(c) \/ Learned(c) \/ Found(c)
  <2>1. DOMAIN rows' = DOMAIN rows /\ \A j \in DOMAIN rows : rows'[j].twice = rows[j].twice
    BY <1>4 DEF Began, EndedEarly, WasDone, Learned, Found
  <2> QED  BY <1>3, <2>1
<1>5. CASE Inserted(c)
  <2>1. /\ \A j \in DOMAIN rows : rows'[j] = rows[j]
        /\ rows'[Len(rows) + 1].twice = {} /\ Len(rows') = Len(rows) + 1
    BY <1>5 DEF Inserted
  <2>2. i \in DOMAIN rows \/ i = Len(rows) + 1
    BY <2>1 DEF RowsInv
  <2> QED  BY <1>3, <2>1, <2>2
<1>6. CASE Changed(c)
  <2>1. /\ request[c].handler # <<>> /\ i \in DOMAIN rows
        /\ \A j \in DOMAIN rows : j # request[c].row => rows'[j] = rows[j]
        /\ This(c).do # "again" => rows'[request[c].row].twice = rows[request[c].row].twice
    BY <1>6 DEF Changed, At, Mine
  <2>2. This(c).do # "again"
    <3> DEFINE h == request[c].handler
               n == request[c].next
    <3>1. h \in Handlers /\ n \in 1..Len(h) /\ This(c) = h[n]
      BY <2>1, AtStatement
    <3> HIDE DEF h, n
    <3>2. n \in DOMAIN h
      BY <1>2, <3>1, HandlerShape
    <3> QED  BY <1>2, <3>1, <3>2 DEF Kinds, Handlers
  <2> QED  BY <1>3, <2>1, <2>2
<1> QED  BY <1>1, <1>4, <1>5, <1>6 DEF Steps

(* EffectsOnce: when requests come in turn, what a handler does elsewhere  *)
(* on behalf of a row is done a second time only after a request that had  *)
(* done it ended early.                                                    *)
THEOREM RegisterEffects == Spec => []EffectsOnce
<1>1. Init => EffectsInv /\ NeverTwice
  <2> SUFFICES ASSUME Init PROVE EffectsInv /\ NeverTwice
    OBVIOUS
  <2>1. /\ DOMAIN rows = {}
        /\ \A c \in Clerk : ~request[c].acted /\ request[c].handler = <<>>
    BY UnaskedType DEF Init, RegistersInit
  <2> QED  BY <2>1 DEF EffectsInv, EffectsIn, Acting, NeverTwice
<1>2. RowsInv /\ RowsInv' /\ EffectsInv /\ NeverTwice /\ [Next]_<<desk, registerVars>>
      => EffectsInv' /\ NeverTwice'
  <2>1. ASSUME EffectsInv, UNCHANGED <<desk, registerVars>> PROVE EffectsInv'
    <3>1. rows' = rows /\ request' = request /\ table' = table /\ InTurn' = InTurn
      BY <2>1 DEF registerVars, InTurn
    <3>2. ASSUME NEW E, NEW done, EffectsIn(E, done) PROVE EffectsIn(E, done)'
      BY <3>1, <3>2 DEF EffectsIn, Acting, RowDone
    <3> QED  BY <2>1, <3>1, <3>2 DEF EffectsInv
  <2>2. NeverTwice /\ UNCHANGED <<desk, registerVars>> => NeverTwice'
    BY DEF NeverTwice, registerVars
  <2> QED  BY <2>1, <2>2, EffectsKept, NeverTwiceKept
<1>3. RowsInv /\ EffectsInv /\ NeverTwice => EffectsOnce
  <2> SUFFICES ASSUME RowsInv, EffectsInv, NeverTwice, InTurn, NEW i \in DOMAIN rows, rows[i].twice # {}
               PROVE  rows[i].hurt
    BY DEF EffectsOnce
  <2>1. CASE "again" \in Kinds[table]
    <3>1. PICK done : EndsIn(table, done)
      BY <2>1, EffectsAssumption DEF RowsInv
    <3> QED  BY <2>1, <3>1 DEF EffectsInv, EffectsIn
  <2> QED  BY <2>1 DEF NeverTwice
<1> QED  BY <1>1, <1>2, <1>3, RegisterRows, PTL DEF Spec

=============================================================================
