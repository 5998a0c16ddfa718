--------------------------- MODULE DocumentsProofs ---------------------------
(***************************************************************************)
(* Proofs about module Documents.  The documents' calls go through the     *)
(* journal's own statements, so the journal's invariant carries over; the  *)
(* UNIQUE idempotency key then gives each document one entry at most.      *)
(***************************************************************************)
EXTENDS Documents, JournalProofs

(* A step of the documents' calls is one of the journal's steps, or leaves *)
(* the journal as it is.                                                   *)
LEMMA DocStepIsJournalStep ==
  ASSUME TypeOK, TaskInv, [DocNext]_allVars
  PROVE  [Next]_vars
<1> SUFFICES ASSUME DocNext PROVE [Next]_vars
  BY DEF allVars
<1>1. CASE JournalNext
  <2>1. ASSUME NEW e \in Entry, NEW in \in ManualInput, BeginEntry(e, in)
        PROVE  CreateNext
    BY <2>1, PostingAssumption DEF CreateNext
  <2>2. QED
    BY <1>1, <2>1 DEF JournalNext, Next, CreateNext, CallNext
<1>2. CASE TaskNext
  <2> SUFFICES ASSUME NEW t \in Task,
                      \/ \E d \in Doc : PostReads(t, d) \/ CancelReadsDoc(t, d)
                      \/ TaskStepOf(t)
                      \/ TaskFails(t)
               PROVE  Next \/ UNCHANGED vars
    BY <1>2 DEF TaskNext
  <2>0. t \in Call
    BY TaskAssumption
  <2>1. ASSUME NEW e \in Entry, NEW in \in Input, StartsEntry(t, e, in)
        PROVE  Next
    BY <2>1 DEF StartsEntry, Next, CreateNext
  <2>2. ASSUME PostsEntry(t)
        PROVE  Next \/ UNCHANGED vars
    <3>1. task[t].entry \in Entry
      BY <2>2 DEF PostsEntry, TaskInv
    <3>2. QED
      BY <2>0, <2>2, <3>1 DEF PostsEntry, Next, CallNext
  <2>3. ASSUME ChecksBalance(t) \/ EntryPosted(t)
        PROVE  Next
    BY <2>0, <2>3 DEF ChecksBalance, EntryPosted, Next, CallNext, CallStepOf
  <2>4. ASSUME TaskFails(t)
        PROVE  Next \/ UNCHANGED vars
    <3>1. CASE call[t].at # "idle"
      BY <2>0, <2>4, <3>1 DEF TaskFails, CallFails, Next, CallNext
    <3>2. CASE call[t].at = "idle"
      <4>1. call[t] = Idle
        BY <3>2 DEF TaskInv
      <4>2. call' = call
        BY <2>0, <2>4, <4>1 DEF TaskFails, TypeOK
      <4>3. QED
        BY <2>4, <4>2 DEF TaskFails, vars
    <3>3. QED
      BY <3>1, <3>2
  <2>5. QED
    BY <2>1, <2>2, <2>3, <2>4
       DEF PostReads, CancelReadsDoc, TaskStepOf, EntryRefused, SkipsJournal, EntryFailed,
           MarksPosted, MarksCancelled
<1>3. QED
  BY <1>1, <1>2 DEF DocNext

(* The UNIQUE column at work: a new row's key was not there before. *)
LEMMA KeysPreserved ==
  ASSUME JournalInv, KeysDiffer, [Next]_vars
  PROVE  KeysDiffer'
<1> SUFFICES ASSUME NEW e \in Rows', NEW f \in Rows', e # f,
                    creating'[e].input.key = creating'[f].input.key,
                    creating'[e].input.key # None
             PROVE  FALSE
  BY DEF KeysDiffer, SameKey
<1>1. TypeOK /\ CallInv /\ RowInv /\ e \in Entry /\ f \in Entry
  BY DEF JournalInv, Rows
<1>2. ASSUME NEW g \in Rows'
      PROVE  /\ g \in Entry /\ creating'[g].input = creating[g].input
             /\ g \notin Rows => InsertHeader(g)
  <2>1. g \in Entry
    BY DEF Rows
  <2>2. g \notin Rows => InsertHeader(g)
    <3>1. ASSUME InsertLine(g)
          PROVE  g \in Rows
      BY <1>1, <2>1, <3>1 DEF InsertLine, RowInv
    <3>2. ASSUME NEW c \in Call, PostWrites(c) \/ CancelWrites(c), call[c].entry = g
          PROVE  g \in Rows
      BY <1>1, <3>2 DEF PostWrites, CancelWrites, CallInv
    <3>3. row'[g] = row[g] => g \in Rows
      BY <2>1 DEF Rows
    <3>4. QED
      BY <1>1, <2>1, <3>1, <3>2, <3>3, RowChanges
  <2>3. creating[g].step # "unused"
    BY <1>1, <2>1, <2>2 DEF InsertHeader, RowInv, Rows, NoRow
  <2>4. QED
    BY <1>1, <2>1, <2>2, <2>3, Monotone
<1>3. ASSUME NEW g \in Rows', NEW h \in Rows', g # h, InsertHeader(g),
             creating[g].input.key = creating[h].input.key, creating[g].input.key # None
      PROVE  FALSE
  <2>1. ~KeyTaken(g)
    BY <1>1, <1>3 DEF InsertHeader, Rows, RowInv, NoRow
  <2>2. h \in Rows
    BY <1>1, <1>3 DEF InsertHeader, Rows, TypeOK
  <2>3. QED
    BY <1>3, <2>1, <2>2 DEF KeyTaken, SameKey
<1>4. QED
  BY <1>2, <1>3 DEF KeysDiffer, SameKey

(* Each step of a call of post... or cancel... keeps documents and calls   *)
(* in their types.                                                         *)
LEMMA DocTypeStep ==
  ASSUME DocInv, [DocNext]_allVars
  PROVE  doc' \in [Doc -> DocStatus] /\ task' \in [Task -> TaskState]
<1>1. doc \in [Doc -> DocStatus] /\ task \in [Task -> TaskState]
  BY DEF DocInv, DocTypeOK
<1>2. CASE UNCHANGED docVars
  BY <1>1, <1>2 DEF docVars
<1>3. CASE TaskNext
  <2> SUFFICES ASSUME NEW t \in Task,
                      \/ \E d \in Doc : PostReads(t, d) \/ CancelReadsDoc(t, d)
                      \/ TaskStepOf(t)
                      \/ TaskFails(t)
               PROVE  doc' \in [Doc -> DocStatus] /\ task' \in [Task -> TaskState]
    BY <1>3 DEF TaskNext
  <2>1. NoTask \in TaskState /\ task[t] \in TaskState
    BY <1>1 DEF NoTask, TaskState, TaskStep
  <2>2. ASSUME NEW d \in Doc, PostReads(t, d) \/ CancelReadsDoc(t, d)
        PROVE  doc' \in [Doc -> DocStatus] /\ task' \in [Task -> TaskState]
    BY <1>1, <2>2 DEF PostReads, CancelReadsDoc, TaskState, TaskStep
  <2>3. ASSUME NEW e \in Entry, NEW in \in Input, StartsEntry(t, e, in)
        PROVE  doc' \in [Doc -> DocStatus] /\ task' \in [Task -> TaskState]
    BY <1>1, <2>1, <2>3 DEF StartsEntry, TaskState, TaskStep
  <2>4. ASSUME SkipsJournal(t) \/ PostsEntry(t) \/ EntryPosted(t)
        PROVE  doc' \in [Doc -> DocStatus] /\ task' \in [Task -> TaskState]
    BY <1>1, <2>1, <2>4 DEF SkipsJournal, PostsEntry, EntryPosted, TaskState, TaskStep
  <2>5. ASSUME \/ \E in \in Input : EntryRefused(t, in)
               \/ EntryFailed(t) \/ ChecksBalance(t) \/ TaskFails(t)
        PROVE  doc' \in [Doc -> DocStatus] /\ task' \in [Task -> TaskState]
    BY <1>1, <2>1, <2>5 DEF EntryRefused, EntryFailed, ChecksBalance, TaskFails
  <2>6. ASSUME MarksPosted(t) \/ MarksCancelled(t)
        PROVE  doc' \in [Doc -> DocStatus] /\ task' \in [Task -> TaskState]
    BY <1>1, <2>1, <2>6 DEF MarksPosted, MarksCancelled, DocStatus
  <2>7. QED
    BY <2>2, <2>3, <2>4, <2>5, <2>6 DEF TaskStepOf
<1>4. QED
  BY <1>2, <1>3 DEF DocNext, JournalNext, allVars

(* A call's own step keeps what it knows: createEntry was given the key of *)
(* its document, and postEntry the entry that came out of it.              *)
LEMMA TaskStepPreserves ==
  ASSUME DocInv, NEW t \in Task,
         \/ \E d \in Doc : PostReads(t, d) \/ CancelReadsDoc(t, d)
         \/ TaskStepOf(t)
         \/ TaskFails(t)
  PROVE  TaskInv'
<1> DEFINE Knows(u) ==
      /\ task[u].at # "idle" => task[u].doc \in Doc
      /\ task[u].at \in {"create", "post"} =>
           /\ task[u].entry \in Entry
           /\ creating[task[u].entry].step # "unused"
           /\ creating[task[u].entry].input.key = KeyOf[task[u].doc]
      /\ task[u].at = "post" =>
           call[u].at \in {"lines", "post"} /\ call[u].entry = task[u].entry
      /\ task[u].at # "post" => call[u] = Idle
<1>1. /\ task \in [Task -> TaskState] /\ call \in [Call -> CallState]
      /\ creating \in [Entry -> Creating]
      /\ t \in Call /\ TypeOK /\ CallInv /\ RowInv
  BY TaskAssumption DEF DocInv, DocTypeOK, JournalInv, TypeOK
<1>2. [Next]_vars
  <2>1. [DocNext]_allVars
    BY DEF DocNext, TaskNext
  <2>2. QED
    BY <2>1, DocStepIsJournalStep DEF DocInv, DocTypeOK
<1>3. \A u \in Task : Knows(u)
  BY DEF DocInv, TaskInv
<1>4. ASSUME NEW u \in Task, u # t
      PROVE  task'[u] = task[u] /\ call'[u] = call[u]
  <2>1. u \in Call
    BY TaskAssumption
  <2>2. task'[u] = task[u]
    BY <1>1, <1>4
       DEF PostReads, CancelReadsDoc, TaskStepOf, StartsEntry, EntryRefused, SkipsJournal,
           PostsEntry, EntryFailed, ChecksBalance, EntryPosted, MarksPosted, MarksCancelled,
           TaskFails
  <2>3. call'[u] = call[u]
    BY <1>1, <1>4, <2>1
       DEF PostReads, CancelReadsDoc, TaskStepOf, StartsEntry, EntryRefused, SkipsJournal,
           PostsEntry, EntryFailed, ChecksBalance, EntryPosted, MarksPosted, MarksCancelled,
           TaskFails, vars, BeginEntry, PostReadsHeader, PostReadsLines, PostWrites
  <2>4. QED
    BY <2>2, <2>3
<1>5. ASSUME NEW u \in Task, task'[u] = task[u], call'[u] = call[u]
      PROVE  Knows(u)'
  <2>1. task[u].at \in {"create", "post"} =>
          /\ creating'[task[u].entry].step # "unused"
          /\ creating'[task[u].entry].input = creating[task[u].entry].input
    BY <1>1, <1>2, <1>3, Monotone
  <2>2. QED
    BY <1>3, <1>5, <2>1
<1>6. Knows(t)'
  <2>1. ASSUME NEW d \in Doc, PostReads(t, d) \/ CancelReadsDoc(t, d)
        PROVE  Knows(t)'
    BY <1>1, <1>3, <2>1 DEF PostReads, CancelReadsDoc, NoTask, vars
  <2>2. ASSUME NEW e \in Entry, NEW in \in Input, StartsEntry(t, e, in)
        PROVE  Knows(t)'
    <3>1. task'[t].at = "create" /\ task'[t].entry = e /\ task'[t].doc = task[t].doc
      BY <1>1, <2>2 DEF StartsEntry, TaskState
    <3>2. task[t].doc \in Doc /\ in.key = KeyOf[task[t].doc]
      BY <1>3, <2>2, PostingAssumption DEF StartsEntry
    <3>3. creating'[e].step = "accounts" /\ creating'[e].input = in
      BY <1>1, <2>2 DEF StartsEntry, BeginEntry, Fresh, Creating
    <3>4. call'[t] = Idle
      BY <1>3, <2>2 DEF StartsEntry, BeginEntry
    <3>5. QED
      BY <3>1, <3>2, <3>3, <3>4
  <2>3. ASSUME SkipsJournal(t)
        PROVE  Knows(t)'
    BY <1>1, <1>3, <2>3 DEF SkipsJournal, TaskState, vars
  <2>4. ASSUME PostsEntry(t), PostReadsHeader(t, task[t].entry), task'[t].at = "post"
        PROVE  Knows(t)'
    <3>1. /\ task[t].at = "create" /\ task'[t].entry = task[t].entry
          /\ task'[t].doc = task[t].doc
      BY <1>1, <2>4 DEF PostsEntry, TaskState, NoTask
    <3>2. call'[t].at = "lines" /\ call'[t].entry = task[t].entry /\ creating' = creating
      BY <1>1, <2>4 DEF PostReadsHeader
    <3>3. QED
      BY <1>3, <2>4, <3>1, <3>2
  <2>5. ASSUME task'[t] = NoTask, call'[t] = Idle
        PROVE  Knows(t)'
    BY <2>5 DEF NoTask
  <2>6. ASSUME ChecksBalance(t), call'[t] # Idle
        PROVE  Knows(t)'
    <3>1. task'[t] = task[t] /\ task[t].at = "post"
      BY <1>1, <2>6 DEF ChecksBalance
    <3>2. call'[t].at = "post" /\ call'[t].entry = task[t].entry /\ creating' = creating
      BY <1>1, <1>3, <2>6 DEF ChecksBalance, PostReadsLines
    <3>3. QED
      BY <1>3, <3>1, <3>2
  <2>7. ASSUME EntryPosted(t)
        PROVE  Knows(t)'
    BY <1>1, <1>3, <2>7 DEF EntryPosted, PostWrites, TaskState
  <2>8. ASSUME \/ \E in \in Input : EntryRefused(t, in)
               \/ EntryFailed(t) \/ MarksPosted(t) \/ MarksCancelled(t)
        PROVE  task'[t] = NoTask /\ call'[t] = Idle
    BY <1>1, <1>3, <2>8 DEF EntryRefused, EntryFailed, MarksPosted, MarksCancelled, vars
  <2>9. ASSUME TaskFails(t)
        PROVE  task'[t] = NoTask /\ call'[t] = Idle
    BY <1>1, <2>9 DEF TaskFails
  <2>10. CASE PostsEntry(t)
    BY <1>1, <1>3, <2>4, <2>5, <2>10 DEF PostsEntry, TaskState, vars
  <2>11. CASE ChecksBalance(t)
    BY <1>1, <2>5, <2>6, <2>11 DEF ChecksBalance
  <2>12. QED
    BY <2>1, <2>2, <2>3, <2>5, <2>7, <2>8, <2>9, <2>10, <2>11 DEF TaskStepOf
<1>7. QED
  BY <1>4, <1>5, <1>6 DEF TaskInv

(* The journal's other callers leave the documents' calls alone. *)
LEMMA TaskPreserved ==
  ASSUME DocInv, [DocNext]_allVars
  PROVE  TaskInv'
<1>1. /\ TypeOK /\ CallInv /\ RowInv /\ [Next]_vars
  BY DocStepIsJournalStep DEF DocInv, DocTypeOK, JournalInv
<1>2. CASE TaskNext
  BY <1>2, TaskStepPreserves DEF TaskNext
<1>3. CASE UNCHANGED task /\ \A t \in Task : call'[t] = call[t]
  <2> SUFFICES ASSUME NEW t \in Task
               PROVE  task[t].at \in {"create", "post"} =>
                        /\ creating'[task[t].entry].step # "unused"
                        /\ creating'[task[t].entry].input = creating[task[t].entry].input
    BY <1>3 DEF DocInv, TaskInv
  <2>1. QED
    BY <1>1, Monotone DEF DocInv, TaskInv
<1>4. ASSUME JournalNext
      PROVE  UNCHANGED task /\ \A t \in Task : call'[t] = call[t]
  <2> SUFFICES ASSUME NEW t \in Task PROVE call'[t] = call[t]
    BY <1>4 DEF JournalNext, docVars
  <2>1. t \in Call /\ call \in [Call -> CallState]
    BY <1>1, TaskAssumption DEF TypeOK
  <2>2. CASE UNCHANGED call
    BY <2>2
  <2>3. CASE \E c \in Call \ Task :
               \/ \E e \in Entry : PostReadsHeader(c, e) \/ CancelReads(c, e)
               \/ CallStepOf(c)
               \/ CallFails(c)
    BY <2>1, <2>3 DEF PostReadsHeader, CancelReads, CallStepOf, PostReadsLines, PostWrites,
                      CancelWrites, CallFails
  <2>4. PeriodNext \/ AccountNext => UNCHANGED call
    BY DEF PeriodNext, AccountNext, InsertPeriod, SetPeriodStatus, ClosePeriod, ReopenPeriod,
           OpenTopAccount, MarkAsParent, InsertAccount, OpenAccountFails
  <2>5. ASSUME NEW e \in Entry,
               \/ \E in \in ManualInput : BeginEntry(e, in)
               \/ CreateEntryStep(e)
               \/ CreateEntryFails(e)
        PROVE  UNCHANGED call
    BY <2>5 DEF BeginEntry, CreateEntryStep, CheckLine, CountEntries, InsertHeader, InsertLine,
                CreateEntryFails
  <2>6. QED
    BY <1>4, <2>2, <2>3, <2>4, <2>5 DEF JournalNext
<1>5. QED
  BY <1>2, <1>3, <1>4 DEF DocNext, allVars, docVars, vars

-----------------------------------------------------------------------------
(* The invariant of the documents together with their journal: the         *)
(* journal's own, whoever calls it, and the keys that tie entries to       *)
(* documents.                                                              *)
THEOREM DocInvariant == DocSpec => []DocInv
<1>1. DocInit => DocInv
  <2> SUFFICES ASSUME DocInit PROVE DocInv
    OBVIOUS
  <2>1. JournalInv
    BY JournalStarts DEF DocInit
  <2>2. DocTypeOK
    BY <2>1 DEF JournalInv, DocTypeOK, DocInit, DocStatus, NoTask, TaskState, TaskStep
  <2>3. TaskInv
    BY TaskAssumption DEF DocInit, Init, TaskInv, NoTask
  <2>4. Rows = {}
    BY DEF DocInit, Init, Rows, NoRow
  <2>5. QED
    BY <2>1, <2>2, <2>3, <2>4 DEF DocInv, KeysDiffer
<1>2. DocInv /\ [DocNext]_allVars => DocInv'
  <2> SUFFICES ASSUME DocInv, [DocNext]_allVars PROVE DocInv'
    OBVIOUS
  <2>1. [Next]_vars
    BY DocStepIsJournalStep DEF DocInv, DocTypeOK
  <2>2. JournalInv' /\ KeysDiffer'
    BY <2>1, JournalStep, KeysPreserved DEF DocInv
  <2>3. QED
    BY <2>2, DocTypeStep, TaskPreserved DEF DocInv, DocTypeOK, JournalInv
<1>3. QED
  BY <1>1, <1>2, PTL DEF DocSpec

(* The idempotency key: concurrent calls, retries and failures of post...  *)
(* never leave a document with two journal entries.                        *)
THEOREM OneEntry == DocSpec => []OneEntryPerDocument
<1>1. DocInv => OneEntryPerDocument
  BY KeyAssumption, NoneAssumption
     DEF DocInv, KeysDiffer, SameKey, OneEntryPerDocument, EntriesOf
<1>2. QED
  BY <1>1, DocInvariant, PTL

-----------------------------------------------------------------------------
(* The refinement, with the journal screen out of the way: every caller of *)
(* postEntry and cancelEntry is a document's.                              *)

(* Whether a document is booked depends on the posted entries alone. *)
LEMMA BookedKept ==
  ASSUME DocInv, [Next]_vars, NEW d \in Doc,
         \A e \in Entry : row'[e].status = "posted" <=> row[e].status = "posted"
  PROVE  Booked(d)' <=> Booked(d)
<1>1. TypeOK /\ CallInv /\ RowInv
  BY DEF DocInv, JournalInv
<1>2. ASSUME NEW e \in Entry, row[e].status = "posted"
      PROVE  e \in Rows /\ e \in Rows' /\ creating'[e].input = creating[e].input
  <2>1. e \in Rows /\ e \in Rows'
    BY <1>2 DEF Rows
  <2>2. creating[e].step # "unused"
    BY <1>1, <1>2 DEF RowInv, NoRow
  <2>3. QED
    BY <1>1, <2>1, <2>2, Monotone
<1>3. Booked(d) <=> \E e \in Entry : row[e].status = "posted" /\ creating[e].input.key = KeyOf[d]
  BY DEF Booked, EntriesOf, Rows
<1>4. Booked(d)' <=> \E e \in Entry : row'[e].status = "posted" /\ creating'[e].input.key = KeyOf[d]
  BY DEF Booked, EntriesOf, Rows
<1>5. QED
  BY <1>2, <1>3, <1>4

(* Only a document's own call posts an entry. *)
LEMMA NothingElsePosts ==
  ASSUME Call = Task, DocInv, [DocNext]_allVars, \A t \in Task : ~EntryPosted(t), NEW e \in Entry
  PROVE  row'[e].status = "posted" <=> row[e].status = "posted"
<1>1. TypeOK /\ RowInv
  BY DEF DocInv, JournalInv
<1>2. CASE UNCHANGED row
  BY <1>2
<1>3. TaskNext => UNCHANGED row
  BY DEF TaskNext, PostReads, CancelReadsDoc, TaskStepOf, StartsEntry, BeginEntry, EntryRefused,
         SkipsJournal, PostsEntry, PostReadsHeader, EntryFailed, ChecksBalance, PostReadsLines,
         MarksPosted, MarksCancelled, TaskFails, vars
<1>4. PeriodNext \/ AccountNext => UNCHANGED row
  BY DEF PeriodNext, AccountNext, InsertPeriod, SetPeriodStatus, ClosePeriod, ReopenPeriod,
         OpenTopAccount, MarkAsParent, InsertAccount, OpenAccountFails
<1>5. ASSUME NEW f \in Entry,
             \/ \E in \in ManualInput : BeginEntry(f, in)
             \/ CreateEntryStep(f)
             \/ CreateEntryFails(f)
      PROVE  row'[e].status = "posted" <=> row[e].status = "posted"
  <2>1. CASE InsertHeader(f)
    <3>1. row[f].status = "none" /\ row[f] \in Row
      BY <1>1, <2>1 DEF InsertHeader, TypeOK, RowInv, NoRow
    <3>2. row' = row \/ row' = [row EXCEPT ![f].status = "draft"]
      BY <2>1 DEF InsertHeader
    <3>3. QED
      BY <1>1, <3>1, <3>2 DEF TypeOK, Row
  <2>2. CASE InsertLine(f)
    BY <1>1, <2>2 DEF InsertLine, TypeOK, Row
  <2>3. QED
    BY <1>2, <1>5, <2>1, <2>2 DEF BeginEntry, CreateEntryStep, CheckLine, CountEntries,
                                  CreateEntryFails
<1>6. QED
  BY <1>2, <1>3, <1>4, <1>5 DEF DocNext, JournalNext, allVars, vars

(* A call that posts books its own document, and no other. *)
LEMMA PostingBooks ==
  ASSUME DocInv, NEW t \in Task, EntryPosted(t), NEW d \in Doc
  PROVE  IF d = task[t].doc THEN Booked(d)' ELSE Booked(d)' <=> Booked(d)
<1> DEFINE p == call[t].entry
<1>1. /\ TypeOK /\ CallInv /\ t \in Call /\ task[t].doc \in Doc
      /\ task[t].entry = p /\ creating[p].input.key = KeyOf[task[t].doc]
  BY TaskAssumption DEF DocInv, JournalInv, EntryPosted, TaskInv
<1>2. p \in Rows /\ p \in Entry
  BY <1>1 DEF EntryPosted, PostWrites, CallInv, Rows
<1>3. creating' = creating /\ row'[p].status = "posted"
  BY <1>1, <1>2 DEF EntryPosted, PostWrites, TypeOK, Row
<1>4. \A e \in Entry : e # p => row'[e] = row[e]
  BY <1>1, <1>2 DEF EntryPosted, PostWrites, TypeOK
<1>5. CASE d = task[t].doc
  BY <1>1, <1>2, <1>3, <1>5 DEF Booked, EntriesOf, Rows
<1>6. CASE d # task[t].doc
  <2>1. creating[p].input.key # KeyOf[d]
    BY <1>1, <1>6, KeyAssumption
  <2>2. QED
    BY <1>3, <1>4, <1>6, <2>1 DEF Booked, EntriesOf, Rows
<1>7. QED
  BY <1>5, <1>6

(* What is booked stays booked. *)
LEMMA BookedForGood ==
  ASSUME Call = Task, DocInv, [DocNext]_allVars, NEW d \in Doc, Booked(d)
  PROVE  Booked(d)'
<1>1. CASE \E t \in Task : EntryPosted(t)
  BY <1>1, PostingBooks
<1>2. CASE \A t \in Task : ~EntryPosted(t)
  BY <1>2, NothingElsePosts, BookedKept, DocStepIsJournalStep DEF DocInv, DocTypeOK
<1>3. QED
  BY <1>1, <1>2

LEMMA UntouchedPreserved ==
  ASSUME Call = Task, DocInv, UntouchedInv, [DocNext]_allVars
  PROVE  UntouchedInv'
<1>0. SUFFICES ASSUME NEW t \in Task
               PROVE  /\ call'[t].at # "cancel"
                      /\ \A d : task'[t].at = "mark" /\ d = task'[t].doc /\ d \notin NeedsMapping
                                  => Booked(d)'
  BY DEF UntouchedInv, Booked, EntriesOf
<1>1. /\ TypeOK /\ t \in Call /\ task \in [Task -> TaskState]
      /\ call \in [Call -> CallState] /\ task[t] \in TaskState
  BY TaskAssumption DEF DocInv, DocTypeOK, TypeOK
<1>2. ASSUME task'[t] = task[t], task[t].at = "mark", NEW d, d = task[t].doc, d \notin NeedsMapping
      PROVE  Booked(d)'
  <2>1. d \in Doc /\ Booked(d)
    BY <1>2 DEF UntouchedInv, DocInv, TaskInv
  <2>2. QED
    BY <2>1, BookedForGood
<1>3. ASSUME EntryPosted(t)
      PROVE  Booked(task[t].doc)' /\ task'[t].doc = task[t].doc
  <2>1. task[t].doc \in Doc /\ task'[t].doc = task[t].doc
    BY <1>1, <1>3 DEF EntryPosted, DocInv, TaskInv, TaskState
  <2>2. PICK d \in Doc : d = task[t].doc
    BY <2>1
  <2>3. Booked(d)'
    BY <1>3, <2>2, PostingBooks
  <2>4. QED
    BY <2>1, <2>2, <2>3 DEF Booked, EntriesOf
<1>4. CASE UNCHANGED <<call[t], task[t]>>
  BY <1>2, <1>4 DEF UntouchedInv
<1>5. ASSUME NEW u \in Task, \/ \E d \in Doc : PostReads(u, d) \/ CancelReadsDoc(u, d)
                             \/ TaskStepOf(u)
                             \/ TaskFails(u)
      PROVE  /\ call'[t].at # "cancel"
             /\ \/ task'[t].at # "mark"
                \/ task'[t] = task[t]
                \/ SkipsJournal(t)
                \/ EntryPosted(t)
  <2>1. u \in Call /\ call[t].at # "cancel"
    BY <1>1, TaskAssumption DEF UntouchedInv
  <2>2. \/ UNCHANGED call
        \/ call' = [call EXCEPT ![u] = Idle]
        \/ \E x : x.at \in {"lines", "post"} /\ call' = [call EXCEPT ![u] = x]
    <3>1. CASE PostsEntry(u)
      BY <3>1 DEF PostsEntry, PostReadsHeader, vars
    <3>2. CASE ChecksBalance(u)
      <4> DEFINE x == [at |-> "post", entry |-> call[u].entry, read |-> row[call[u].entry].lines]
      <4>1. call' = [call EXCEPT ![u] = Idle] \/ call' = [call EXCEPT ![u] = x]
        BY <3>2 DEF ChecksBalance, PostReadsLines
      <4>2. x.at = "post"
        OBVIOUS
      <4> HIDE DEF x
      <4>3. QED
        BY <4>1, <4>2
    <3>3. CASE EntryPosted(u) \/ TaskFails(u)
      BY <3>3 DEF EntryPosted, PostWrites, TaskFails
    <3>4. QED
      BY <1>5, <3>1, <3>2, <3>3
         DEF PostReads, CancelReadsDoc, TaskStepOf, StartsEntry, BeginEntry, EntryRefused,
             SkipsJournal, EntryFailed, MarksPosted, MarksCancelled, vars
  <2>3. call'[t].at # "cancel"
    BY <1>1, <2>1, <2>2 DEF Idle
  <2>4. ASSUME ~SkipsJournal(u), ~EntryPosted(u)
        PROVE  \/ UNCHANGED task
               \/ \E x : x.at # "mark" /\ task' = [task EXCEPT ![u] = x]
    <3>1. task[u] \in TaskState
      BY DEF DocInv, DocTypeOK
    <3>2. ASSUME NEW e \in Entry, NEW in \in Input, StartsEntry(u, e, in)
          PROVE  task'[u].at = "create" /\ task' = [task EXCEPT ![u] = task'[u]]
      BY <1>1, <3>1, <3>2 DEF StartsEntry, TaskState
    <3>3. ASSUME PostsEntry(u), task' = [task EXCEPT ![u].at = "post"]
          PROVE  task'[u].at = "post" /\ task' = [task EXCEPT ![u] = task'[u]]
      BY <1>1, <3>1, <3>3 DEF TaskState
    <3>4. CASE PostsEntry(u)
      BY <3>3, <3>4 DEF PostsEntry, NoTask
    <3>5. CASE ChecksBalance(u)
      BY <3>5 DEF ChecksBalance, NoTask
    <3>6. CASE \/ \E in \in Input : EntryRefused(u, in)
               \/ EntryFailed(u) \/ MarksPosted(u) \/ MarksCancelled(u) \/ TaskFails(u)
      BY <3>6 DEF EntryRefused, EntryFailed, MarksPosted, MarksCancelled, TaskFails, NoTask
    <3>7. CASE \E d \in Doc : PostReads(u, d) \/ CancelReadsDoc(u, d)
      BY <3>7 DEF PostReads, CancelReadsDoc
    <3>8. QED
      BY <1>5, <2>4, <3>2, <3>4, <3>5, <3>6, <3>7 DEF TaskStepOf
  <2>5. SkipsJournal(u) \/ EntryPosted(u) => task' = [task EXCEPT ![u].at = "mark"]
    BY DEF SkipsJournal, EntryPosted
  <2>6. CASE u = t
    BY <1>1, <2>3, <2>4, <2>6
  <2>7. CASE u # t
    BY <1>1, <2>3, <2>4, <2>5, <2>7
  <2>8. QED
    BY <2>6, <2>7
<1>6. CASE TaskNext
  <2>1. SkipsJournal(t) => task'[t].doc \in NeedsMapping
    BY <1>1 DEF SkipsJournal, TaskState
  <2>2. CASE EntryPosted(t)
    BY <1>3, <1>5, <1>6, <2>2 DEF TaskNext
  <2>3. QED
    BY <1>2, <1>5, <1>6, <2>1, <2>2 DEF TaskNext
<1>7. JournalNext => UNCHANGED <<call[t], task[t]>>
  <2>1. PeriodNext \/ AccountNext => UNCHANGED call
    BY DEF PeriodNext, AccountNext, InsertPeriod, SetPeriodStatus, ClosePeriod, ReopenPeriod,
           OpenTopAccount, MarkAsParent, InsertAccount, OpenAccountFails
  <2>2. QED
    BY <2>1 DEF JournalNext, docVars, BeginEntry, CreateEntryStep, CheckLine, CountEntries,
                InsertHeader, InsertLine, CreateEntryFails
<1>8. QED
  BY <1>4, <1>6, <1>7 DEF DocNext, allVars, vars, docVars

(* post... and cancel... implement DocumentLifecycle, however their calls  *)
(* overlap and wherever they stop, if no entry is posted or cancelled from *)
(* the journal screen.                                                     *)
THEOREM DocumentsImplementLifecycle ==
  ASSUME Call = Task
  PROVE  DocSpec => LifecycleSpec
<1> DEFINE ledger == [d \in Doc |-> IF Booked(d) THEN "with" ELSE "without"]
<1>1. DocInit => UntouchedInv /\ Lifecycle!Init
  <2> SUFFICES ASSUME DocInit PROVE UntouchedInv /\ Lifecycle!Init
    OBVIOUS
  <2>1. UntouchedInv
    BY DEF DocInit, Init, Idle, NoTask, UntouchedInv
  <2>2. \A d \in Doc : ~Booked(d)
    BY DEF DocInit, Init, NoRow, Booked, EntriesOf, Rows
  <2>3. QED
    BY <2>1, <2>2 DEF DocInit, Lifecycle!Init
<1>2. DocInv /\ UntouchedInv /\ [DocNext]_allVars
        => UntouchedInv' /\ [Lifecycle!Next]_<<doc, ledger>>
  <2> SUFFICES ASSUME DocInv, UntouchedInv, [DocNext]_allVars
               PROVE  [Lifecycle!Next]_<<doc, ledger>>
    BY UntouchedPreserved
  <2>1. [Next]_vars /\ doc \in [Doc -> DocStatus]
    BY DocStepIsJournalStep DEF DocInv, DocTypeOK
  <2>2. ASSUME NEW t \in Task, EntryPosted(t)
        PROVE  [Lifecycle!Next]_<<doc, ledger>>
    <3>1. PICK d \in Doc : d = task[t].doc
      BY <2>2 DEF EntryPosted, DocInv, TaskInv
    <3>2. Booked(d)' /\ \A c \in Doc : c # d => (Booked(c)' <=> Booked(c))
      BY <2>2, <3>1, PostingBooks
    <3>3. ledger' = [ledger EXCEPT ![d] = "with"]
      BY <3>2
    <3>4. UNCHANGED doc
      BY <2>2 DEF EntryPosted
    <3>5. CASE Booked(d)
      <4>1. ledger' = ledger
        BY <3>3, <3>5
      <4>2. QED
        BY <3>4, <4>1
    <3>6. CASE ~Booked(d)
      <4>1. Lifecycle!Book(d)
        BY <3>3, <3>4, <3>6 DEF Lifecycle!Book
      <4>2. QED
        BY <4>1 DEF Lifecycle!Next
    <3>7. QED
      BY <3>5, <3>6
  <2>3. ASSUME \A t \in Task : ~EntryPosted(t)
        PROVE  [Lifecycle!Next]_<<doc, ledger>>
    <3>1. ledger' = ledger
      BY <2>1, <2>3, BookedKept, NothingElsePosts
    <3>2. ASSUME NEW t \in Task, MarksPosted(t)
          PROVE  Lifecycle!Next
      <4>1. PICK d \in Doc : d = task[t].doc
        BY <3>2 DEF MarksPosted, DocInv, TaskInv
      <4>2. Booked(d) \/ d \in NeedsMapping
        BY <3>2, <4>1 DEF MarksPosted, UntouchedInv, Booked, EntriesOf
      <4>3. Lifecycle!MarkPosted(d)
        BY <3>1, <3>2, <4>1, <4>2 DEF MarksPosted, Lifecycle!MarkPosted
      <4>4. QED
        BY <4>3 DEF Lifecycle!Next
    <3>3. ASSUME NEW t \in Task, MarksCancelled(t)
          PROVE  Lifecycle!Next
      <4>1. PICK d \in Doc : d = task[t].doc
        BY <3>3 DEF MarksCancelled, DocInv, TaskInv
      <4>2. Lifecycle!MarkCancelled(d)
        BY <3>1, <3>3, <4>1 DEF MarksCancelled, Lifecycle!MarkCancelled
      <4>3. QED
        BY <4>2 DEF Lifecycle!Next
    <3>4. CASE UNCHANGED doc
      BY <3>1, <3>4
    <3>5. QED
      BY <2>3, <3>2, <3>3, <3>4
         DEF DocNext, TaskNext, JournalNext, allVars, docVars, PostReads, CancelReadsDoc,
             TaskStepOf, StartsEntry, EntryRefused, SkipsJournal, PostsEntry, EntryFailed,
             ChecksBalance, TaskFails
  <2>4. QED
    BY <2>2, <2>3
<1>3. QED
  BY <1>1, <1>2, DocInvariant, PTL DEF DocSpec, LifecycleSpec, Lifecycle!Spec

-----------------------------------------------------------------------------
(* What becomes of one call of post... or cancel... in a step. *)
LEMMA TaskChanges ==
  ASSUME DocInv, [DocNext]_allVars, NEW t \in Task
  PROVE  \/ task'[t] = task[t]
         \/ task'[t] = NoTask
         \/ task'[t].at \in {"resolve", "cancel"}
         \/ \E e \in Entry, in \in Input : StartsEntry(t, e, in)
         \/ SkipsJournal(t)
         \/ PostsEntry(t)
         \/ EntryPosted(t)
<1>1. task \in [Task -> TaskState]
  BY DEF DocInv, DocTypeOK
<1>2. CASE UNCHANGED task
  BY <1>2
<1>3. CASE TaskNext
  <2>1. PICK u \in Task : \/ \E d \in Doc : PostReads(u, d) \/ CancelReadsDoc(u, d)
                          \/ TaskStepOf(u)
                          \/ TaskFails(u)
    BY <1>3 DEF TaskNext
  <2>2. CASE u # t
    <3>1. task'[t] = task[t]
      BY <1>1, <2>1, <2>2
         DEF PostReads, CancelReadsDoc, TaskStepOf, StartsEntry, EntryRefused, SkipsJournal,
             PostsEntry, EntryFailed, ChecksBalance, EntryPosted, MarksPosted, MarksCancelled,
             TaskFails
    <3>2. QED
      BY <3>1
  <2>3. CASE u = t
    <3>1. ASSUME NEW d \in Doc, PostReads(t, d) \/ CancelReadsDoc(t, d)
          PROVE  task'[t].at \in {"resolve", "cancel"}
      BY <1>1, <3>1 DEF PostReads, CancelReadsDoc
    <3>2. ASSUME \/ \E in \in Input : EntryRefused(t, in)
                 \/ EntryFailed(t) \/ ChecksBalance(t) \/ MarksPosted(t) \/ MarksCancelled(t)
                 \/ TaskFails(t)
          PROVE  task'[t] = task[t] \/ task'[t] = NoTask
      BY <1>1, <3>2
         DEF EntryRefused, EntryFailed, ChecksBalance, MarksPosted, MarksCancelled, TaskFails
    <3>3. QED
      BY <2>1, <2>3, <3>1, <3>2 DEF TaskStepOf
  <2>4. QED
    BY <2>2, <2>3
<1>4. QED
  BY <1>2, <1>3 DEF DocNext, JournalNext, allVars, docVars

(* A draft leaves that status only by the mark of a call that posted it, or *)
(* of one that cancels it.                                                  *)
LEMMA DocChanges ==
  ASSUME DocInv, [DocNext]_allVars, NEW d \in Doc
  PROVE  \/ doc'[d] = doc[d]
         \/ doc'[d] = "cancelled"
         \/ \E t \in Task : task[t].at = "mark" /\ task[t].doc = d
<1>1. doc \in [Doc -> DocStatus]
  BY DEF DocInv, DocTypeOK
<1>2. CASE UNCHANGED doc
  BY <1>2
<1>3. ASSUME NEW t \in Task, MarksPosted(t) \/ MarksCancelled(t)
      PROVE  \/ doc'[d] = doc[d]
             \/ doc'[d] = "cancelled"
             \/ task[t].at = "mark" /\ task[t].doc = d
  BY <1>1, <1>3 DEF MarksPosted, MarksCancelled
<1>4. ASSUME NEW t \in Task,
             \/ \E c \in Doc : PostReads(t, c) \/ CancelReadsDoc(t, c)
             \/ \E e \in Entry, in \in Input : StartsEntry(t, e, in)
             \/ \E in \in Input : EntryRefused(t, in)
             \/ SkipsJournal(t) \/ PostsEntry(t) \/ EntryFailed(t) \/ ChecksBalance(t)
             \/ EntryPosted(t) \/ TaskFails(t)
      PROVE  UNCHANGED doc
  BY <1>4 DEF PostReads, CancelReadsDoc, StartsEntry, EntryRefused, SkipsJournal, PostsEntry,
              EntryFailed, ChecksBalance, EntryPosted, TaskFails
<1>5. QED
  BY <1>2, <1>3, <1>4 DEF DocNext, TaskNext, TaskStepOf, JournalNext, allVars, docVars

(* The retry of a half-done posting.  A stranded document's entry keeps its *)
(* key for ever, so a second entry with that key never gets a row: every    *)
(* call for the document stops before it posts one, and only the mark of a  *)
(* cancellation can end the state.                                          *)
THEOREM StrandedStays == DocSpec => StrandedNeverPosts
<1>1. DocInv /\ DocInv' /\ [DocNext]_allVars =>
        \A d \in Doc \ NeedsMapping :
          Stranded(d) => Stranded(d)' \/ doc'[d] = "cancelled"
  <2> SUFFICES ASSUME DocInv, DocInv', [DocNext]_allVars, NEW d \in Doc, d \notin NeedsMapping,
                      Stranded(d), doc'[d] # "cancelled"
               PROVE  Stranded(d)'
    OBVIOUS
  <2>1. /\ TypeOK /\ CallInv /\ RowInv /\ [Next]_vars /\ TaskInv' /\ KeysDiffer'
        /\ task \in [Task -> TaskState]
    BY DocStepIsJournalStep DEF DocInv, DocTypeOK, JournalInv
  <2>2. PICK f \in EntriesOf(d) : TRUE
    BY DEF Stranded
  <2>3. f \in Entry /\ f \in Rows /\ creating[f].input.key = KeyOf[d] /\ KeyOf[d] # None
    BY <2>2, KeyAssumption, NoneAssumption DEF EntriesOf, Rows
  <2>4. f \in Rows' /\ creating'[f].input.key = KeyOf[d]
    <3>1. creating[f].step # "unused"
      BY <2>1, <2>3 DEF RowInv, Rows, NoRow
    <3>2. QED
      BY <2>1, <2>3, <3>1, Monotone
  <2>5. EntriesOf(d)' # {}
    BY <2>4 DEF EntriesOf
  <2>6. doc'[d] = "draft"
    BY DocChanges DEF Stranded
  <2>7. ASSUME NEW e \in Rows', creating'[e].input.key = KeyOf[d]
        PROVE  e \in Rows
    BY <2>1, <2>3, <2>4, <2>7 DEF KeysDiffer, SameKey
  <2>8. ASSUME NEW t \in Task, task'[t].doc = d, task'[t].at = "create",
               task'[t].entry \notin Rows
        PROVE  task'[t].entry \notin Rows'
    BY <2>1, <2>7, <2>8 DEF TaskInv
  <2>9. ASSUME NEW t \in Task, task'[t].doc = d
        PROVE  \/ task'[t].at \in {"resolve", "cancel"}
               \/ task'[t].at = "create" /\ task'[t].entry \notin Rows'
    <3>1. task[t].doc = d =>
            \/ task[t].at \in {"resolve", "cancel"}
            \/ task[t].at = "create" /\ task[t].entry \notin Rows
      BY DEF Stranded
    <3>2. CASE task'[t] = task[t]
      BY <2>8, <2>9, <3>1, <3>2
    <3>3. CASE task'[t] = NoTask
      BY <2>9, <3>3, KeyAssumption DEF NoTask
    <3>4. ASSUME NEW e \in Entry, NEW in \in Input, StartsEntry(t, e, in)
          PROVE  task'[t].at = "create" /\ task'[t].entry \notin Rows'
      <4>1. task'[t].at = "create" /\ task'[t].entry = e
        BY <2>1, <3>4 DEF StartsEntry, TaskState
      <4>2. e \notin Rows
        BY <2>1, <3>4 DEF StartsEntry, BeginEntry, RowInv, Rows, NoRow
      <4>3. QED
        BY <2>8, <2>9, <4>1, <4>2
    <3>5. ASSUME SkipsJournal(t)
          PROVE  FALSE
      <4>1. task'[t].doc = task[t].doc
        BY <2>1, <3>5 DEF SkipsJournal, TaskState
      <4>2. QED
        BY <2>9, <3>5, <4>1 DEF SkipsJournal
    <3>6. ASSUME PostsEntry(t), task'[t] # NoTask
          PROVE  FALSE
      <4>1. task'[t].doc = task[t].doc /\ task[t].at = "create"
        BY <2>1, <3>6 DEF PostsEntry, TaskState
      <4>2. task[t].entry \in Rows
        BY <2>1, <3>6 DEF PostsEntry, RowInv, DocInv, TaskInv
      <4>3. QED
        BY <2>9, <3>1, <4>1, <4>2
    <3>7. ASSUME EntryPosted(t)
          PROVE  FALSE
      <4>1. task'[t].doc = task[t].doc /\ task[t].at = "post"
        BY <2>1, <3>7 DEF EntryPosted, TaskState
      <4>2. QED
        BY <2>9, <3>1, <4>1
    <3>8. QED
      BY <3>2, <3>3, <3>4, <3>5, <3>6, <3>7, TaskChanges
  <2>10. QED
    BY <2>5, <2>6, <2>9 DEF Stranded
<1>2. QED
  BY <1>1, DocInvariant, PTL DEF DocSpec, StrandedNeverPosts

=============================================================================
