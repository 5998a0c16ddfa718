------------------------------ MODULE Documents ------------------------------
(***************************************************************************)
(* Posting and cancelling the documents of FinanceService: purchase and    *)
(* sales invoices, supplier payments, credit and debit notes, and bank     *)
(* transfers.  All of them follow one scheme: read the document, resolve  *)
(* the accounts, create a journal entry under the document's own           *)
(* idempotency key, post it, then mark the document as posted.  The        *)
(* journal is the one of module Journal, shared with the journal screen's  *)
(* own calls.                                                              *)
(***************************************************************************)
EXTENDS Journal

CONSTANTS
  Doc,          \* documents, each already saved as a draft
  Task,         \* concurrent calls of post... and cancel...
  NeedsMapping, \* documents posted without an entry if accounts are missing:
                \* all but bank transfers, which name their own
  KeyOf,        \* the idempotency key of each document's entry
  Posting,      \* the entries each document may resolve to: with the tax
                \* line, or without it if no tax account is configured
  ManualInput   \* what the journal screen sends to createEntry

(* A task calls postEntry itself, so it is one of the journal's callers *)
ASSUME TaskAssumption == Task \subseteq Call
ASSUME KeyAssumption ==
  /\ None \notin Doc
  /\ KeyOf \in [Doc -> Key]
  /\ \A c, d \in Doc : KeyOf[c] = KeyOf[d] => c = d
ASSUME PostingAssumption ==
  /\ NeedsMapping \subseteq Doc
  /\ \A d \in Doc : Posting[d] \subseteq {in \in Input : in.key = KeyOf[d] /\ in.named = None}
  /\ ManualInput \subseteq {in \in Input : in.key = None}

VARIABLES
  doc,   \* the status column of the document's table
  task   \* the local state of each call

docVars == <<doc, task>>
allVars == <<vars, docVars>>

DocStatus == {"draft", "posted", "cancelled"}
TaskStep == {"idle", "resolve", "create", "post", "mark", "cancel"}
TaskState == [at : TaskStep, doc : {None} \cup Doc, entry : {None} \cup Entry]

DocTypeOK ==
  /\ TypeOK
  /\ doc \in [Doc -> DocStatus]
  /\ task \in [Task -> TaskState]

NoTask == [at |-> "idle", doc |-> None, entry |-> None]

EntriesOf(d) == {e \in Rows : creating[e].input.key = KeyOf[d]}
Booked(d) == \E e \in EntriesOf(d) : row[e].status = "posted"

(* A bound: a task starts only if a row id will be left for its entry *)
EntryLeft ==
  Cardinality({t \in Task : task[t].at = "resolve"})
    < Cardinality({e \in Entry : creating[e].step = "unused"})

-----------------------------------------------------------------------------
DocInit ==
  /\ Init
  /\ doc = [d \in Doc |-> "draft"]
  /\ task = [t \in Task |-> NoTask]

(* post...: the document must be a draft when it is read *)
PostReads(t, d) ==
  /\ task[t] = NoTask
  /\ doc[d] = "draft"
  /\ EntryLeft
  /\ task' = [task EXCEPT ![t] = [at |-> "resolve", doc |-> d, entry |-> None]]
  /\ UNCHANGED <<vars, doc>>

(* Accounts found: createEntry starts... *)
StartsEntry(t, e, in) ==
  /\ task[t].at = "resolve"
  /\ in \in Posting[task[t].doc]
  /\ BeginEntry(e, in)
  /\ task' = [task EXCEPT ![t].at = "create", ![t].entry = e]
  /\ UNCHANGED doc

(* ...or refuses the entry, and the call throws *)
EntryRefused(t, in) ==
  /\ task[t].at = "resolve"
  /\ in \in Posting[task[t].doc] /\ Refused(in)
  /\ task' = [task EXCEPT ![t] = NoTask]
  /\ UNCHANGED <<vars, doc>>

(* Mutant: every document may skip the journal *)
SkipsJournalAlways(t) ==
  /\ task[t].at = "resolve"
  /\ task' = [task EXCEPT ![t].at = "mark"]
  /\ UNCHANGED <<vars, doc>>

(* Accounts missing: the journal is skipped *)
SkipsJournal(t) ==
  /\ task[t].at = "resolve"
  /\ task[t].doc \in NeedsMapping
  /\ task' = [task EXCEPT ![t].at = "mark"]
  /\ UNCHANGED <<vars, doc>>

(* createEntry returned: postEntry reads the header of the new entry, or   *)
(* throws if the journal screen has posted or cancelled it meanwhile       *)
PostsEntry(t) ==
  /\ task[t].at = "create"
  /\ creating[task[t].entry].step = "created"
  /\ \/ /\ PostReadsHeader(t, task[t].entry)
        /\ task' = [task EXCEPT ![t].at = "post"]
     \/ /\ row[task[t].entry].status # "draft"
        /\ task' = [task EXCEPT ![t] = NoTask]
        /\ UNCHANGED vars
  /\ UNCHANGED doc

(* Mutants: the error is swallowed and the document marked; the error is   *)
(* noticed only if a row was left behind                                   *)
EntryFailureIgnored(t) ==
  /\ task[t].at = "create"
  /\ creating[task[t].entry].step = "failed"
  /\ task' = [task EXCEPT ![t].at = "mark"]
  /\ UNCHANGED <<vars, doc>>

EntryFailureMissed(t) ==
  /\ task[t].at = "create"
  /\ creating[task[t].entry].step = "failed"
  /\ task[t].entry \in Rows
  /\ task' = [task EXCEPT ![t] = NoTask]
  /\ UNCHANGED <<vars, doc>>

(* createEntry threw *)
EntryFailed(t) ==
  /\ task[t].at = "create"
  /\ creating[task[t].entry].step = "failed"
  /\ task' = [task EXCEPT ![t] = NoTask]
  /\ UNCHANGED <<vars, doc>>

(* postEntry throws if the lines do not balance *)
ChecksBalance(t) ==
  /\ task[t].at = "post"
  /\ PostReadsLines(t)
  /\ task' = IF call'[t] = Idle THEN [task EXCEPT ![t] = NoTask] ELSE task
  /\ UNCHANGED doc

EntryPosted(t) ==
  /\ task[t].at = "post"
  /\ PostWrites(t)
  /\ task' = [task EXCEPT ![t].at = "mark"]
  /\ UNCHANGED doc

(* set...Status: by id, whatever the status is by now *)
MarksPosted(t) ==
  /\ task[t].at = "mark"
  /\ doc' = [doc EXCEPT ![task[t].doc] = "posted"]
  /\ task' = [task EXCEPT ![t] = NoTask]
  /\ UNCHANGED vars

(* cancel... *)
CancelReadsDoc(t, d) ==
  /\ task[t] = NoTask
  /\ doc[d] # "posted"
  /\ task' = [task EXCEPT ![t] = [at |-> "cancel", doc |-> d, entry |-> None]]
  /\ UNCHANGED <<vars, doc>>

MarksCancelled(t) ==
  /\ task[t].at = "cancel"
  /\ doc' = [doc EXCEPT ![task[t].doc] = "cancelled"]
  /\ task' = [task EXCEPT ![t] = NoTask]
  /\ UNCHANGED vars

(* Mutant: the call of postEntry outlives the call that made it *)
TaskFailsAlone(t) ==
  /\ task[t].at # "idle"
  /\ task[t].at = "create" => creating[task[t].entry].step \notin InFlight
  /\ task' = [task EXCEPT ![t] = NoTask]
  /\ UNCHANGED <<vars, doc>>

(* A statement of the call itself is refused, or the server stops; while   *)
(* createEntry runs that is CreateEntryFails                               *)
TaskFails(t) ==
  /\ task[t].at # "idle"
  /\ task[t].at = "create" => creating[task[t].entry].step \notin InFlight
  /\ task' = [task EXCEPT ![t] = NoTask]
  /\ call' = [call EXCEPT ![t] = Idle]
  /\ UNCHANGED <<period, account, creating, row, doc>>

-----------------------------------------------------------------------------
TaskStepOf(t) ==
  \/ \E e \in Entry, in \in Input : StartsEntry(t, e, in)
  \/ \E in \in Input : EntryRefused(t, in)
  \/ SkipsJournal(t)
  \/ PostsEntry(t)
  \/ EntryFailed(t)
  \/ ChecksBalance(t)
  \/ EntryPosted(t)
  \/ MarksPosted(t)
  \/ MarksCancelled(t)

TaskNext ==
  \E t \in Task :
    \/ \E d \in Doc : PostReads(t, d) \/ CancelReadsDoc(t, d)
    \/ TaskStepOf(t)
    \/ TaskFails(t)

(* The journal's own part: entries under way, whoever started them, and    *)
(* the period, account and journal screens                                 *)
JournalNext ==
  /\ \/ PeriodNext
     \/ AccountNext
     \/ \E e \in Entry : \/ \E in \in ManualInput : BeginEntry(e, in)
                         \/ CreateEntryStep(e)
                         \/ CreateEntryFails(e)
     \/ \E c \in Call \ Task :
          \/ \E e \in Entry : PostReadsHeader(c, e) \/ CancelReads(c, e)
          \/ CallStepOf(c)
          \/ CallFails(c)
  /\ UNCHANGED docVars

DocNext == TaskNext \/ JournalNext

DocFairness ==
  /\ \A t \in Task : WF_allVars(TaskStepOf(t))
  /\ \A e \in Entry : WF_allVars(CreateEntryStep(e) /\ UNCHANGED docVars)

DocSpec == DocInit /\ [][DocNext]_allVars /\ DocFairness

-----------------------------------------------------------------------------
(* Properties *)

(* The idempotency key: two calls of post... for one document, a retry     *)
(* after a failure, or a failure in mid-way never give it two entries.     *)
OneEntryPerDocument ==
  \A d \in Doc : \A e, f \in EntriesOf(d) : e = f

(* post... and cancel... implement DocumentLifecycle, as long as nobody    *)
(* touches the documents' entries from the journal screen.                 *)
Lifecycle ==
  INSTANCE DocumentLifecycle
    WITH ledger <- [d \in Doc |-> IF Booked(d) THEN "with" ELSE "without"]

LifecycleSpec == Lifecycle!Spec

(* A document that has an entry nobody is working on any more, and that    *)
(* was not marked: what is left after a failure between createEntry and    *)
(* the mark.                                                               *)
Stranded(d) ==
  /\ doc[d] = "draft"
  /\ EntriesOf(d) # {}
  /\ \A t \in Task : task[t].doc = d =>
       \/ task[t].at \in {"resolve", "cancel"}
       \/ task[t].at = "create" /\ task[t].entry \notin Rows

(* The retry of a half-done posting: it cannot complete.  Its createEntry  *)
(* meets the key of the first entry, so that a bank transfer (which always *)
(* needs the entry) can then only be cancelled, never marked as posted.    *)
StrandedNeverPosts ==
  [][\A d \in Doc \ NeedsMapping :
       Stranded(d) => Stranded(d)' \/ doc'[d] = "cancelled"]_allVars

(* Every call of post... and cancel... ends: it never waits for ever for   *)
(* its journal entry.                                                      *)
TasksEnd == \A t \in Task : task[t].at # "idle" ~> task[t].at = "idle"

-----------------------------------------------------------------------------
(* The inductive invariant behind OneEntryPerDocument *)

(* What a call knows about its document and its entry: while it waits for  *)
(* createEntry the entry's request carries the document's key, and while   *)
(* it posts, the journal's own call works on that entry.                   *)
TaskInv ==
  \A t \in Task :
    /\ task[t].at # "idle" => task[t].doc \in Doc
    /\ task[t].at \in {"create", "post"} =>
         /\ task[t].entry \in Entry
         /\ creating[task[t].entry].step # "unused"
         /\ creating[task[t].entry].input.key = KeyOf[task[t].doc]
    /\ task[t].at = "post" =>
         call[t].at \in {"lines", "post"} /\ call[t].entry = task[t].entry
    /\ task[t].at # "post" => call[t] = Idle

(* No two rows carry the same idempotency key *)
KeysDiffer == \A e, f \in Rows : SameKey(e, f) => e = f

DocInv ==
  /\ JournalInv
  /\ DocTypeOK
  /\ TaskInv
  /\ KeysDiffer

(* Without the journal screen: what DocumentLifecycle needs besides.  No   *)
(* call cancels an entry, and a transfer is marked after it was booked.    *)
UntouchedInv ==
  \A t \in Task :
    /\ call[t].at # "cancel"
    /\ task[t].at = "mark" /\ task[t].doc \notin NeedsMapping => Booked(task[t].doc)

-----------------------------------------------------------------------------
(* "already posted and cannot be cancelled": a cancelled document has no   *)
(* effect on the ledger                                                    *)
CancelledIsUnbooked == \A d \in Doc : doc[d] = "cancelled" => ~Booked(d)

=============================================================================
