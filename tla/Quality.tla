------------------------------- MODULE Quality -------------------------------
(***************************************************************************)
(* Quality: the workflows of check points, escalated while they are        *)
(* pending and overdue, and inspections with their parameters              *)
(* (quality.service.ts).  A loop writes what was read before it started.   *)
(***************************************************************************)
EXTENDS Desk, Naturals

CONSTANTS
  Workflow,
  Levels,     \* the check point has escalation rules of levels 1..Levels
  Inspection,
  Parameter,  \* the parameter ids that requests send
  MaxResults  \* a bound: how many results a request sends

ASSUME QualityAssumption == Levels \in Nat /\ MaxResults \in Nat /\ "no row" \notin Inspection

VARIABLES
  workflow,    \* status, escalation_level
  inspection,  \* the status of each
  belongs,     \* the inspection of each parameter, if there is such a row
  parameter,   \* the status of each parameter
  checking,    \* each clerk's request: step, its inspection, how many of the
               \* results are written, and what is left: workflows (level
               \* read), or the results sent; and the verdict
  mixed        \* inspections whose evaluations overlapped, or were sent results
               \* that are not their own or repeat (a history variable)

qualityVars == <<workflow, inspection, belongs, parameter, checking, mixed>>

NotChecking == [at |-> "idle", about |-> "no row", left |-> <<>>, written |-> 0, verdict |-> ""]
Verdict == {"passed", "failed"}
Result == [parameter : Parameter, status : {"pass", "fail"}]
Results == UNION {[1..n -> Result] : n \in 0..MaxResults}

QualityTypeOK ==
  /\ workflow \in [Workflow -> [status : {"pending", "approved", "rejected"},
                                level : 0..Levels]]
  /\ inspection \in [Inspection -> {"pending"} \cup Verdict]
  /\ belongs \in [Parameter -> Inspection \cup {"no row"}]
  /\ parameter \in [Parameter -> {"pending", "pass", "fail"}]
  /\ \A k \in Clerk : checking[k].at \in {"idle", "rule", "results"}
  /\ mixed \subseteq Inspection

QualityInit ==
  /\ workflow = [w \in Workflow |-> [status |-> "pending", level |-> 0]]
  /\ inspection = [i \in Inspection |-> "pending"]
  /\ belongs \in [Parameter -> Inspection \cup {"no row"}]
  /\ parameter = [p \in Parameter |-> "pending"]
  /\ checking = [k \in Clerk |-> NotChecking]
  /\ mixed = {}

Checks(k, request) ==
  /\ k \in desk /\ checking[k] = NotChecking
  /\ checking' = [checking EXCEPT ![k] = request]
  /\ UNCHANGED <<workflow, inspection, belongs, parameter>>
CheckEnds(k) == checking' = [checking EXCEPT ![k] = NotChecking]

Without(f, x) == [y \in DOMAIN f \ {x} |-> f[y]]

(* approveCheckPoint, rejectCheckPoint: one UPDATE, nothing is looked at *)
updateWorkflowStatus(k, w, status) ==
  /\ k \in desk /\ checking[k] = NotChecking
  /\ workflow' = [workflow EXCEPT ![w].status = status]
  /\ UNCHANGED <<inspection, belongs, parameter, checking, mixed>>

Escalates(k, overdue) ==
  /\ Checks(k, [NotChecking EXCEPT !.at = "rule", !.left = [w \in overdue |-> workflow[w].level]])
  /\ UNCHANGED mixed

(* Mutant: settled workflows too *)
FindsAll(k, overdue) == Escalates(k, overdue)

(* processOverdueWorkflows: any of those pending may be overdue *)
findOverdueWorkflows(k, overdue) ==
  /\ \A w \in overdue : workflow[w].status = "pending"
  /\ Escalates(k, overdue)

(* One of those left: escalated by the rule of the next level, if there is *)
(* one.  (findRuleByLevel changes nothing, and rules do not change.)       *)
updateWorkflowEscalation(k, w) ==
  /\ checking[k].at = "rule" /\ w \in DOMAIN checking[k].left
  /\ LET next == checking[k].left[w] + 1 IN
     workflow' = IF next <= Levels THEN [workflow EXCEPT ![w].level = next] ELSE workflow
  /\ checking' = [checking EXCEPT ![k].left = Without(@, w)]
  /\ UNCHANGED <<inspection, belongs, parameter, mixed>>

EscalationEnds(k) ==
  /\ checking[k].at = "rule" /\ checking[k].left = <<>>
  /\ CheckEnds(k)
  /\ UNCHANGED <<workflow, inspection, belongs, parameter, mixed>>

(* One result for each of some of the inspection's own parameters *)
AreOwn(results, i) ==
  \A m \in DOMAIN results :
    /\ belongs[results[m].parameter] = i
    /\ \A n \in DOMAIN results : results[n].parameter = results[m].parameter => n = m

EvaluatedNow == {checking[k].about : k \in {j \in Clerk : checking[j].at = "results"}}

(* Refused unless pending.  The results are any list, which gives the      *)
(* verdict as it is: they may repeat a parameter, or be of another         *)
(* inspection or of none.                                                  *)
evaluateInspection(k, i, results) ==
  /\ inspection[i] = "pending"
  /\ Checks(k, [at |-> "results", about |-> i, left |-> results, written |-> 0,
                verdict |-> IF \E m \in DOMAIN results : results[m].status = "fail"
                            THEN "failed" ELSE "passed"])
  /\ mixed' = mixed \cup ({i} \cap EvaluatedNow)
                    \cup (IF AreOwn(results, i) THEN {} ELSE {i})
                    \cup ({belongs[results[m].parameter] : m \in DOMAIN results}
                            \ {i, "no row"})

(* One turn of the loop: the row with this id, if there is one *)
UpdatesParameter(k) ==
  LET m == checking[k].written + 1  results == checking[k].left IN
  /\ checking[k].at = "results" /\ m \in DOMAIN results
  /\ parameter' = IF belongs[results[m].parameter] = "no row" THEN parameter
                  ELSE [parameter EXCEPT ![results[m].parameter] = results[m].status]
  /\ checking' = [checking EXCEPT ![k].written = m]
  /\ UNCHANGED <<workflow, inspection, belongs, mixed>>

(* Mutant: the header may be written before all parameters are *)
UpdatesHeaderFirst(k) ==
  /\ checking[k].at = "results"
  /\ inspection' = [inspection EXCEPT ![checking[k].about] = checking[k].verdict]
  /\ CheckEnds(k)
  /\ UNCHANGED <<workflow, belongs, parameter, mixed>>

updateInspectionStatus(k) ==
  /\ checking[k].at = "results" /\ DOMAIN checking[k].left = 1..checking[k].written
  /\ inspection' = [inspection EXCEPT ![checking[k].about] = checking[k].verdict]
  /\ CheckEnds(k)
  /\ UNCHANGED <<workflow, belongs, parameter, mixed>>

CheckDies(k) ==
  /\ checking[k] # NotChecking
  /\ CheckEnds(k)
  /\ UNCHANGED <<workflow, inspection, belongs, parameter, mixed>>

EscalationNext ==
  \E k \in Clerk :
    \/ \E w \in Workflow, status \in {"approved", "rejected"} : updateWorkflowStatus(k, w, status)
    \/ \E overdue \in SUBSET Workflow : findOverdueWorkflows(k, overdue)
    \/ \E w \in Workflow : updateWorkflowEscalation(k, w)
    \/ EscalationEnds(k)
    \/ CheckDies(k)

InspectionNext ==
  \E k \in Clerk :
    \/ \E i \in Inspection, results \in Results : evaluateInspection(k, i, results)
    \/ UpdatesParameter(k)
    \/ updateInspectionStatus(k)
    \/ CheckDies(k)

-----------------------------------------------------------------------------
(* An inspection that failed has a parameter that did, whatever overlapped *)
(* or died before: the header is written last.  Except where two           *)
(* evaluations of the inspection overlapped, which mixes the results of    *)
(* one with the verdict of the other, or a request sent results for what   *)
(* is not its own, or twice for the same (quality.service.ts:140-158).     *)
FailedHasACause ==
  \A i \in Inspection \ mixed :
    inspection[i] = "failed" => \E p \in Parameter : belongs[p] = i /\ parameter[p] = "fail"

(* In turn, a workflow that was approved or rejected is escalated no more, *)
(* and no level is taken back; the loop of an overlapping run writes what  *)
(* it read before (quality.service.ts:87-104).                             *)
SettledIsNotEscalated ==
  [][\A w \in Workflow : InTurn /\ workflow'[w].level # workflow[w].level
       => workflow[w].status = "pending" /\ workflow'[w].level = workflow[w].level + 1]_workflow

=============================================================================
