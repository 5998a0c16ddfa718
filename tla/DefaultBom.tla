----------------------------- MODULE DefaultBom -----------------------------
(***************************************************************************)
(* DefaultBom: the bills of materials of one product, of which one may be  *)
(* the default (createBom, technical.service.ts).  The next free version   *)
(* is looked for; for a default, the others are then cleared; the insert   *)
(* comes last, and UNIQUE (item, version) may refuse it.                   *)
(***************************************************************************)
EXTENDS Desk, Naturals

CONSTANT MaxVersion   \* bound: versions looked for

ASSUME DefaultBomAssumption == MaxVersion \in Nat \ {0}

VARIABLES
  bom,      \* rows: version, whether it is the default, whether all its lines are there
  drafting  \* each clerk's createBom

bomVars == <<bom, drafting>>

NotDrafting == [at |-> "idle", version |-> 0, isDefault |-> FALSE]

DefaultBomTypeOK ==
  /\ bom \subseteq [version : 1..MaxVersion, isDefault : BOOLEAN, whole : BOOLEAN]
  /\ drafting \in [Clerk -> {NotDrafting} \cup
       [at : {"version", "clear", "insert", "lines"}, version : 1..MaxVersion,
        isDefault : BOOLEAN]]

DefaultBomInit ==
  /\ bom = {}
  /\ drafting = [k \in Clerk |-> NotDrafting]

Rows(v) == {b \in bom : b.version = v}
BomEnds(k) == drafting' = [drafting EXCEPT ![k] = NotDrafting]

(* createBom, or one of those that createBoms generates, never a default *)
createBom(k, isDefault) ==
  /\ k \in desk /\ drafting[k] = NotDrafting
  /\ drafting' = [drafting EXCEPT ![k] =
                    [at |-> "version", version |-> 1, isDefault |-> isDefault]]
  /\ UNCHANGED bom

(* Mutant: the others are cleared as soon as a default is asked for *)
ClearsAtOnce(k) ==
  /\ drafting[k].at = "version"
  /\ drafting[k].version < MaxVersion \/ Rows(drafting[k].version) = {}
  /\ drafting' = IF Rows(drafting[k].version) # {}
                 THEN [drafting EXCEPT ![k].version = @ + 1]
                 ELSE [drafting EXCEPT ![k].at = "insert"]
  /\ bom' = IF drafting[k].isDefault /\ drafting[k].version = 1
            THEN {[b EXCEPT !.isDefault = FALSE] : b \in bom} ELSE bom

(* The loop: one query for each version *)
findBomByItemAndVersion(k) ==
  /\ drafting[k].at = "version"
  /\ drafting[k].version < MaxVersion \/ Rows(drafting[k].version) = {}
  /\ drafting' = IF Rows(drafting[k].version) # {}
                 THEN [drafting EXCEPT ![k].version = @ + 1]
                 ELSE [drafting EXCEPT ![k].at =
                         IF drafting[k].isDefault THEN "clear" ELSE "insert"]
  /\ UNCHANGED bom

clearDefaultForItem(k) ==
  /\ drafting[k].at = "clear"
  /\ bom' = {[b EXCEPT !.isDefault = FALSE] : b \in bom}
  /\ drafting' = [drafting EXCEPT ![k].at = "insert"]

insertBom(k) ==
  /\ drafting[k].at = "insert"
  /\ IF Rows(drafting[k].version) # {}
     THEN BomEnds(k) /\ UNCHANGED bom
     ELSE /\ bom' = bom \cup {[version |-> drafting[k].version,
                               isDefault |-> drafting[k].isDefault, whole |-> FALSE]}
          /\ drafting' = [drafting EXCEPT ![k].at = "lines"]

InsertsBomLines(k) ==
  /\ drafting[k].at = "lines"
  /\ bom' = {IF b.version = drafting[k].version THEN [b EXCEPT !.whole = TRUE] ELSE b : b \in bom}
  /\ BomEnds(k)

(* Also when a line is refused *)
BomDies(k) ==
  /\ drafting[k] # NotDrafting
  /\ BomEnds(k)
  /\ UNCHANGED bom

DefaultBomNext ==
  \E k \in Clerk :
    \/ \E isDefault \in BOOLEAN : createBom(k, isDefault)
    \/ findBomByItemAndVersion(k)
    \/ clearDefaultForItem(k)
    \/ insertBom(k)
    \/ InsertsBomLines(k)
    \/ BomDies(k)

-----------------------------------------------------------------------------
(* Only one may be "Default" at a time (technical.service.ts:36-39).  Two  *)
(* that overlap looked for the version before they cleared, so that either *)
(* the second clears the first or UNIQUE (item, version) refuses it.  (In  *)
(* between, or after a refusal or a crash, there may be none.)             *)
OnlyOneDefault ==
  \A b1, b2 \in bom : b1.isDefault /\ b2.isDefault => b1 = b2

=============================================================================
