-------------------------------- MODULE Trees --------------------------------
(***************************************************************************)
(* Trees: the organization's nodes (organization.service.ts) and the item  *)
(* categories (catalog.service.ts), which are created under, and moved to, *)
(* a parent that is not archived, and archived when they have no children  *)
(* that are not.  The two differ in the database: a trigger on org_node    *)
(* rejects an update that would make a node its own ancestor.  It is a     *)
(* plain query of the rows committed so far: an update that passed it is   *)
(* seen by the others only when it commits, in a later step.  The types of *)
(* nodes, and what may be under what, are left out: the nodes are of types *)
(* that may be under each other, such as departments.                      *)
(***************************************************************************)
EXTENDS Desk, Naturals, FiniteSets

CONSTANTS Node, Top   \* Top: no parent; for nodes, the company they are under

ASSUME TreesAssumption == IsFiniteSet(Node) /\ Top \notin Node

VARIABLES
  kind,     \* of the tree
  parent,   \* of each node that is there
  archived, \* the nodes that are archived
  editing,  \* each clerk's request: step, node, new parent
  crossed   \* two moves have been past the trigger at once (a history variable)

treeVars == <<kind, parent, archived, editing, crossed>>

NotEditing == [at |-> "idle", node |-> Top, under |-> Top]

There == DOMAIN parent

TreesTypeOK ==
  /\ kind \in {"org_node", "item_category"}
  /\ There \subseteq Node /\ archived \subseteq There
  /\ \A n \in There : parent[n] \in There \cup {Top}
  /\ editing \in [Clerk -> {NotEditing} \cup
       [at : {"insert", "ancestors", "update", "commit", "children", "archive"},
        node : Node, under : Node \cup {Top}]]
  /\ crossed \in BOOLEAN

TreesInit ==
  /\ kind \in {"org_node", "item_category"}
  /\ parent = <<>>
  /\ archived = {}
  /\ editing = [k \in Clerk |-> NotEditing]
  /\ crossed = FALSE

(* The nodes above n, one by one *)
Above(n) ==
  LET up[i \in 0..Cardinality(Node)] ==
        IF i = 0 THEN n ELSE IF up[i - 1] = Top THEN Top ELSE parent[up[i - 1]]
  IN up

Ancestors(n) == {Above(n)[i] : i \in 1..Cardinality(Node)}
InACycle(n) == Above(n)[Cardinality(Node)] # Top

(* An update that has not committed yet holds its row *)
Committing(n) == \E k \in Clerk : editing[k].at = "commit" /\ editing[k].node = n

TakesChildren(p) == p = Top \/ p \in There \ archived

EditsAt(k, step) == editing' = [editing EXCEPT ![k].at = step]
EditEnds(k) == editing' = [editing EXCEPT ![k] = NotEditing]
StartsEdit(k, step, n, p) ==
  /\ k \in desk /\ editing[k] = NotEditing
  /\ editing' = [editing EXCEPT ![k] = [at |-> step, node |-> n, under |-> p]]
  /\ UNCHANGED <<kind, parent, archived, crossed>>

(* createNode, createCategory *)
createNode(k, n, p) ==
  /\ n \notin There /\ TakesChildren(p)
  /\ StartsEdit(k, "insert", n, p)

insertNode(k) ==
  LET n == editing[k].node IN
  /\ editing[k].at = "insert"
  /\ parent' = IF n \in There THEN parent
               ELSE [m \in There \cup {n} |-> IF m = n THEN editing[k].under ELSE parent[m]]
  /\ EditEnds(k)
  /\ UNCHANGED <<kind, archived, crossed>>

(* updateNode, updateCategory with a parent: assertMoveAllowed reads the   *)
(* node, then its new parent, then the new parent's ancestors *)
assertMoveAllowed(k, n, p) ==
  /\ n \in There \ archived /\ p # n /\ TakesChildren(p)
  /\ StartsEdit(k, IF p = Top THEN "update" ELSE "ancestors", n, p)

(* The recursive query of a node in a cycle does not end *)
listAncestorIds(k) ==
  /\ editing[k].at = "ancestors"
  /\ ~ InACycle(editing[k].under)
  /\ IF editing[k].node \in Ancestors(editing[k].under) THEN EditEnds(k)
                                                        ELSE EditsAt(k, "update")
  /\ UNCHANGED <<kind, parent, archived, crossed>>

(* Mutant: the trigger lets everything pass *)
PassesUnchecked(k) ==
  /\ editing[k].at = "update" /\ kind = "org_node" /\ editing[k].under # Top
  /\ EditsAt(k, "commit")
  /\ crossed' = (crossed \/ \E j \in Clerk : editing[j].at = "commit")
  /\ UNCHANGED <<kind, parent, archived>>

(* The trigger of org_node, when it has the row: the ancestors of the new  *)
(* parent, as committed.  Its query ends where it meets the node, or at    *)
(* the top.                                                                *)
org_node_prevent_cycle(k) ==
  LET n == editing[k].node  p == editing[k].under IN
  /\ editing[k].at = "update" /\ kind = "org_node" /\ p # Top
  /\ ~ Committing(n)
  /\ \/ /\ n \in Ancestors(p)
        /\ EditEnds(k)
        /\ UNCHANGED crossed
     \/ /\ n \notin Ancestors(p) /\ ~ InACycle(p)
        /\ EditsAt(k, "commit")
        /\ crossed' = (crossed \/ \E j \in Clerk : editing[j].at = "commit")
  /\ UNCHANGED <<kind, parent, archived>>

(* updateNodeFields, updateCategoryFields: the move is there for others *)
updateNodeFields(k) ==
  LET n == editing[k].node  p == editing[k].under IN
  /\ \/ editing[k].at = "commit"
     \/ /\ editing[k].at = "update" /\ (kind = "org_node" => p = Top)
        /\ ~ Committing(n)
  /\ parent' = [parent EXCEPT ![n] = p]
  /\ EditEnds(k)
  /\ UNCHANGED <<kind, archived, crossed>>

(* archiveNode, archiveCategory: one that is archived is left alone *)
archiveNode(k, n) == n \in There \ archived /\ StartsEdit(k, "children", n, Top)

countActiveChildren(k) ==
  /\ editing[k].at = "children"
  /\ IF \E m \in There \ archived : parent[m] = editing[k].node THEN EditEnds(k)
                                                               ELSE EditsAt(k, "archive")
  /\ UNCHANGED <<kind, parent, archived, crossed>>

setNodeStatus(k) ==
  /\ editing[k].at = "archive" /\ ~ Committing(editing[k].node)
  /\ archived' = archived \cup {editing[k].node}
  /\ EditEnds(k)
  /\ UNCHANGED <<kind, parent, crossed>>

EditDies(k) ==
  /\ editing[k] # NotEditing
  /\ EditEnds(k)
  /\ UNCHANGED <<kind, parent, archived, crossed>>

TreesNext ==
  \E k \in Clerk :
    \/ \E n \in Node, p \in Node \cup {Top} : createNode(k, n, p) \/ assertMoveAllowed(k, n, p)
    \/ \E n \in Node : archiveNode(k, n)
    \/ insertNode(k) \/ listAncestorIds(k) \/ org_node_prevent_cycle(k) \/ updateNodeFields(k)
    \/ countActiveChildren(k) \/ setNodeStatus(k)
    \/ EditDies(k)

-----------------------------------------------------------------------------
(* Every node's ancestors lead to the top.  Of org nodes, whatever         *)
(* overlaps, unless two moves have once been past the trigger at a time,   *)
(* neither seeing the other; of categories, when requests come in turn.    *)
(* And in turn, what is archived has no child that is not                  *)
(* (0000_organization_core.sql:60-89, organization.service.ts:132-155,     *)
(* catalog.service.ts:109-126).                                            *)
TreeIsSound ==
  /\ (kind = "org_node" /\ ~ crossed) \/ InTurn => \A n \in There : ~ InACycle(n)
  /\ InTurn => \A n \in There \ archived : parent[n] \notin archived

=============================================================================
