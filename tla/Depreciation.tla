---------------------------- MODULE Depreciation ----------------------------
(***************************************************************************)
(* Depreciation: one fixed asset, depreciated month by month               *)
(* (postAssetDepreciation, accounting.service.ts).  The entry is created   *)
(* under the month's idempotency key and posted; then the depreciation is  *)
(* recorded, and the asset updated with a sum of what was read at first.   *)
(***************************************************************************)
EXTENDS Desk, Naturals, FiniteSets

CONSTANTS
  AssetMonth,   \* the months asked for, of any year
  Life          \* usefulLifeMonths: one unit of the cost is depreciated each month

ASSUME DepreciationAssumption == Life \in Nat \ {0} /\ IsFiniteSet(AssetMonth)

VARIABLES
  asset,          \* fixed_asset: cost less salvage value, totalDepreciated, status
  monthEntry,     \* the journal entry with the month's idempotency key
  depreciations,  \* depreciation_entry: month, accumulatedAmountAfter
  depreciating    \* each clerk's request

depreciationVars == <<asset, monthEntry, depreciations, depreciating>>

NotDepreciating == [at |-> "idle", month |-> {}, read |-> 0]

DepreciationTypeOK ==
  /\ asset \in [cost : {0, Life}, total : 0..Life, status : {"active", "fully_depreciated"}]
  /\ monthEntry \in [AssetMonth -> {"none", "draft", "posted"}]
  /\ depreciations \subseteq [month : AssetMonth, after : 1..Life]
  /\ depreciating \in [Clerk -> {NotDepreciating} \cup
       [at : {"exhausted", "create", "post", "insert", "update"},
        month : AssetMonth, read : 0..Life]]

DepreciationInit ==
  /\ \E cost \in {0, Life} : asset = [cost |-> cost, total |-> 0, status |-> "active"]
  /\ monthEntry = [m \in AssetMonth |-> "none"]
  /\ depreciations = {}
  /\ depreciating = [k \in Clerk |-> NotDepreciating]

Ends(k) == depreciating' = [depreciating EXCEPT ![k] = NotDepreciating]
Goes(k, step) == depreciating' = [depreciating EXCEPT ![k].at = step]

(* Refused unless active *)
postAssetDepreciation(k, m) ==
  /\ k \in desk /\ depreciating[k] = NotDepreciating
  /\ asset.status = "active"
  /\ depreciating' = [depreciating EXCEPT ![k] =
       [at |-> IF asset.total >= asset.cost THEN "exhausted" ELSE "create",
        month |-> m, read |-> asset.total]]
  /\ UNCHANGED <<asset, monthEntry, depreciations>>

(* Nothing remains of an active asset, as when its salvage value is its    *)
(* cost, which createFixedAsset allows: updated, then refused *)
MarksExhausted(k) ==
  /\ depreciating[k].at = "exhausted"
  /\ asset' = [asset EXCEPT !.total = depreciating[k].read, !.status = "fully_depreciated"]
  /\ Ends(k)
  /\ UNCHANGED <<monthEntry, depreciations>>

(* Mutant: a month whose key is in use counts as posted already *)
TakesKeyForPosted(k) ==
  /\ depreciating[k].at = "create"
  /\ IF monthEntry[depreciating[k].month] = "none"
     THEN /\ monthEntry' = [monthEntry EXCEPT ![depreciating[k].month] = "draft"]
          /\ Goes(k, "post")
     ELSE Goes(k, "insert") /\ UNCHANGED monthEntry
  /\ UNCHANGED <<asset, depreciations>>

(* createEntry: refused when the month's key is in use *)
CreatesMonthEntry(k) ==
  /\ depreciating[k].at = "create"
  /\ IF monthEntry[depreciating[k].month] = "none"
     THEN /\ monthEntry' = [monthEntry EXCEPT ![depreciating[k].month] = "draft"]
          /\ Goes(k, "post")
     ELSE Ends(k) /\ UNCHANGED monthEntry
  /\ UNCHANGED <<asset, depreciations>>

PostsMonthEntry(k) ==
  /\ depreciating[k].at = "post"
  /\ monthEntry' = [monthEntry EXCEPT ![depreciating[k].month] = "posted"]
  /\ Goes(k, "insert")
  /\ UNCHANGED <<asset, depreciations>>

insertDepreciationEntry(k) ==
  /\ depreciating[k].at = "insert"
  /\ depreciations' = depreciations \cup
       {[month |-> depreciating[k].month, after |-> depreciating[k].read + 1]}
  /\ Goes(k, "update")
  /\ UNCHANGED <<asset, monthEntry>>

updateFixedAssetDepreciation(k) ==
  LET total == depreciating[k].read + 1 IN
  /\ depreciating[k].at = "update"
  /\ asset' = [asset EXCEPT !.total = total,
       !.status = IF total >= asset.cost THEN "fully_depreciated" ELSE "active"]
  /\ Ends(k)
  /\ UNCHANGED <<monthEntry, depreciations>>

(* The server stops, a statement fails, or createEntry or postEntry        *)
(* refuses: a closed period, an account that is not a leaf                 *)
DepreciationDies(k) ==
  /\ depreciating[k] # NotDepreciating
  /\ Ends(k)
  /\ UNCHANGED <<asset, monthEntry, depreciations>>

DepreciationNext ==
  \E k \in Clerk :
    \/ \E m \in AssetMonth : postAssetDepreciation(k, m)
    \/ MarksExhausted(k)
    \/ CreatesMonthEntry(k)
    \/ PostsMonthEntry(k)
    \/ insertDepreciationEntry(k)
    \/ updateFixedAssetDepreciation(k)
    \/ DepreciationDies(k)

-----------------------------------------------------------------------------
Posted == {m \in AssetMonth : monthEntry[m] = "posted"}

(* Whatever dies, is repeated or overlaps, the asset never shows more      *)
(* depreciation than the ledger does, and every recorded depreciation has  *)
(* its month's posted entry.  (It may show less, for ever: the month's key *)
(* is in use once its entry exists, accounting.service.ts:350.)            *)
DepreciationIsPosted ==
  /\ asset.total <= Cardinality(Posted)
  /\ \A d \in depreciations : d.month \in Posted /\ d.after <= Cardinality(Posted)

=============================================================================
