------------------------------- MODULE Screens -------------------------------
(***************************************************************************)
(* Screens: the web pages, each run function by function against a server  *)
(* that other modules describe: here a server is how many changes a page   *)
(* has made to what each of its loads reads.                               *)
(*                                                                         *)
(* A page's functions are asynchronous, and nothing orders their answers.  *)
(* Each clerk of the desk stands for one function of the page that is      *)
(* under way; with one clerk, the user waits for each to end.  A page that *)
(* is left goes on with what is under way, and nobody hears of it.         *)
(***************************************************************************)
EXTENDS PlantPages, TradePages, Desk, Naturals, Sequences, FiniteSets

CONSTANTS
  Selection,   \* what the user may select on a page
  MaxChanges   \* bound on the changes to what a load reads

ASSUME ScreensAssumption == MaxChanges \in Nat /\ Selection # {}

Pages == TradePageSet \cup PlantPageSet
Pane == {"main", "details"}

VARIABLES
  page,         \* the page
  isOpen,       \* it is the one the shell shows
  server,       \* pane -> the changes made to what it shows
  shown,        \* pane -> how many of them its rows show
  detailsOf,    \* the selection whose details are shown
  selected,
  loading, submitting, error,
  confirmed,    \* pane -> how many changes the user was told of
  call          \* clerk -> a function of the page under way

pageState == <<shown, detailsOf, selected, loading, submitting, error>>
screenVars == <<page, isOpen, server, pageState, confirmed, call>>

Start == CHOOSE s \in Selection : TRUE
NoHandler == [Form(<<>>) EXCEPT !.submits = FALSE]
NoCall == [at |-> "none", handler |-> NoHandler, posts |-> 0, panes |-> <<>>, covers |-> FALSE,
           sel |-> Start, seen |-> 0, orphan |-> FALSE]

ScreensTypeOK ==
  /\ page \in Pages
  /\ isOpen \in BOOLEAN
  /\ server \in [Pane -> 0..MaxChanges]
  /\ \A p \in Pane : shown[p] \in 0..server[p] /\ confirmed[p] \in 0..server[p]
  /\ detailsOf \in Selection /\ selected \in Selection
  /\ loading \in BOOLEAN /\ submitting \in BOOLEAN /\ error \in BOOLEAN
  /\ \A k \in Clerk :
       /\ call[k].at \in {"none", "post", "done", "get", "got"}
       /\ call[k].handler \in page.handlers \cup {NoHandler}
       /\ call[k].at \in {"get", "got"} => call[k].panes # <<>>
       /\ call[k].sel \in Selection /\ call[k].seen \in 0..MaxChanges

ScreensInit ==
  /\ page \in Pages
  /\ isOpen = FALSE
  /\ server = [p \in Pane |-> 0]
  /\ shown = [p \in Pane |-> 0]
  /\ detailsOf = Start /\ selected = Start
  /\ loading = FALSE /\ submitting = FALSE /\ error = FALSE
  /\ confirmed = [p \in Pane |-> 0]
  /\ call = [k \in Clerk |-> NoCall]

-----------------------------------------------------------------------------
Views(flag) == flag \in page.view
Free(k) == k \in desk /\ call[k] = NoCall
UnderWay(k) == call[k] # NoCall /\ ~call[k].orphan

(* Nothing can be pressed on a page that hides while it loads *)
Usable == isOpen /\ ~(Views("hides") /\ loading)

(* A load of these panes begins: covers says that the page is loading *)
Getting(panes, handler, sel) ==
  [NoCall EXCEPT !.at = "get", !.handler = handler, !.panes = panes,
                 !.covers = panes[1] = "main", !.sel = sel]

ClearsAt(when, panes) == panes[1] = "main" /\ page.load.main.clears = when

BeginsLoad(k, panes, handler, sel) ==
  /\ call' = [call EXCEPT ![k] = Getting(panes, handler, sel)]
  /\ loading' = (loading \/ panes[1] = "main")
  /\ error' = (error /\ ~ClearsAt("first", panes))

MountPanes == IF Views("chains") THEN MainAndDetails ELSE Main

(* The shell renders the page, with its state as the useStates have it *)
Opens(k) ==
  /\ Free(k) /\ ~isOpen
  /\ isOpen' = TRUE
  /\ IF Views("asked")
     THEN UNCHANGED <<call, loading, error>>
     ELSE BeginsLoad(k, MountPanes, NoHandler, Start)
  /\ UNCHANGED <<page, server, shown, detailsOf, selected, submitting, confirmed>>

Leaves ==
  /\ isOpen
  /\ InTurn => \A k \in Clerk : call[k] = NoCall
  /\ isOpen' = FALSE
  /\ shown' = [p \in Pane |-> 0]
  /\ detailsOf' = Start /\ selected' = Start
  /\ loading' = FALSE /\ submitting' = FALSE /\ error' = FALSE
  /\ call' = [k \in Clerk |-> IF call[k].at \in {"post", "done"}
                              THEN [call[k] EXCEPT !.orphan = TRUE]
                              ELSE NoCall]
  /\ UNCHANGED <<page, server, confirmed>>

LoadsAgain(k) ==
  /\ Free(k) /\ isOpen /\ Views("again")
  /\ Views("waits") => ~loading
  /\ BeginsLoad(k, MountPanes, NoHandler, IF Views("first") THEN Start ELSE selected)
  /\ UNCHANGED <<page, isOpen, server, shown, detailsOf, selected, submitting, confirmed>>

Selects(k) ==
  /\ Free(k) /\ Usable /\ Views("selects")
  /\ \E s \in Selection :
       /\ selected' = s
       /\ BeginsLoad(k, Details, NoHandler, s)
  /\ UNCHANGED <<page, isOpen, server, shown, detailsOf, submitting, confirmed>>

Presses(k) ==
  /\ Free(k) /\ Usable
  /\ \E h \in page.handlers : \E n \in h.posts :
       /\ h.guarded => ~submitting
       /\ call' = [call EXCEPT ![k] = [NoCall EXCEPT !.at = "post", !.handler = h, !.posts = n,
                                                     !.sel = selected]]
       /\ submitting' = (submitting \/ h.submits)
       /\ error' = (error /\ "wipes" \notin h.error)
  /\ UNCHANGED <<page, isOpen, server, shown, detailsOf, selected, loading, confirmed>>

-----------------------------------------------------------------------------
(* The server does what it is asked, whether or not its answer arrives *)
ServerTakes(k) ==
  /\ call[k].at = "post"
  /\ \A p \in Pane : server[p] < MaxChanges
  /\ server' = [p \in Pane |->
                  IF \E i \in DOMAIN call[k].handler.reloads : call[k].handler.reloads[i] = p
                  THEN server[p] + 1
                  ELSE server[p]]
  /\ call' = IF call[k].orphan /\ call[k].posts = 1
             THEN [call EXCEPT ![k] = NoCall]
             ELSE [call EXCEPT ![k].at = "done", ![k].posts = @ - 1]
  /\ UNCHANGED <<page, isOpen, pageState, confirmed>>

(* Mutant: a load's end frees the buttons as well *)
FreesAll(k) ==
  /\ call' = [call EXCEPT ![k] = NoCall]
  /\ submitting' = (submitting /\ ~call[k].handler.submits /\ ~call[k].covers)
  /\ loading' = (loading /\ ~call[k].covers)

(* A function of the page ends, with its finally *)
Finally(k) ==
  /\ call' = [call EXCEPT ![k] = NoCall]
  /\ submitting' = (submitting /\ ~call[k].handler.submits)
  /\ loading' = (loading /\ ~call[k].covers)

(* Mutant: a refusal leaves without the finally *)
StaysDisabled(k) ==
  /\ call[k].at \in {"post", "done"} /\ ~call[k].orphan
  /\ call' = [call EXCEPT ![k] = NoCall]
  /\ error' = (error \/ "sets" \in call[k].handler.error)
  /\ UNCHANGED <<page, isOpen, server, shown, detailsOf, selected, loading, submitting, confirmed>>

(* The server refuses the request, or cannot be reached: before or after   *)
(* it took the request                                                     *)
Refused(k) ==
  /\ call[k].at \in {"post", "done"} /\ ~call[k].orphan /\ ~call[k].handler.deaf
  /\ Finally(k)
  /\ error' = (error \/ "sets" \in call[k].handler.error)
  /\ UNCHANGED <<page, isOpen, server, shown, detailsOf, selected, confirmed>>

(* An orphan's end *)
ForgetsOrphan(k) ==
  /\ call[k].orphan
  /\ call' = [call EXCEPT ![k] = NoCall]
  /\ UNCHANGED <<page, isOpen, server, pageState, confirmed>>

(* One POST after the other *)
PostsNext(k) ==
  /\ call[k].at = "done" /\ call[k].posts > 0
  /\ call' = [call EXCEPT ![k].at = "post"]
  /\ UNCHANGED <<page, isOpen, server, pageState, confirmed>>

(* Mutant: the page does not load again *)
ConfirmedOnly(k) ==
  LET h == call[k].handler
  IN  /\ call[k].at = "done" /\ call[k].posts = 0 /\ ~call[k].orphan
      /\ confirmed' = [p \in Pane |-> IF \E i \in DOMAIN h.reloads : h.reloads[i] = p
                                      THEN server[p] ELSE confirmed[p]]
      /\ Finally(k)
      /\ UNCHANGED <<page, isOpen, server, shown, detailsOf, selected, error>>

(* The user is told that it is done, and the page loads again *)
Confirmed(k) ==
  LET h == call[k].handler
  IN  /\ \/ call[k].at = "done" /\ call[k].posts = 0
         \/ call[k].at \in {"post", "done"} /\ h.deaf
      /\ ~call[k].orphan
      /\ confirmed' = [p \in Pane |-> IF \E i \in DOMAIN h.reloads : h.reloads[i] = p
                                      THEN server[p] ELSE confirmed[p]]
      /\ IF h.reloads = <<>>
         THEN Finally(k) /\ UNCHANGED error
         ELSE BeginsLoad(k, h.reloads, h, call[k].sel) /\ UNCHANGED submitting
      /\ UNCHANGED <<page, isOpen, server, shown, detailsOf, selected>>

-----------------------------------------------------------------------------
ThisPane(k) == Head(call[k].panes)

(* The server reads the rows for a GET; the answer travels *)
ReadsRows(k) ==
  /\ call[k].at = "get"
  /\ call' = [call EXCEPT ![k].at = "got", ![k].seen = server[ThisPane(k)]]
  /\ UNCHANGED <<page, isOpen, server, pageState, confirmed>>

(* These rows are rendered, and the load goes on to the details or ends.   *)
(* A load that goes on also sets the selection, to what it was before.     *)
Renders(k, rows) ==
  /\ shown' = [shown EXCEPT ![ThisPane(k)] = rows]
  /\ IF ThisPane(k) = "details"
     THEN detailsOf' = call[k].sel /\ UNCHANGED selected
     ELSE /\ UNCHANGED detailsOf
          /\ selected' = IF Len(call[k].panes) > 1 THEN call[k].sel ELSE selected
  /\ IF Len(call[k].panes) > 1
     THEN /\ call' = [call EXCEPT ![k].at = "get", ![k].panes = Tail(@), ![k].seen = 0]
          /\ UNCHANGED <<loading, submitting>>
     ELSE Finally(k)
  /\ error' = (error /\ ~ClearsAt("last", call[k].panes))
  /\ UNCHANGED <<page, isOpen, server, confirmed>>

Shows(k) == call[k].at = "got" /\ Renders(k, call[k].seen)

(* Mutant: the .catch leaves what was shown *)
KeepsRows(k) ==
  /\ call[k].at = "get" /\ "part" \in page.load[ThisPane(k)].fails
  /\ Finally(k)
  /\ UNCHANGED <<page, isOpen, server, shown, detailsOf, selected, error, confirmed>>

(* A GET that fails is caught, and its rows are none *)
ShowsNothing(k) ==
  /\ call[k].at = "get" /\ "part" \in page.load[ThisPane(k)].fails
  /\ Renders(k, 0)

LoadFails(k) ==
  /\ call[k].at = "get" /\ "whole" \in page.load[ThisPane(k)].fails
  /\ error' = TRUE
  /\ Finally(k)
  /\ UNCHANGED <<page, isOpen, server, shown, detailsOf, selected, confirmed>>

ScreensNext ==
  \/ Leaves
  \/ \E k \in Clerk :
       \/ Opens(k) \/ LoadsAgain(k) \/ Selects(k) \/ Presses(k)
       \/ ServerTakes(k) \/ Refused(k) \/ ForgetsOrphan(k) \/ PostsNext(k) \/ Confirmed(k)
       \/ ReadsRows(k) \/ Shows(k) \/ ShowsNothing(k) \/ LoadFails(k)

-----------------------------------------------------------------------------
AtRest == isOpen /\ \A k \in Clerk : call[k] = NoCall

(* Requests cannot overlap on a page that hides while it loads, loads when *)
(* it is opened only, and disables all its buttons while it submits.       *)
OneAtATime ==
  Views("hides") /\ ~Views("again") /\ \A h \in page.handlers : h.guarded

(* On a page that shows no failure of its load, the rows show every change *)
(* the user was told of: when the user waits for each answer, or the page  *)
(* makes the user wait.  (On others a late answer of an earlier load puts  *)
(* back older rows.)                                                       *)
ConfirmedIsShown ==
  (AtRest /\ (InTurn \/ OneAtATime) /\ Views("tells") /\ ~error) =>
    \A p \in Pane : page.load[p].fails = {"whole"} => shown[p] >= confirmed[p]

(* A page whose buttons are all disabled while it submits never has two    *)
(* requests to the server under way, unless it is left meanwhile: loads    *)
(* that end, of whatever function, do not free the buttons.                *)
SubmitsOnce ==
  (\A h \in page.handlers : h.guarded) =>
    Cardinality({k \in Clerk : UnderWay(k) /\ call[k].at \in {"post", "done"}}) <= 1

(* A page is never left disabled, or loading, with nothing under way that  *)
(* would end it: every function has a finally, whatever fails.             *)
BusyIsWorking ==
  /\ submitting => \E k \in Clerk : UnderWay(k) /\ call[k].handler.submits
  /\ loading => \E k \in Clerk : UnderWay(k) /\ call[k].covers

(* When the user waits for each answer, the details shown, if any, are of  *)
(* what is selected: a failed load empties them.                           *)
SelectedIsShown ==
  (InTurn /\ AtRest /\ Views("selects")) =>
    shown["details"] = 0 \/ detailsOf = selected

=============================================================================
