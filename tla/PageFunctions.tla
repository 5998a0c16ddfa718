---------------------------- MODULE PageFunctions ----------------------------
(***************************************************************************)
(* PageFunctions: what the functions of a web page consist of, for the     *)
(* modules that list the pages (TradePages, PlantPages) and for Screens,   *)
(* which runs them.                                                        *)
(*                                                                         *)
(* A page shows its main rows, and on some pages the details of what is    *)
(* selected.  A load GETs one or the other; a handler POSTs what the user  *)
(* asked for and loads again.  Left out are what a form holds, how a page  *)
(* looks, and functions that compute from what is shown.                   *)
(***************************************************************************)

Main == <<"main">>
Details == <<"details">>
MainAndDetails == <<"main", "details">>

-----------------------------------------------------------------------------
(* How a load fails: as a whole, when one GET of its Promise.all does; or  *)
(* by parts, each GET that fails showing nothing (.catch(() => empty)).    *)
(* It clears the page's error first, at its end when it went well, or not  *)
(* at all.                                                                 *)
Whole == [fails |-> {"whole"}, clears |-> "first"]
ByParts == [Whole EXCEPT !.fails = {"part"}]
Mixed == [Whole EXCEPT !.fails = {"whole", "part"}]
ClearsLast(load) == [load EXCEPT !.clears = "last"]
NeverClears(load) == [load EXCEPT !.clears = "never"]

NoLoad == [fails |-> {}, clears |-> "never"]

-----------------------------------------------------------------------------
(* A handler behind a button that is disabled while the page submits: it   *)
(* submits, POSTs, loads again, and in its finally submits no longer       *)
Form(reloads) ==
  [guarded |-> TRUE, submits |-> TRUE, posts |-> {1}, reloads |-> reloads,
   error |-> {}, deaf |-> FALSE]

(* The same behind a button that is not disabled: one in a row of a table  *)
Row(reloads) == [Form(reloads) EXCEPT !.guarded = FALSE]

(* Neither disabled nor submitting; it shows its errors as the page's      *)
Plain(reloads) == [Row(reloads) EXCEPT !.submits = FALSE, !.error = {"sets"}]

(* The handler's errors are the page's own, cleared before it POSTs or not *)
OnPage(handler) == [handler EXCEPT !.error = {"sets"}]
WipesFirst(handler) == [handler EXCEPT !.error = {"sets", "wipes"}]

(* A POST, or one after the other, by what the form says *)
OnceOrTwice(handler) == [handler EXCEPT !.posts = {1, 2}]

(* It takes a refusal for an answer *)
Deaf(handler) == [handler EXCEPT !.deaf = TRUE]

-----------------------------------------------------------------------------
(* A page.  Its view, among:                                               *)
(*   "asked"    it loads when asked, not when opened                       *)
(*   "again"    it loads again: the language or the tab changes, a button  *)
(*   "waits"    the button for that is disabled while it loads             *)
(*   "hides"    it renders nothing else while it loads                     *)
(*   "tells"    it shows that its load failed                              *)
(*   "chains"   opening it loads the details of the selection as well      *)
(*   "first"    it then selects the first anew                             *)
(*   "selects"  the user selects what the details are of                   *)
Page(view, main, details, handlers) ==
  [view |-> view, load |-> [main |-> main, details |-> details], handlers |-> handlers]

=============================================================================
