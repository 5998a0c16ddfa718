---------------------------- MODULE ScreensProofs ----------------------------
(***************************************************************************)
(* What Screens keeps on every page of TradePages and PlantPages, for any  *)
(* clerks, selections and number of changes; and, with the invariants of   *)
(* the other offices, that no variable of BackOffice leaves its type.      *)
(***************************************************************************)
EXTENDS BackOfficeProofs, PlantProofs

-----------------------------------------------------------------------------
(* A call's fields, whatever they hold *)
IsCall(r) ==
  DOMAIN r = {"at", "handler", "posts", "panes", "covers", "sel", "seen", "orphan"}

(* A handler that has not been answered does not load yet, so that the     *)
(* load that follows is the first to cover the page.                       *)
BusyInv ==
  /\ call = [k \in Clerk |-> call[k]]
  /\ \A k \in Clerk : /\ IsCall(call[k])
                      /\ call[k].at \in {"post", "done"} => ~ call[k].covers
  /\ BusyIsWorking

(* A clerk without a function has a call that is none. *)
LEMMA NoCallIs ==
  /\ IsCall(NoCall) /\ NoCall.at = "none" /\ NoCall.handler = NoHandler /\ NoCall.sel = Start
  /\ NoCall.panes = <<>> /\ NoCall.seen = 0 /\ NoCall.covers = FALSE /\ NoCall.orphan = FALSE
BY DEF IsCall, NoCall

(* What a load that begins is *)
LEMMA LoadIsCall ==
  ASSUME NEW panes, NEW handler, NEW sel
  PROVE  /\ IsCall(Getting(panes, handler, sel))
         /\ Getting(panes, handler, sel).at = "get"
         /\ Getting(panes, handler, sel).handler = handler
         /\ ~ Getting(panes, handler, sel).orphan
         /\ Getting(panes, handler, sel).covers <=> panes[1] = "main"
<1>1. ASSUME NEW covers
      PROVE  LET c == [NoCall EXCEPT !.at = "get", !.handler = handler, !.panes = panes,
                                     !.covers = covers, !.sel = sel]
             IN  /\ IsCall(c) /\ c.at = "get" /\ c.handler = handler
                 /\ c.covers = covers /\ c.orphan = NoCall.orphan
  <2> DEFINE n == NoCall
  <2>1. IsCall(n)
    BY NoCallIs
  <2> HIDE DEF n
  <2>2. QED
    BY <2>1 DEF IsCall, n
<1>2. NoCall.orphan = FALSE
  BY DEF NoCall
<1>3. QED
  BY <1>1, <1>2, Zenon DEF Getting

(* A step changes one call: the page is busy only by what is under way     *)
(* then, or by others'.                                                    *)
LEMMA BusyGoesOn ==
  ASSUME BusyInv, NEW k \in Clerk, NEW c, IsCall(c), call' = [call EXCEPT ![k] = c],
         c.at \in {"post", "done"} => ~ c.covers,
         submitting' => (\/ c # NoCall /\ ~ c.orphan /\ c.handler.submits
                         \/ submitting /\ ~ (UnderWay(k) /\ call[k].handler.submits)),
         loading' => (\/ c # NoCall /\ ~ c.orphan /\ c.covers
                      \/ loading /\ ~ (UnderWay(k) /\ call[k].covers))
  PROVE  BusyInv'
<1>1. /\ call' = [j \in Clerk |-> call'[j]]
      /\ call'[k] = c
      /\ \A j \in Clerk : j # k => call'[j] = call[j]
  BY DEF BusyInv
<1>2. \A j \in Clerk : /\ IsCall(call'[j])
                       /\ call'[j].at \in {"post", "done"} => ~ call'[j].covers
  BY <1>1 DEF BusyInv
<1>3. \A j \in Clerk : j # k => (UnderWay(j) <=> UnderWay(j)')
  BY <1>1 DEF UnderWay
<1>4. ASSUME submitting' PROVE \E j \in Clerk : UnderWay(j)' /\ call'[j].handler.submits
  <2>1. CASE c # NoCall /\ ~ c.orphan /\ c.handler.submits
    BY <1>1, <2>1 DEF UnderWay
  <2>2. CASE submitting /\ ~ (UnderWay(k) /\ call[k].handler.submits)
    BY <1>1, <1>3, <2>2 DEF BusyInv, BusyIsWorking
  <2>3. QED
    BY <1>4, <2>1, <2>2
<1>5. ASSUME loading' PROVE \E j \in Clerk : UnderWay(j)' /\ call'[j].covers
  <2>1. CASE c # NoCall /\ ~ c.orphan /\ c.covers
    BY <1>1, <2>1 DEF UnderWay
  <2>2. CASE loading /\ ~ (UnderWay(k) /\ call[k].covers)
    BY <1>1, <1>3, <2>2 DEF BusyInv, BusyIsWorking
  <2>3. QED
    BY <1>5, <2>1, <2>2
<1>6. BusyIsWorking'
  BY <1>4, <1>5 DEF BusyIsWorking
<1>7. QED
  BY <1>1, <1>2, <1>6 DEF BusyInv

-----------------------------------------------------------------------------
(* A function's end takes with it what it was busy with. *)
LEMMA BusyEnds ==
  ASSUME BusyInv, NEW k \in Clerk, call' = [call EXCEPT ![k] = NoCall],
         submitting' => submitting /\ ~ (UnderWay(k) /\ call[k].handler.submits),
         loading' => loading /\ ~ (UnderWay(k) /\ call[k].covers)
  PROVE  BusyInv'
<1> DEFINE c == NoCall
<1>1. IsCall(c) /\ call' = [call EXCEPT ![k] = c] /\ (c.at \in {"post", "done"} => ~ c.covers)
  BY NoCallIs
<1> HIDE DEF c
<1>2. QED
  BY <1>1, BusyGoesOn

(* Every finally resets the flags its own function set. *)
LEMMA BusyFinally ==
  ASSUME BusyInv, NEW k \in Clerk, Finally(k)
  PROVE  BusyInv'
BY BusyEnds DEF Finally

(* A load begins, for a clerk whose function does not load yet. *)
LEMMA BusyBegins ==
  ASSUME BusyInv, NEW k \in Clerk, NEW panes, NEW handler, NEW sel,
         BeginsLoad(k, panes, handler, sel), submitting' = submitting,
         ~ (UnderWay(k) /\ call[k].covers), UnderWay(k) => handler = call[k].handler
  PROVE  BusyInv'
<1> DEFINE c == Getting(panes, handler, sel)
<1>1. /\ IsCall(c) /\ c.at = "get" /\ c.handler = handler /\ ~ c.orphan
      /\ c.covers <=> panes[1] = "main"
  BY LoadIsCall
<1>2. call' = [call EXCEPT ![k] = c] /\ (loading' <=> loading \/ panes[1] = "main")
  BY DEF BeginsLoad
<1> HIDE DEF c
<1>3. c # NoCall
  BY <1>1, NoCallIs
<1>4. loading' => \/ c # NoCall /\ ~ c.orphan /\ c.covers
                  \/ loading /\ ~ (UnderWay(k) /\ call[k].covers)
  BY <1>1, <1>2, <1>3, Zenon
<1>5. submitting' => \/ c # NoCall /\ ~ c.orphan /\ c.handler.submits
                     \/ submitting /\ ~ (UnderWay(k) /\ call[k].handler.submits)
  BY <1>1, <1>3, Zenon
<1>6. c.at \in {"post", "done"} => ~ c.covers
  BY <1>1
<1>7. QED
  BY <1>1, <1>2, <1>4, <1>5, <1>6, BusyGoesOn

(* A function goes on, for the same handler and the same load. *)
LEMMA BusyContinues ==
  ASSUME BusyInv, NEW k \in Clerk, NEW c, IsCall(c), call' = [call EXCEPT ![k] = c],
         c.at # "none", c.at \in {"post", "done"} => call[k].at \in {"post", "done"},
         c.handler = call[k].handler, c.orphan = call[k].orphan, c.covers = call[k].covers,
         submitting' = submitting, loading' = loading
  PROVE  BusyInv'
<1>1. c # NoCall
  BY NoCallIs
<1>2. submitting' => \/ c # NoCall /\ ~ c.orphan /\ c.handler.submits
                     \/ submitting /\ ~ (UnderWay(k) /\ call[k].handler.submits)
  BY <1>1, Zenon DEF UnderWay
<1>3. loading' => \/ c # NoCall /\ ~ c.orphan /\ c.covers
                  \/ loading /\ ~ (UnderWay(k) /\ call[k].covers)
  BY <1>1, Zenon DEF UnderWay
<1>4. c.at \in {"post", "done"} => ~ c.covers
  BY DEF BusyInv
<1>5. QED
  BY <1>2, <1>3, <1>4, BusyGoesOn

-----------------------------------------------------------------------------
(* The page is opened, loads again, or shows another selection. *)
LEMMA BusyLoads ==
  ASSUME BusyInv, NEW k \in Clerk, Opens(k) \/ LoadsAgain(k) \/ Selects(k)
  PROVE  BusyInv'
<1>1. ~ UnderWay(k) /\ submitting' = submitting
  BY DEF Opens, LoadsAgain, Selects, Free, UnderWay
<1>2. CASE UNCHANGED <<call, loading>>
  BY <1>1, <1>2 DEF BusyInv, BusyIsWorking, UnderWay, IsCall
<1>3. CASE \E panes, sel : BeginsLoad(k, panes, NoHandler, sel)
  BY <1>1, <1>3, BusyBegins
<1>4. QED
  BY <1>2, <1>3 DEF Opens, LoadsAgain, Selects

(* A button is pressed (the onClick and onSubmit handlers of the pages). *)
LEMMA BusyPresses ==
  ASSUME BusyInv, NEW k \in Clerk, Presses(k)
  PROVE  BusyInv'
<1>1. PICK h \in page.handlers : \E n \in h.posts :
        /\ call' = [call EXCEPT ![k] = [NoCall EXCEPT !.at = "post", !.handler = h,
                                                      !.posts = n, !.sel = selected]]
        /\ submitting' = (submitting \/ h.submits)
  BY DEF Presses
<1>2. PICK n \in h.posts :
        /\ call' = [call EXCEPT ![k] = [NoCall EXCEPT !.at = "post", !.handler = h,
                                                      !.posts = n, !.sel = selected]]
        /\ submitting' = (submitting \/ h.submits)
  BY <1>1
<1>3. ~ UnderWay(k) /\ loading' = loading
  BY DEF Presses, Free, UnderWay
<1> DEFINE b == NoCall
           c == [b EXCEPT !.at = "post", !.handler = h, !.posts = n, !.sel = selected]
<1>4. call' = [call EXCEPT ![k] = c]
  BY <1>2
<1>5. IsCall(b) /\ ~ b.covers /\ ~ b.orphan
  BY NoCallIs
<1> HIDE DEF b
<1>6. IsCall(c) /\ c.at = "post" /\ c.handler = h /\ c.covers = b.covers /\ c.orphan = b.orphan
  BY <1>5 DEF IsCall
<1> HIDE DEF c
<1>7. c # NoCall
  BY <1>6, NoCallIs
<1>8. submitting' => \/ c # NoCall /\ ~ c.orphan /\ c.handler.submits
                     \/ submitting /\ ~ (UnderWay(k) /\ call[k].handler.submits)
  BY <1>2, <1>3, <1>5, <1>6, <1>7, Zenon
<1>9. loading' => \/ c # NoCall /\ ~ c.orphan /\ c.covers
                  \/ loading /\ ~ (UnderWay(k) /\ call[k].covers)
  BY <1>3
<1>10. c.at \in {"post", "done"} => ~ c.covers
  BY <1>5, <1>6, Zenon
<1>11. QED
  BY <1>4, <1>6, <1>8, <1>9, <1>10, BusyGoesOn

(* The server takes a request, or its rows are read. *)
LEMMA BusyServes ==
  ASSUME BusyInv, NEW k \in Clerk, ServerTakes(k) \/ PostsNext(k) \/ ReadsRows(k)
  PROVE  BusyInv'
<1>1. submitting' = submitting /\ loading' = loading
  BY DEF ServerTakes, PostsNext, ReadsRows, pageState
<1> DEFINE r == call[k]
<1>2. IsCall(r)
  BY DEF BusyInv
<1>3. CASE ServerTakes(k) /\ r.orphan /\ r.posts = 1
  BY <1>1, <1>3, BusyEnds, Zenon DEF ServerTakes, UnderWay
<1>4. CASE ServerTakes(k) /\ ~ (r.orphan /\ r.posts = 1)
  <2> DEFINE c == [r EXCEPT !.at = "done", !.posts = r.posts - 1]
  <2>1. call' = [call EXCEPT ![k] = c] /\ r.at = "post"
    BY <1>4 DEF ServerTakes, BusyInv
  <2> HIDE DEF r
  <2>2. /\ IsCall(c) /\ c.at = "done" /\ c.handler = r.handler /\ c.orphan = r.orphan
        /\ c.covers = r.covers
    BY <1>2 DEF IsCall
  <2> HIDE DEF c
  <2>3. QED
    BY <1>1, <2>1, <2>2, BusyContinues DEF r
<1>5. CASE PostsNext(k)
  <2> DEFINE c == [r EXCEPT !.at = "post"]
  <2>1. call' = [call EXCEPT ![k] = c] /\ r.at = "done"
    BY <1>5 DEF PostsNext
  <2> HIDE DEF r
  <2>2. /\ IsCall(c) /\ c.at = "post" /\ c.handler = r.handler /\ c.orphan = r.orphan
        /\ c.covers = r.covers
    BY <1>2 DEF IsCall
  <2> HIDE DEF c
  <2>3. QED
    BY <1>1, <2>1, <2>2, BusyContinues DEF r
<1>6. CASE ReadsRows(k)
  <2> DEFINE c == [r EXCEPT !.at = "got", !.seen = server[ThisPane(k)]]
  <2>1. call' = [call EXCEPT ![k] = c]
    BY <1>6 DEF ReadsRows, BusyInv
  <2> HIDE DEF r
  <2>2. /\ IsCall(c) /\ c.at = "got" /\ c.handler = r.handler /\ c.orphan = r.orphan
        /\ c.covers = r.covers
    BY <1>2 DEF IsCall
  <2> HIDE DEF c
  <2>3. QED
    BY <1>1, <2>1, <2>2, BusyContinues DEF r
<1>7. QED
  BY <1>3, <1>4, <1>5, <1>6

(* A function ends, or an orphan is forgotten, or the page loads again: a  *)
(* handler ends in its finally, whatever the server answers.               *)
LEMMA BusyAnswers ==
  ASSUME BusyInv, NEW k \in Clerk,
         \/ Refused(k) \/ ForgetsOrphan(k) \/ Confirmed(k) \/ LoadFails(k)
  PROVE  BusyInv'
<1>1. CASE Refused(k) \/ LoadFails(k)
  BY <1>1, BusyFinally DEF Refused, LoadFails
<1>2. CASE ForgetsOrphan(k)
  BY <1>2, BusyEnds DEF ForgetsOrphan, UnderWay, pageState
<1>3. CASE Confirmed(k)
  <2>1. CASE Finally(k)
    BY <2>1, BusyFinally
  <2>2. CASE /\ BeginsLoad(k, call[k].handler.reloads, call[k].handler, call[k].sel)
             /\ submitting' = submitting
    <3>1. ~ call[k].covers
      BY <1>3 DEF Confirmed, BusyInv
    <3>2. QED
      BY <2>2, <3>1, BusyBegins
  <2>3. QED
    BY <1>3, <2>1, <2>2 DEF Confirmed
<1>4. QED
  BY <1>1, <1>2, <1>3

(* Rows are rendered, and the load goes on or ends. *)
LEMMA BusyRenders ==
  ASSUME BusyInv, NEW k \in Clerk, Shows(k) \/ ShowsNothing(k)
  PROVE  BusyInv'
<1>1. PICK rows : Renders(k, rows)
  BY DEF Shows, ShowsNothing
<1>2. CASE Finally(k)
  BY <1>2, BusyFinally
<1> DEFINE r == call[k]
           c == [r EXCEPT !.at = "get", !.panes = Tail(r.panes), !.seen = 0]
<1>3. CASE call' = [call EXCEPT ![k] = c] /\ UNCHANGED <<loading, submitting>>
  <2>1. IsCall(r)
    BY DEF BusyInv
  <2> HIDE DEF r
  <2>2. /\ IsCall(c) /\ c.at = "get" /\ c.handler = r.handler /\ c.orphan = r.orphan
        /\ c.covers = r.covers
    BY <2>1 DEF IsCall
  <2> HIDE DEF c
  <2>3. QED
    BY <1>3, <2>2, BusyContinues DEF r
<1>4. QED
  BY <1>1, <1>2, <1>3 DEF Renders, BusyInv

(* A page that is left forgets that it was busy. *)
LEMMA BusyLeaves ==
  ASSUME BusyInv, Leaves
  PROVE  BusyInv'
<1>1. call' = [k \in Clerk |-> IF call[k].at \in {"post", "done"}
                               THEN [call[k] EXCEPT !.orphan = TRUE]
                               ELSE NoCall]
  BY DEF Leaves
<1>2. submitting' = FALSE /\ loading' = FALSE
  BY DEF Leaves
<1>3. ASSUME NEW k \in Clerk
      PROVE  IsCall(call'[k]) /\ (call'[k].at \in {"post", "done"} => ~ call'[k].covers)
  <2> DEFINE r == call[k]
             c == [r EXCEPT !.orphan = TRUE]
  <2>1. IsCall(r) /\ (r.at \in {"post", "done"} => ~ r.covers)
    BY DEF BusyInv
  <2>2. call'[k] = c \/ call'[k] = NoCall
    BY <1>1
  <2>3. r.at \in {"post", "done"} \/ call'[k] = NoCall
    BY <1>1
  <2> HIDE DEF r
  <2>4. IsCall(c) /\ c.at = r.at /\ c.covers = r.covers
    BY <2>1 DEF IsCall
  <2> HIDE DEF c
  <2>5. QED
    BY <2>1, <2>2, <2>3, <2>4, NoCallIs
<1>4. call' = [k \in Clerk |-> call'[k]]
  BY <1>1
<1>5. QED
  BY <1>2, <1>3, <1>4 DEF BusyInv, BusyIsWorking

-----------------------------------------------------------------------------
(* A page is never left disabled, or loading, with nothing under way that  *)
(* would end it: for any pages of these functions, any clerks and answers  *)
(* in any order (the try ... finally of every handler under pages/).       *)
THEOREM BusyWorks == Spec => []BusyIsWorking
<1>1. Init => BusyInv
  <2> SUFFICES ASSUME Init PROVE BusyInv
    OBVIOUS
  <2>1. call = [k \in Clerk |-> NoCall] /\ submitting = FALSE /\ loading = FALSE
    BY DEF Init, ScreensInit
  <2>2. QED
    BY <2>1, NoCallIs DEF BusyInv, BusyIsWorking
<1>2. BusyInv /\ [Next]_vars => BusyInv'
  <2> SUFFICES ASSUME BusyInv, [Next]_vars PROVE BusyInv'
    OBVIOUS
  <2>1. CASE UNCHANGED screenVars
    BY <2>1 DEF BusyInv, BusyIsWorking, UnderWay, IsCall, screenVars, pageState
  <2>2. CASE ScreensNext
    <3>1. ASSUME NEW k \in Clerk, Opens(k) \/ LoadsAgain(k) \/ Selects(k)
          PROVE  BusyInv'
      BY <3>1, BusyLoads
    <3>2. ASSUME NEW k \in Clerk, Presses(k)
          PROVE  BusyInv'
      BY <3>2, BusyPresses
    <3>3. ASSUME NEW k \in Clerk, ServerTakes(k) \/ PostsNext(k) \/ ReadsRows(k)
          PROVE  BusyInv'
      BY <3>3, BusyServes
    <3>4. ASSUME NEW k \in Clerk,
                 \/ Refused(k) \/ ForgetsOrphan(k) \/ Confirmed(k) \/ LoadFails(k)
          PROVE  BusyInv'
      BY <3>4, BusyAnswers
    <3>5. ASSUME NEW k \in Clerk, Shows(k) \/ ShowsNothing(k)
          PROVE  BusyInv'
      BY <3>5, BusyRenders
    <3>6. QED
      BY <2>2, <3>1, <3>2, <3>3, <3>4, <3>5, BusyLeaves DEF ScreensNext
  <2>3. QED
    BY <2>1, <2>2 DEF Next, vars
<1>3. BusyInv => BusyIsWorking
  BY DEF BusyInv
<1>4. QED
  BY <1>1, <1>2, <1>3, PTL DEF Spec

-----------------------------------------------------------------------------
(* What the pages are made of                                              *)
-----------------------------------------------------------------------------

Reloads == {<<>>, Main, Details, MainAndDetails}

(* A function that a page has: a button that is disabled while the page    *)
(* submits is one that submits.                                            *)
IsHandler(h) ==
  /\ h \in [guarded : BOOLEAN, submits : BOOLEAN, posts : SUBSET {1, 2}, reloads : Reloads,
            error : SUBSET {"sets", "wipes"}, deaf : BOOLEAN]
  /\ h.guarded => h.submits

(* It leaves the error of a failed load where it is *)
Calm(h) == IsHandler(h) /\ "wipes" \notin h.error

(* The details of a selection never fail as a whole; and a page that tells *)
(* that its rows failed to load tells so until they load again, if it      *)
(* loads them at all: it loads when opened, and no handler wipes the error *)
(* before it POSTs.                                                        *)
IsPage(p) ==
  /\ \A h \in p.handlers : IsHandler(h)
  /\ "whole" \notin p.load["details"].fails
  /\ \/ p.load["main"].fails # {"whole"} \/ "tells" \notin p.view
     \/ "asked" \notin p.view /\ \A h \in p.handlers : Calm(h)
     \/ \A h \in p.handlers : h.reloads = <<>>

(* The functions that the modules of the pages build handlers with         *)
LEMMA Makers ==
  /\ \A r \in Reloads : Calm(Form(r)) /\ Calm(Row(r)) /\ Calm(Plain(r))
  /\ \A h : Calm(h) => IsHandler(h)
  /\ \A h : Calm(h) => Calm(OnPage(h)) /\ Calm(OnceOrTwice(h)) /\ Calm(Deaf(h))
  /\ \A h : IsHandler(h) => IsHandler(WipesFirst(h)) /\ WipesFirst(h).reloads = h.reloads
  /\ Form(<<>>).reloads = <<>>
  /\ <<>> \in Reloads /\ Main \in Reloads /\ Details \in Reloads /\ MainAndDetails \in Reloads
<1> DEFINE H == [guarded : BOOLEAN, submits : BOOLEAN, posts : SUBSET {1, 2}, reloads : Reloads,
                 error : SUBSET {"sets", "wipes"}, deaf : BOOLEAN]
<1>1. ASSUME NEW r \in Reloads
      PROVE  /\ Form(r) \in H /\ Form(r).guarded /\ Form(r).submits
             /\ Form(r).error = {} /\ Form(r).reloads = r
  <2>1. {} \in SUBSET {"sets", "wipes"} /\ {1} \in SUBSET {1, 2}
    OBVIOUS
  <2>2. QED
    BY <2>1 DEF Form
<1>2. /\ {} \in SUBSET {"sets", "wipes"} /\ "wipes" \notin {}
      /\ {"sets"} \in SUBSET {"sets", "wipes"} /\ "wipes" \notin {"sets"}
      /\ {"sets", "wipes"} \in SUBSET {"sets", "wipes"}
      /\ {1, 2} \in SUBSET {1, 2}
  OBVIOUS
<1>3. \A h \in H : /\ OnPage(h) \in H /\ OnPage(h).guarded = h.guarded
                   /\ OnPage(h).submits = h.submits /\ OnPage(h).error = {"sets"}
  BY <1>2 DEF OnPage
<1>4. \A h \in H : /\ OnceOrTwice(h) \in H /\ OnceOrTwice(h).guarded = h.guarded
                   /\ OnceOrTwice(h).submits = h.submits /\ OnceOrTwice(h).error = h.error
  BY <1>2 DEF OnceOrTwice
<1>5. \A h \in H : /\ Deaf(h) \in H /\ Deaf(h).guarded = h.guarded
                   /\ Deaf(h).submits = h.submits /\ Deaf(h).error = h.error
  BY DEF Deaf
<1>6. \A h \in H : /\ WipesFirst(h) \in H /\ WipesFirst(h).guarded = h.guarded
                   /\ WipesFirst(h).submits = h.submits /\ WipesFirst(h).reloads = h.reloads
  BY <1>2 DEF WipesFirst
<1>7. ASSUME NEW r \in Reloads
      PROVE  Row(r) \in H /\ Row(r).guarded = FALSE /\ Row(r).error = {}
  <2> DEFINE f == Form(r)
  <2>1. f \in H /\ f.error = {} /\ Row(r) = [f EXCEPT !.guarded = FALSE]
    BY <1>1 DEF Row
  <2> HIDE DEF f
  <2>2. QED
    BY <2>1
<1>8. ASSUME NEW r \in Reloads
      PROVE  Plain(r) \in H /\ Plain(r).guarded = FALSE /\ Plain(r).error = {"sets"}
  <2> DEFINE f == Row(r)
             e == {"sets"}
  <2>1. f \in H /\ f.guarded = FALSE /\ Plain(r) = [f EXCEPT !.submits = FALSE, !.error = e]
    BY <1>7 DEF Plain
  <2>2. e \in SUBSET {"sets", "wipes"}
    OBVIOUS
  <2> HIDE DEF f, e
  <2>3. Plain(r) \in H /\ Plain(r).guarded = FALSE /\ Plain(r).error = e
    BY <2>1, <2>2
  <2>4. QED
    BY <2>3 DEF e
<1>9. \A h : IsHandler(h) <=> h \in H /\ (h.guarded => h.submits)
  BY DEF IsHandler
<1>10. /\ <<>> \in Reloads /\ Main \in Reloads /\ Details \in Reloads
       /\ MainAndDetails \in Reloads
  BY DEF Reloads
<1> HIDE DEF H
<1>11. \A r \in Reloads : Calm(Form(r)) /\ Form(r).reloads = r
  BY <1>1, <1>2, <1>9 DEF Calm
<1>12. \A r \in Reloads : Calm(Row(r)) /\ Calm(Plain(r))
  BY <1>2, <1>7, <1>8, <1>9, Zenon DEF Calm
<1>13. \A h : Calm(h) => Calm(OnPage(h)) /\ Calm(OnceOrTwice(h)) /\ Calm(Deaf(h))
  BY <1>2, <1>3, <1>4, <1>5, <1>9, Zenon DEF Calm
<1>14. \A h : IsHandler(h) => IsHandler(WipesFirst(h)) /\ WipesFirst(h).reloads = h.reloads
  BY <1>6, <1>9, Zenon
<1>15. QED
  BY <1>10, <1>11, <1>12, <1>13, <1>14 DEF Calm

(* How the loads of the pages fail                                         *)
LEMMA Loads ==
  /\ "whole" \notin ByParts.fails /\ "whole" \notin NoLoad.fails
  /\ ByParts.fails # {"whole"} /\ Mixed.fails # {"whole"} /\ NoLoad.fails # {"whole"}
  /\ ClearsLast(ByParts).fails # {"whole"} /\ NeverClears(ByParts).fails # {"whole"}
  /\ NeverClears(Mixed).fails # {"whole"}
<1>1. ByParts = [fails |-> {"part"}, clears |-> "first"]
  BY DEF ByParts, Whole
<1>2. Mixed = [fails |-> {"whole", "part"}, clears |-> "first"]
  BY DEF Mixed, Whole
<1>3. QED
  BY <1>1, <1>2 DEF NoLoad, ClearsLast, NeverClears

(* A page of such functions *)
LEMMA PageOf ==
  ASSUME NEW view, NEW main, NEW details, NEW handlers,
         \A h \in handlers : IsHandler(h), "whole" \notin details.fails,
         \/ main.fails # {"whole"} \/ "tells" \notin view
         \/ "asked" \notin view /\ \A h \in handlers : Calm(h)
         \/ \A h \in handlers : h.reloads = <<>>
  PROVE  IsPage(Page(view, main, details, handlers))
BY DEF IsPage, Page

(* The pages of accounting, sales, purchasing, delivery, staff and users    *)
LEMMA TradePagesAreSound == \A p \in TradePageSet : IsPage(p)
<1>1. IsPage(AccountingPage)
  BY Makers, Loads, PageOf DEF AccountingPage, Accounting_loadData,
     Accounting_loadPeriods, Accounting_handleCreateFiscalYear,
     Accounting_handleTogglePeriodStatus, Accounting_handleCreateCostCenter,
     Accounting_handlePostJournal
<1>2. IsPage(FixedAssetsPage)
  BY Makers, Loads, PageOf DEF FixedAssetsPage, FixedAssets_loadAssets,
     FixedAssets_handleCreateAsset, FixedAssets_handlePostDepreciation
<1>3. IsPage(PaymentEntryPage)
  BY Makers, Loads, PageOf DEF PaymentEntryPage, PaymentEntry_loadPayments,
     PaymentEntry_handleSubmit, PaymentEntry_handlePost
<1>4. IsPage(PurchaseOrderPage)
  BY Makers, Loads, PageOf DEF PurchaseOrderPage, PurchaseOrder_loadAll,
     PurchaseOrder_handleSubmit, PurchaseOrder_handlePost
<1>5. IsPage(SalesInvoicePage)
  BY Makers, Loads, PageOf DEF SalesInvoicePage, SalesInvoice_loadAll,
     SalesInvoice_handleSubmit, SalesInvoice_handlePost
<1>6. IsPage(ExpensesPage)
  BY Makers, Loads, PageOf DEF ExpensesPage, Expenses_fetchJOs,
     Expenses_handleCreateExpense
<1>7. IsPage(SalesPage)
  BY Makers, Loads, PageOf DEF SalesPage, Sales_loadAll, Sales_handleCreateCustomer,
     Sales_handleCreateQuotation, Sales_handleApproveQuotation,
     Sales_handlePassFinancialReview, Sales_handleApproveJobOrder
<1>8. IsPage(QuotationPage)
  BY Makers, Loads, PageOf DEF QuotationPage, Quotation_loadAll, Quotation_handleCreate,
     Quotation_handleAction, Quotation_handleApprove
<1>9. IsPage(ItemPricePage)
  BY Makers, Loads, PageOf DEF ItemPricePage, ItemPrice_loadItems,
     ItemPrice_loadItemPrices, ItemPrice_handleSubmit
<1>10. IsPage(PurchaseReceiptPage)
  BY Makers, Loads, PageOf DEF PurchaseReceiptPage, PurchaseReceipt_loadAll,
     PurchaseReceipt_handleSubmit
<1>11. IsPage(DeliveryPage)
  BY Makers, Loads, PageOf DEF DeliveryPage, Delivery_loadAll, Delivery_loadJoOrders,
     Delivery_handleCreateOrder, Delivery_handleCreateReceipt
<1>12. IsPage(HrPage)
  BY Makers, Loads, PageOf DEF HrPage, Hr_loadAll, Hr_handleCreateEmployee,
     Hr_handleCreateRule, Hr_handleGeneratePayroll
<1>13. IsPage(AuthPage)
  BY Makers, Loads, PageOf DEF AuthPage, Auth_loadAll, Auth_handleCreateUser,
     Auth_handleCreateRole, Auth_handleCreatePermission
<1>14. IsPage(OrganizationPage)
  BY Makers, Loads, PageOf DEF OrganizationPage, Organization_loadAll,
     Organization_handleCreateNode, Organization_handleArchiveNode
<1>15. /\ IsPage(BalanceSheetPage)
       /\ IsPage(TrialBalancePage)
       /\ IsPage(PartnerLedgerPage)
       /\ IsPage(ProfitAndLossPage)
       /\ IsPage(CostingPage)
       /\ IsPage(OverheadAllocationPage)
  BY Loads, PageOf DEF BalanceSheetPage, BalanceSheet_loadBalanceSheet,
     TrialBalancePage, TrialBalance_loadTrialBalance, PartnerLedgerPage,
     PartnerLedger_loadPartnerLedger, ProfitAndLossPage, ProfitAndLoss_loadReport,
     CostingPage, Costing_loadAll, Costing_loadJoCostData, OverheadAllocationPage,
     OverheadAllocation_loadData
<1>16. /\ IsPage(AttendancePage)
       /\ IsPage(LeaveApplicationPage)
  BY Loads, PageOf DEF AttendancePage, Attendance_loadEmployees, LeaveApplicationPage,
     LeaveApplication_loadEmployees
<1>17. QED
  BY <1>1, <1>2, <1>3, <1>4, <1>5, <1>6, <1>7, <1>8, <1>9, <1>10, <1>11, <1>12, <1>13,
     <1>14, <1>15, <1>16 DEF TradePageSet

(* The pages of stock, engineering, planning, production, quality, reports *)
LEMMA PlantPagesAreSound == \A p \in PlantPageSet : IsPage(p)
<1>1. IsPage(InventoryPage)
  BY Makers, Loads, PageOf DEF InventoryPage, Inventory_loadAll,
     Inventory_handleCreateItem, Inventory_handleCreateWarehouse,
     Inventory_handleCreateBatch, Inventory_handleUpdateBatchStatus,
     Inventory_handleGenerateBulkSerials
<1>2. IsPage(StockEntryPage)
  BY Makers, Loads, PageOf DEF StockEntryPage, StockEntry_loadAll,
     StockEntry_handleSubmit
<1>3. IsPage(StockReconciliationPage)
  BY Makers, Loads, PageOf DEF StockReconciliationPage, StockReconciliation_loadAll,
     StockReconciliation_handleSubmit
<1>4. IsPage(MaterialPage)
  BY Makers, Loads, PageOf DEF MaterialPage, Material_loadAll,
     Material_handleCreateRequest, Material_handleApproveDeviation,
     Material_handleIssueStock
<1>5. IsPage(TechnicalPage)
  BY Makers, Loads, PageOf DEF TechnicalPage, Technical_loadAll,
     Technical_handleCreateDoc, Technical_handleCreateBom, Technical_handleApproveBom
<1>6. IsPage(BomPage)
  BY Makers, Loads, PageOf DEF BomPage, Bom_loadAll, Bom_handleCreateBom,
     Bom_handleApproveBom
<1>7. IsPage(BomCreatorPage)
  BY Makers, Loads, PageOf DEF BomCreatorPage, BomCreator_loadAll,
     BomCreator_handleCreate, BomCreator_handleCreateBoms
<1>8. IsPage(BomUpdateToolPage)
  BY Makers, Loads, PageOf DEF BomUpdateToolPage, BomUpdateTool_loadAll,
     BomUpdateTool_handleReplace
<1>9. IsPage(SalesForecastPage)
  BY Makers, Loads, PageOf DEF SalesForecastPage, SalesForecast_loadAll,
     SalesForecast_handleCreate, SalesForecast_handleSubmitForecast
<1>10. IsPage(PeriodLinesPage)
  BY Makers, Loads, PageOf DEF PeriodLinesPage, PeriodLines_openPeriodModal,
     PeriodLines_savePeriodLines
<1>11. IsPage(MaterialRequestPage)
  BY Makers, Loads, PageOf DEF MaterialRequestPage, MaterialRequest_loadAll,
     MaterialRequest_handleCreate, MaterialRequest_handleSubmitRequest
<1>12. IsPage(ProductionPlanPage)
  BY Makers, Loads, PageOf DEF ProductionPlanPage, ProductionPlan_loadAll,
     ProductionPlan_handleCreate, ProductionPlan_handleAction
<1>13. IsPage(MpsPage)
  BY Makers, Loads, PageOf DEF MpsPage, Mps_loadAll, Mps_handleCreate, Mps_handleSubmit,
     Mps_handleGetProjected
<1>14. IsPage(ItemLeadTimePage)
  BY Makers, Loads, PageOf DEF ItemLeadTimePage, ItemLeadTime_loadAll,
     ItemLeadTime_handleCreate
<1>15. IsPage(SetupPage)
  BY Makers, Loads, PageOf DEF SetupPage, Setup_loadAll, Setup_handleCreateWs,
     Setup_handleCreateOp
<1>16. IsPage(WorkOrderPage)
  BY Makers, Loads, PageOf DEF WorkOrderPage, WorkOrder_loadAll, WorkOrder_handleCreate,
     WorkOrder_handleTransition
<1>17. IsPage(ProductionOpsPage)
  BY Makers, Loads, PageOf DEF ProductionOpsPage, ProductionOps_loadAll,
     ProductionOps_loadJoData, ProductionOps_handleCreateWc,
     ProductionOps_handleCreateStep, ProductionOps_handleStartStep,
     ProductionOps_handleCompleteStep, ProductionOps_handleAddTimeLog
<1>18. IsPage(TimeLogsPage)
  BY Loads, PageOf DEF TimeLogsPage, TimeLogs_openLogsForStep
<1>19. IsPage(DowntimeEntryPage)
  BY Makers, Loads, PageOf DEF DowntimeEntryPage, DowntimeEntry_loadAll,
     DowntimeEntry_handleCreate, DowntimeEntry_handleClose
<1>20. IsPage(QualityPage)
  BY Makers, Loads, PageOf DEF QualityPage, Quality_loadAll,
     Quality_handleCreateInspection, Quality_handleSaveEvaluation
<1>21. /\ IsPage(StockLedgerPage)
       /\ IsPage(ManufacturingPage)
       /\ IsPage(ReportBomOperationsTimePage)
       /\ IsPage(ReportBomSearchPage)
       /\ IsPage(ReportConsumedMaterialsPage)
       /\ IsPage(ReportDowntimeAnalysisPage)
  BY Loads, PageOf DEF StockLedgerPage, StockLedger_loadAll, ManufacturingPage,
     Manufacturing_loadAll, ReportBomOperationsTimePage,
     ReportBomOperationsTime_loadAll, ReportBomSearchPage, ReportBomSearch_loadAll,
     ReportConsumedMaterialsPage, ReportConsumedMaterials_loadAll,
     ReportDowntimeAnalysisPage, ReportDowntimeAnalysis_loadAll
<1>22. /\ IsPage(ReportForecastingPage)
       /\ IsPage(ReportJobCardSummaryPage)
       /\ IsPage(ReportProductionAnalyticsPage)
       /\ IsPage(ReportProductionPlanningPage)
       /\ IsPage(ReportWorkOrderSummaryPage)
  BY Loads, PageOf DEF ReportForecastingPage, ReportForecasting_loadAll,
     ReportJobCardSummaryPage, ReportJobCardSummary_loadAll,
     ReportProductionAnalyticsPage, ReportProductionAnalytics_loadAll,
     ReportProductionPlanningPage, ReportProductionPlanning_loadAll,
     ReportWorkOrderSummaryPage, ReportWorkOrderSummary_loadAll
<1>23. QED
  BY <1>1, <1>2, <1>3, <1>4, <1>5, <1>6, <1>7, <1>8, <1>9, <1>10, <1>11, <1>12, <1>13,
     <1>14, <1>15, <1>16, <1>17, <1>18, <1>19, <1>20, <1>21, <1>22 DEF PlantPageSet

-----------------------------------------------------------------------------
(* What is under way                                                       *)
-----------------------------------------------------------------------------

(* The rows shown, and those that the user was told of, are the server's *)
RowsOK ==
  /\ page \in Pages /\ isOpen \in BOOLEAN
  /\ server \in [Pane -> 0..MaxChanges]
  /\ shown \in [Pane -> 0..MaxChanges] /\ confirmed \in [Pane -> 0..MaxChanges]
  /\ \A p \in Pane : shown[p] <= server[p] /\ confirmed[p] <= server[p]
  /\ detailsOf \in Selection /\ selected \in Selection
  /\ loading \in BOOLEAN /\ submitting \in BOOLEAN /\ error \in BOOLEAN

(* A call is at what its clerk asked for, of a function of the page *)
CallOK(c) ==
  /\ c.at \in {"none", "post", "done", "get", "got"}
  /\ c.at = "none" => c = NoCall
  /\ c.at \in {"post", "done"} => c.handler \in page.handlers /\ ~ c.covers
  /\ c.at \in {"get", "got"} =>
       /\ c.handler \in page.handlers \cup {NoHandler}
       /\ c.panes \in {Main, Details, MainAndDetails}
       /\ c.panes # Details => c.covers
       /\ ~ c.orphan
  /\ c.at = "got" => c.seen <= server[c.panes[1]]
  /\ c.sel \in Selection /\ c.seen \in 0..MaxChanges

(* A page that is not open hears of nothing, and a user who waits for each *)
(* answer does not leave the page meanwhile.                               *)
CallsInv ==
  /\ RowsOK
  /\ call = [k \in Clerk |-> call[k]]
  /\ \A k \in Clerk : IsCall(call[k]) /\ CallOK(call[k])
  /\ \A k \in Clerk : call[k] # NoCall => k \in desk
  /\ ~ isOpen => \A k \in Clerk : ~ UnderWay(k)
  /\ InTurn => \A k \in Clerk : ~ call[k].orphan

(* Buttons that are all disabled while the page submits let one function   *)
(* submit; when the page also hides while it loads, and loads by itself    *)
(* only when it is opened, one function submits or loads its rows.         *)
AllGuarded == \A h \in page.handlers : h.guarded

Submits(k) == UnderWay(k) /\ call[k].handler.submits
Covers(k) == UnderWay(k) /\ call[k].covers

FlagsInv ==
  /\ AllGuarded => /\ \A k \in Clerk : Submits(k) => submitting
                   /\ \A j, k \in Clerk : Submits(j) /\ Submits(k) => j = k
  /\ OneAtATime => /\ \A k \in Clerk : Covers(k) => loading
                   /\ \A j, k \in Clerk : Covers(j) /\ Covers(k) => j = k
                   /\ \A j, k \in Clerk : Submits(j) /\ Covers(k) => j = k

(* The details shown, if any, are of what is selected, or are on their way *)
ToDetails(c) == c.at \in {"get", "got"} /\ c.panes = Details

SelectedInv ==
  InTurn =>
    /\ \A k \in Clerk : call[k].at \in {"post", "done"} \/ ToDetails(call[k]) =>
                          call[k].sel = selected
    /\ \/ shown["details"] = 0 \/ detailsOf = selected
       \/ \E k \in Clerk : ToDetails(call[k])

(* The rows shown are those the user was told of, or they are on their way *)
ToRows(c) == c.at \in {"get", "got"} /\ c.panes # Details

Tells ==
  /\ InTurn \/ OneAtATime
  /\ Views("tells") /\ ~ Views("asked") /\ page.load["main"].fails = {"whole"}
  /\ \A h \in page.handlers : Calm(h)

ShownInv ==
  /\ (\A h \in page.handlers : h.reloads = <<>>) => \A p \in Pane : confirmed[p] = 0
  /\ Tells =>
       /\ \A k \in Clerk : ToRows(call[k]) /\ call[k].at = "got" =>
                             call[k].seen >= confirmed["main"]
       /\ isOpen => \/ error \/ shown["main"] >= confirmed["main"]
                    \/ \E k \in Clerk : ToRows(call[k])

ScreensInv == CallsInv /\ FlagsInv /\ SelectedInv /\ ShownInv

(* The lists of what a load loads *)
LEMMA PaneLists ==
  /\ Head(Main) = "main" /\ Main[1] = "main" /\ Len(Main) = 1
  /\ Head(Details) = "details" /\ Details[1] = "details" /\ Len(Details) = 1
  /\ Head(MainAndDetails) = "main" /\ MainAndDetails[1] = "main" /\ Len(MainAndDetails) = 2
  /\ Tail(MainAndDetails) = Details
  /\ Main # Details /\ MainAndDetails # Details
  /\ Main # <<>> /\ Details # <<>> /\ MainAndDetails # <<>>
BY DEF Main, Details, MainAndDetails

-----------------------------------------------------------------------------
(* A clerk's function goes on as c. *)
Turns(k, c) == IsCall(c) /\ call' = [call EXCEPT ![k] = c]

(* It loads, ... *)
Begun(k, panes, handler, sel) ==
  \E c : /\ Turns(k, c) /\ c # NoCall
         /\ c.at = "get" /\ c.handler = handler /\ c.panes = panes /\ c.sel = sel
         /\ c.seen = 0 /\ ~ c.orphan
         /\ c.covers <=> panes[1] = "main"

(* ... asks the server for what the user wants, ... *)
Asked(k, h) ==
  \E c : /\ Turns(k, c) /\ c # NoCall
         /\ c.at = "post" /\ c.handler = h /\ c.sel = selected
         /\ c.seen = 0 /\ ~ c.orphan /\ ~ c.covers

(* ... and goes on with the same: asking, reading, or with the next pane.  *)
Runs(k, at, panes, seen) ==
  \E c : /\ Turns(k, c) /\ c # NoCall
         /\ c.at = at /\ c.panes = panes /\ c.seen = seen
         /\ c.handler = call[k].handler /\ c.sel = call[k].sel
         /\ c.orphan = call[k].orphan /\ c.covers = call[k].covers

(* What the loads of Screens do to a call *)
LEMMA LoadBegins ==
  ASSUME NEW k \in Clerk, NEW panes, NEW handler, NEW sel, BeginsLoad(k, panes, handler, sel)
  PROVE  Begun(k, panes, handler, sel)
<1> DEFINE n == NoCall
           main == (panes[1] = "main")
           c == [n EXCEPT !.at = "get", !.handler = handler, !.panes = panes,
                          !.covers = main, !.sel = sel]
<1>1. call' = [call EXCEPT ![k] = c]
  BY DEF BeginsLoad, Getting
<1>2. IsCall(n) /\ n.seen = 0 /\ ~ n.orphan /\ n.at # "get"
  BY NoCallIs
<1> HIDE DEF n, main
<1>3. /\ IsCall(c) /\ c # n /\ c.at = "get" /\ c.handler = handler /\ c.panes = panes
      /\ c.sel = sel /\ c.seen = n.seen /\ c.orphan = n.orphan /\ c.covers = main
  BY <1>2 DEF IsCall
<1> HIDE DEF c
<1>4. Turns(k, c) /\ c # NoCall /\ c.seen = 0 /\ ~ c.orphan /\ (c.covers <=> panes[1] = "main")
  BY <1>1, <1>2, <1>3 DEF Turns, n, main
<1>5. QED
  BY <1>3, <1>4 DEF Begun

(* What a press does to a call *)
LEMMA PressAsks ==
  ASSUME NEW k \in Clerk, Presses(k)
  PROVE  \E h \in page.handlers :
           /\ Asked(k, h)
           /\ h.guarded => ~ submitting
           /\ submitting' = (submitting \/ h.submits)
           /\ error' = (error /\ "wipes" \notin h.error)
<1>1. PICK h \in page.handlers : \E m \in h.posts :
        /\ h.guarded => ~ submitting
        /\ call' = [call EXCEPT ![k] = [NoCall EXCEPT !.at = "post", !.handler = h,
                                                      !.posts = m, !.sel = selected]]
        /\ submitting' = (submitting \/ h.submits)
        /\ error' = (error /\ "wipes" \notin h.error)
  BY DEF Presses
<1>m. PICK m \in h.posts :
        call' = [call EXCEPT ![k] = [NoCall EXCEPT !.at = "post", !.handler = h,
                                                   !.posts = m, !.sel = selected]]
  BY <1>1
<1> DEFINE n == NoCall
           c == [n EXCEPT !.at = "post", !.handler = h, !.posts = m, !.sel = selected]
<1>2. call' = [call EXCEPT ![k] = c]
  BY <1>m
<1>3. IsCall(n) /\ n.seen = 0 /\ ~ n.orphan /\ ~ n.covers /\ n.at # "post"
  BY NoCallIs
<1> HIDE DEF n
<1>4. /\ IsCall(c) /\ c # n /\ c.at = "post" /\ c.handler = h /\ c.sel = selected
      /\ c.seen = n.seen /\ c.orphan = n.orphan /\ c.covers = n.covers
  BY <1>3 DEF IsCall
<1> HIDE DEF c
<1>5. Turns(k, c) /\ c # NoCall /\ c.seen = 0 /\ ~ c.orphan /\ ~ c.covers
  BY <1>2, <1>3, <1>4 DEF Turns, n
<1>6. Asked(k, h)
  BY <1>4, <1>5 DEF Asked
<1>7. QED
  BY <1>1, <1>6

(* What the server's answers, and the rows that arrive, do to a call *)
LEMMA CallRuns ==
  ASSUME CallsInv, NEW k \in Clerk
  PROVE  /\ ServerTakes(k) => \/ call[k].orphan /\ call' = [call EXCEPT ![k] = NoCall]
                              \/ Runs(k, "done", call[k].panes, call[k].seen)
         /\ PostsNext(k) => Runs(k, "post", call[k].panes, call[k].seen)
         /\ ReadsRows(k) => Runs(k, "got", call[k].panes, server[ThisPane(k)])
         /\ \A rows : Renders(k, rows) /\ Len(call[k].panes) > 1 =>
                        Runs(k, "get", Tail(call[k].panes), 0)
<1> DEFINE r == call[k]
<1>1. IsCall(r)
  BY DEF CallsInv
<1>2. ASSUME NEW at \in {"post", "done", "get", "got"}, NEW posts, NEW panes, NEW seen,
             call' = [call EXCEPT ![k] = [r EXCEPT !.at = at, !.posts = posts,
                                                   !.panes = panes, !.seen = seen]]
      PROVE  Runs(k, at, panes, seen)
  <2> DEFINE c == [r EXCEPT !.at = at, !.posts = posts, !.panes = panes, !.seen = seen]
  <2>1. call' = [call EXCEPT ![k] = c]
    BY <1>2
  <2> HIDE DEF r
  <2>2. /\ IsCall(c) /\ c.at = at /\ c.panes = panes /\ c.seen = seen
        /\ c.handler = r.handler /\ c.sel = r.sel /\ c.orphan = r.orphan /\ c.covers = r.covers
    BY <1>1 DEF IsCall
  <2> HIDE DEF c
  <2>3. Turns(k, c) /\ c # NoCall
    BY <2>1, <2>2, NoCallIs DEF Turns
  <2>4. QED
    BY <2>2, <2>3 DEF Runs, r
<1>3. ASSUME ServerTakes(k), ~ (call[k].orphan /\ call[k].posts = 1)
      PROVE  Runs(k, "done", call[k].panes, call[k].seen)
  <2>1. [r EXCEPT !.at = "done", !.posts = r.posts - 1]
          = [r EXCEPT !.at = "done", !.posts = r.posts - 1, !.panes = r.panes, !.seen = r.seen]
    BY <1>1 DEF IsCall
  <2>2. call' = [call EXCEPT ![k] = [r EXCEPT !.at = "done", !.posts = r.posts - 1]]
    BY <1>3 DEF ServerTakes, CallsInv
  <2>3. QED
    BY <1>2, <2>1, <2>2
<1>4. ASSUME PostsNext(k)
      PROVE  Runs(k, "post", call[k].panes, call[k].seen)
  <2>1. [r EXCEPT !.at = "post"]
          = [r EXCEPT !.at = "post", !.posts = r.posts, !.panes = r.panes, !.seen = r.seen]
    BY <1>1 DEF IsCall
  <2>2. call' = [call EXCEPT ![k] = [r EXCEPT !.at = "post"]]
    BY <1>4 DEF PostsNext
  <2>3. QED
    BY <1>2, <2>1, <2>2
<1>5. ASSUME ReadsRows(k)
      PROVE  Runs(k, "got", call[k].panes, server[ThisPane(k)])
  <2> DEFINE s == server[ThisPane(k)]
  <2>1. call' = [call EXCEPT ![k] = [r EXCEPT !.at = "got", !.seen = s]]
    BY <1>5 DEF ReadsRows, CallsInv
  <2> HIDE DEF s
  <2>2. [r EXCEPT !.at = "got", !.seen = s]
          = [r EXCEPT !.at = "got", !.posts = r.posts, !.panes = r.panes, !.seen = s]
    BY <1>1 DEF IsCall
  <2>3. QED
    BY <1>2, <2>1, <2>2 DEF s
<1>6. ASSUME NEW rows, Renders(k, rows), Len(call[k].panes) > 1
      PROVE  Runs(k, "get", Tail(call[k].panes), 0)
  <2> DEFINE t == Tail(r.panes)
  <2>1. call' = [call EXCEPT ![k] = [r EXCEPT !.at = "get", !.panes = t, !.seen = 0]]
    BY <1>6 DEF Renders, CallsInv
  <2> HIDE DEF t
  <2>2. [r EXCEPT !.at = "get", !.panes = t, !.seen = 0]
          = [r EXCEPT !.at = "get", !.posts = r.posts, !.panes = t, !.seen = 0]
    BY <1>1 DEF IsCall
  <2>3. QED
    BY <1>2, <2>1, <2>2 DEF t
<1>7. QED
  BY <1>3, <1>4, <1>5, <1>6 DEF ServerTakes

-----------------------------------------------------------------------------
(* What a step that changes one call has to keep                           *)
-----------------------------------------------------------------------------

LEMMA ThePageIsSound == CallsInv => IsPage(page)
BY TradePagesAreSound, PlantPagesAreSound DEF CallsInv, RowsOK, Pages

LEMMA OneTurns ==
  ASSUME CallsInv, NEW k \in Clerk, NEW c, Turns(k, c)
  PROVE  /\ call' = [j \in Clerk |-> call'[j]]
         /\ call'[k] = c
         /\ \A j \in Clerk : j # k => call'[j] = call[j]
BY DEF CallsInv, Turns

LEMMA NoneTurns ==
  ASSUME CallsInv, NEW k \in Clerk,
         \/ call' = [call EXCEPT ![k] = NoCall]
         \/ call[k] = NoCall /\ call' = call
  PROVE  Turns(k, NoCall)
BY NoCallIs DEF CallsInv, Turns

(* The calls: the server's rows only become more, and no step takes a      *)
(* function to another clerk or page.                                      *)
CallsMove(k, c) ==
  /\ Turns(k, c) /\ page' = page /\ desk' = desk /\ RowsOK' /\ CallOK(c)'
  /\ \A p \in Pane : server'[p] >= server[p]
  /\ isOpen => isOpen'
  /\ c # NoCall => k \in desk /\ (c.orphan \/ isOpen')
  /\ c.orphan => call[k].orphan

LEMMA CallsKept ==
  ASSUME CallsInv, NEW k \in Clerk, NEW c, CallsMove(k, c)
  PROVE  CallsInv'
<1>1. /\ call' = [j \in Clerk |-> call'[j]]
      /\ call'[k] = c
      /\ \A j \in Clerk : j # k => call'[j] = call[j]
  BY OneTurns DEF CallsMove
<1>2. ASSUME NEW j \in Clerk, j # k
      PROVE  CallOK(call[j])'
  <2>1. CallOK(call[j])
    BY DEF CallsInv
  <2>2. ASSUME call[j].at = "got" PROVE call[j].seen <= server'[call[j].panes[1]]
    <3>1. call[j].panes[1] \in Pane
      BY <2>1, <2>2, PaneLists DEF CallOK, Pane
    <3> DEFINE p == call[j].panes[1]
    <3>2. call[j].seen \in Nat /\ call[j].seen <= server[p]
      BY <2>1, <2>2 DEF CallOK
    <3>3. server[p] \in Int /\ server'[p] \in Int /\ server'[p] >= server[p]
      BY <3>1, ScreensAssumption DEF CallsInv, CallsMove, RowsOK
    <3>4. QED
      BY <3>2, <3>3
  <2>3. QED
    BY <1>1, <1>2, <2>1, <2>2 DEF CallOK, CallsMove
<1>3. \A j \in Clerk : IsCall(call'[j]) /\ CallOK(call[j])'
  BY <1>1, <1>2 DEF CallsInv, CallsMove, Turns
<1>4. \A j \in Clerk : call'[j] # NoCall => j \in desk'
  BY <1>1 DEF CallsInv, CallsMove
<1>5. ~ isOpen' => \A j \in Clerk : ~ UnderWay(j)'
  BY <1>1 DEF CallsInv, CallsMove, UnderWay
<1>6. InTurn' => \A j \in Clerk : ~ call'[j].orphan
  BY <1>1 DEF CallsInv, CallsMove, InTurn
<1>7. QED
  BY <1>1, <1>3, <1>4, <1>5, <1>6 DEF CallsInv, CallsMove

(* The flags: what begins to submit, or to load the page's rows, is alone. *)
FlagsMove(k) ==
  /\ AllGuarded => /\ submitting => submitting' \/ Submits(k)
                   /\ Submits(k)' => /\ submitting'
                                     /\ \A j \in Clerk : Submits(j) => j = k
  /\ OneAtATime => /\ loading => loading' \/ Covers(k)
                   /\ Covers(k)' => /\ loading'
                                    /\ \A j \in Clerk : Covers(j) \/ Submits(j) => j = k
                   /\ Submits(k)' => \A j \in Clerk : Covers(j) => j = k

LEMMA FlagsKept ==
  ASSUME CallsInv, FlagsInv, NEW k \in Clerk, NEW c, Turns(k, c), page' = page, FlagsMove(k)
  PROVE  FlagsInv'
<1>1. /\ AllGuarded' <=> AllGuarded
      /\ OneAtATime' <=> OneAtATime
      /\ OneAtATime => AllGuarded
  BY DEF AllGuarded, OneAtATime, Views
<1>2. \A j \in Clerk : j # k => /\ Submits(j)' <=> Submits(j)
                                /\ Covers(j)' <=> Covers(j)
  BY OneTurns DEF Submits, Covers, UnderWay
<1>3. QED
  BY <1>1, <1>2 DEF FlagsInv, FlagsMove

(* The details: who changes the selection is alone, when requests do not   *)
(* overlap.                                                                *)
SelectedMove(k, c) ==
  InTurn =>
    /\ c.at \in {"post", "done"} \/ ToDetails(c) =>
         c.sel = selected'
    /\ selected' # selected => \A j \in Clerk : call[j] # NoCall => j = k
    /\ \/ shown'["details"] = 0 \/ detailsOf' = selected'
       \/ ToDetails(c)
       \/ /\ selected' = selected /\ detailsOf' = detailsOf
          /\ shown'["details"] = shown["details"] /\ ~ ToDetails(call[k])

LEMMA SelectedKept ==
  ASSUME CallsInv, SelectedInv, NEW k \in Clerk, NEW c, Turns(k, c), desk' = desk,
         SelectedMove(k, c)
  PROVE  SelectedInv'
<1>1. /\ call'[k] = c
      /\ \A j \in Clerk : j # k => call'[j] = call[j]
  BY OneTurns
<1>2. InTurn' <=> InTurn
  BY DEF InTurn
<1> SUFFICES ASSUME InTurn PROVE SelectedInv'
  BY <1>2 DEF SelectedInv
<1>3. ASSUME NEW j \in Clerk, call'[j].at \in {"post", "done"} \/ ToDetails(call'[j])
      PROVE  call'[j].sel = selected'
  <2>1. CASE j = k
    BY <1>1, <1>3, <2>1 DEF SelectedMove, ToDetails
  <2>2. CASE j # k
    <3>1. call'[j] = call[j] /\ (call[j].at \in {"post", "done"} \/ ToDetails(call[j]))
      BY <1>1, <1>3, <2>2 DEF ToDetails
    <3>2. call[j] # NoCall
      BY <3>1, NoCallIs DEF ToDetails
    <3>3. selected' = selected
      BY <2>2, <3>2 DEF SelectedMove
    <3>4. QED
      BY <3>1, <3>3 DEF SelectedInv
  <2>3. QED
    BY <2>1, <2>2
<1>4. \/ shown'["details"] = 0 \/ detailsOf' = selected'
      \/ \E j \in Clerk : ToDetails(call'[j])
  <2>1. ToDetails(c) => ToDetails(call'[k])
    BY <1>1 DEF ToDetails
  <2>2. \A j \in Clerk : j # k => (ToDetails(call'[j]) <=> ToDetails(call[j]))
    BY <1>1 DEF ToDetails
  <2>3. QED
    BY <2>1, <2>2 DEF SelectedInv, SelectedMove
<1>5. QED
  BY <1>2, <1>3, <1>4 DEF SelectedInv

(* The rows: who tells the user of more is alone with the rows to come. *)
ShownMove(k, c) ==
  /\ (\A h \in page.handlers : h.reloads = <<>>) => confirmed' = confirmed
  /\ Tells =>
       /\ c.at = "got" /\ ToRows(c) => c.seen >= confirmed'["main"]
       /\ confirmed'["main"] # confirmed["main"] => \A j \in Clerk : ToRows(call[j]) => j = k
       /\ isOpen' => \/ error' \/ shown'["main"] >= confirmed'["main"]
                     \/ ToRows(c)
                     \/ /\ isOpen /\ (error => error') /\ ~ ToRows(call[k])
                        /\ shown'["main"] = shown["main"]
                        /\ confirmed'["main"] = confirmed["main"]

LEMMA ShownKept ==
  ASSUME CallsInv, ShownInv, NEW k \in Clerk, NEW c, Turns(k, c), desk' = desk, page' = page,
         ShownMove(k, c)
  PROVE  ShownInv'
<1>1. /\ call'[k] = c
      /\ \A j \in Clerk : j # k => call'[j] = call[j]
  BY OneTurns
<1>2. Tells' <=> Tells
  BY DEF Tells, InTurn, OneAtATime, Views
<1>3. (\A h \in page'.handlers : h.reloads = <<>>) => \A p \in Pane : confirmed'[p] = 0
  BY DEF ShownInv, ShownMove
<1>4. \A j \in Clerk : j # k => (ToRows(call'[j]) <=> ToRows(call[j]))
  BY <1>1 DEF ToRows
<1>5. ASSUME Tells, NEW j \in Clerk, ToRows(call'[j]), call'[j].at = "got"
      PROVE  call'[j].seen >= confirmed'["main"]
  <2>1. CASE j = k
    BY <1>1, <1>5, <2>1 DEF ShownMove, ToRows
  <2>2. CASE j # k
    <3>1. call'[j] = call[j] /\ ToRows(call[j])
      BY <1>1, <1>4, <1>5, <2>2
    <3>2. confirmed'["main"] = confirmed["main"]
      BY <1>5, <2>2, <3>1 DEF ShownMove
    <3>3. QED
      BY <1>5, <3>1, <3>2 DEF ShownInv
  <2>3. QED
    BY <2>1, <2>2
<1>6. ASSUME Tells, isOpen'
      PROVE  \/ error' \/ shown'["main"] >= confirmed'["main"]
             \/ \E j \in Clerk : ToRows(call'[j])
  <2>1. ToRows(c) => ToRows(call'[k])
    BY <1>1 DEF ToRows
  <2>2. QED
    BY <1>4, <1>6, <2>1 DEF ShownInv, ShownMove
<1>7. QED
  BY <1>2, <1>3, <1>5, <1>6 DEF ShownInv

(* Together *)
LEMMA ScreensKept ==
  ASSUME ScreensInv, NEW k \in Clerk, NEW c, CallsMove(k, c), FlagsMove(k),
         SelectedMove(k, c), ShownMove(k, c)
  PROVE  ScreensInv'
BY CallsKept, FlagsKept, SelectedKept, ShownKept DEF ScreensInv, CallsMove

-----------------------------------------------------------------------------
(* The steps, one by one                                                   *)
-----------------------------------------------------------------------------

(* A clerk without a function is at nothing. *)
LEMMA NoneIsOK ==
  ASSUME CallsInv
  PROVE  /\ CallOK(NoCall)'
         /\ ~ ToDetails(NoCall) /\ ~ ToRows(NoCall) /\ NoCall.at \notin {"post", "done", "got"}
<1>1. Start \in Selection /\ 0 \in 0..MaxChanges
  BY ScreensAssumption DEF Start
<1>2. QED
  BY <1>1, NoCallIs DEF CallOK, ToDetails, ToRows

(* A function's end *)
LEMMA EndFlags ==
  ASSUME CallsInv, NEW k \in Clerk, Turns(k, NoCall),
         \/ call[k] # NoCall /\ ~ call[k].orphan /\ Finally(k)
         \/ submitting' = submitting /\ loading' = loading
  PROVE  FlagsMove(k)
<1>1. call'[k] = NoCall
  BY OneTurns
<1>2. ~ Submits(k)' /\ ~ Covers(k)'
  BY <1>1 DEF Submits, Covers, UnderWay
<1>3. CASE submitting' = submitting /\ loading' = loading
  BY <1>2, <1>3 DEF FlagsMove
<1>4. CASE call[k] # NoCall /\ ~ call[k].orphan /\ Finally(k)
  <2>1. submitting => submitting' \/ Submits(k)
    BY <1>4 DEF Finally, Submits, UnderWay
  <2>2. loading => loading' \/ Covers(k)
    BY <1>4 DEF Finally, Covers, UnderWay
  <2>3. QED
    BY <1>2, <2>1, <2>2 DEF FlagsMove
<1>5. QED
  BY <1>3, <1>4

(* A request is refused (catch), and its function runs its finally. *)
LEMMA RefusedKeeps ==
  ASSUME ScreensInv, desk' = desk, NEW k \in Clerk, Refused(k)
  PROVE  ScreensInv'
<1>1. /\ call[k].at \in {"post", "done"} /\ ~ call[k].orphan /\ Finally(k)
      /\ call' = [call EXCEPT ![k] = NoCall]
  BY DEF Refused, Finally
<1>2. CallsInv /\ Turns(k, NoCall) /\ call[k] # NoCall
  BY <1>1, NoneTurns, NoCallIs DEF ScreensInv
<1>3. RowsOK'
  BY <1>2 DEF CallsInv, RowsOK, Refused, Finally
<1>4. CallsMove(k, NoCall)
  BY <1>2, <1>3, NoneIsOK, NoCallIs DEF CallsMove, Refused, CallsInv, RowsOK, Pane
<1>5. FlagsMove(k)
  BY <1>1, <1>2, EndFlags
<1>6. ~ ToDetails(call[k]) /\ ~ ToRows(call[k])
  BY <1>1 DEF ToDetails, ToRows
<1>7. SelectedMove(k, NoCall)
  BY <1>2, <1>6, NoneIsOK DEF SelectedMove, Refused
<1>8. ShownMove(k, NoCall)
  BY <1>2, <1>6, NoneIsOK DEF ShownMove, Refused
<1>9. QED
  BY <1>4, <1>5, <1>7, <1>8, ScreensKept

(* Nobody hears of an orphan's end. *)
LEMMA ForgetsKeeps ==
  ASSUME ScreensInv, desk' = desk, NEW k \in Clerk, ForgetsOrphan(k)
  PROVE  ScreensInv'
<1>1. /\ call[k].orphan /\ call' = [call EXCEPT ![k] = NoCall]
      /\ UNCHANGED <<page, isOpen, server, pageState, confirmed>>
  BY DEF ForgetsOrphan
<1>2. CallsInv /\ Turns(k, NoCall)
  BY <1>1, NoneTurns DEF ScreensInv
<1>3. RowsOK'
  BY <1>1, <1>2 DEF CallsInv, RowsOK, pageState
<1>4. CallsMove(k, NoCall)
  BY <1>1, <1>2, <1>3, NoneIsOK, NoCallIs DEF CallsMove, CallsInv, RowsOK, Pane
<1>5. FlagsMove(k)
  BY <1>1, <1>2, EndFlags DEF pageState
<1>6. ~ ToDetails(call[k]) /\ ~ ToRows(call[k])
  BY <1>1, <1>2 DEF ToDetails, ToRows, CallsInv, CallOK
<1>7. SelectedMove(k, NoCall)
  BY <1>1, <1>2, <1>6, NoneIsOK DEF SelectedMove, pageState
<1>8. ShownMove(k, NoCall)
  BY <1>1, <1>2, <1>6, NoneIsOK DEF ShownMove, pageState
<1>9. QED
  BY <1>4, <1>5, <1>7, <1>8, ScreensKept

(* A load fails as a whole: the page tells so, and the details never do.   *)
LEMMA LoadFailsKeeps ==
  ASSUME ScreensInv, desk' = desk, NEW k \in Clerk, LoadFails(k)
  PROVE  ScreensInv'
<1>1. /\ call[k].at = "get" /\ Finally(k) /\ error' = TRUE
      /\ "whole" \in page.load[ThisPane(k)].fails
      /\ call' = [call EXCEPT ![k] = NoCall]
  BY DEF LoadFails, Finally
<1>2. CallsInv /\ Turns(k, NoCall) /\ call[k] # NoCall
  BY <1>1, NoneTurns, NoCallIs DEF ScreensInv
<1>3. RowsOK'
  BY <1>2 DEF CallsInv, RowsOK, LoadFails, Finally
<1>4. CallsMove(k, NoCall)
  BY <1>2, <1>3, NoneIsOK, NoCallIs DEF CallsMove, LoadFails, CallsInv, RowsOK, Pane
<1>5. ~ call[k].orphan
  BY <1>1, <1>2 DEF CallsInv, CallOK
<1>6. FlagsMove(k)
  BY <1>1, <1>2, <1>5, EndFlags
<1>7. ~ ToDetails(call[k])
  <2>1. IsPage(page)
    BY <1>2, ThePageIsSound
  <2>2. QED
    BY <1>1, <2>1, PaneLists DEF ToDetails, ThisPane, IsPage
<1>8. SelectedMove(k, NoCall)
  BY <1>2, <1>7, NoneIsOK DEF SelectedMove, LoadFails
<1>9. ShownMove(k, NoCall)
  BY <1>1, <1>2, NoneIsOK DEF ShownMove, LoadFails
<1>10. QED
  BY <1>4, <1>6, <1>8, <1>9, ScreensKept

(* A request to the server goes on, and its rows are read. *)
LEMMA TakesKeeps ==
  ASSUME ScreensInv, desk' = desk, NEW k \in Clerk, ServerTakes(k)
  PROVE  ScreensInv'
<1>1. CallsInv
  BY DEF ScreensInv
<1>2. UNCHANGED <<page, isOpen, pageState, confirmed>>
  BY DEF ServerTakes
<1>3. server' \in [Pane -> 0..MaxChanges] /\ \A p \in Pane : server'[p] >= server[p]
  <2>1. \A p \in Pane : server[p] \in 0..MaxChanges /\ server[p] < MaxChanges
    BY <1>1 DEF CallsInv, RowsOK, ServerTakes
  <2>2. \A p \in Pane : server[p] + 1 \in 0..MaxChanges /\ server[p] + 1 >= server[p]
    BY <2>1, ScreensAssumption
  <2>3. QED
    BY <2>1, <2>2 DEF ServerTakes
<1>4. RowsOK'
  <2>1. \A p \in Pane : shown[p] <= server'[p] /\ confirmed[p] <= server'[p]
    BY <1>1, <1>3, ScreensAssumption DEF CallsInv, RowsOK
  <2>2. QED
    BY <1>1, <1>2, <1>3, <2>1 DEF CallsInv, RowsOK, pageState
<1>5. call[k].at = "post" /\ call[k] # NoCall /\ ~ ToDetails(call[k]) /\ ~ ToRows(call[k])
  BY NoCallIs DEF ServerTakes, ToDetails, ToRows
<1>6. CASE call[k].orphan /\ call' = [call EXCEPT ![k] = NoCall]
  <2>1. Turns(k, NoCall)
    BY <1>1, <1>6, NoneTurns
  <2>2. CallsMove(k, NoCall)
    BY <1>1, <1>2, <1>3, <1>4, <2>1, NoneIsOK, NoCallIs DEF CallsMove
  <2>3. FlagsMove(k)
    BY <1>1, <1>2, <2>1, EndFlags DEF pageState
  <2>4. SelectedMove(k, NoCall) /\ ShownMove(k, NoCall)
    BY <1>1, <1>2, <1>5, NoneIsOK DEF SelectedMove, ShownMove, pageState
  <2>5. QED
    BY <2>2, <2>3, <2>4, ScreensKept
<1>7. CASE Runs(k, "done", call[k].panes, call[k].seen)
  <2>1. PICK c : /\ Turns(k, c) /\ c # NoCall /\ c.at = "done" /\ c.seen = call[k].seen
                 /\ c.handler = call[k].handler /\ c.sel = call[k].sel
                 /\ c.orphan = call[k].orphan /\ c.covers = call[k].covers
    BY <1>7 DEF Runs
  <2>2. CallOK(call[k]) /\ k \in desk /\ call'[k] = c /\ (isOpen \/ call[k].orphan)
    BY <1>1, <1>5, <2>1, OneTurns DEF CallsInv, UnderWay
  <2>3. CallOK(c)'
    BY <1>2, <1>5, <2>1, <2>2 DEF CallOK
  <2>4. CallsMove(k, c)
    BY <1>2, <1>3, <1>4, <2>1, <2>2, <2>3 DEF CallsMove
  <2>5. (Submits(k)' <=> Submits(k)) /\ (Covers(k)' <=> Covers(k))
    BY <1>5, <2>1, <2>2 DEF Submits, Covers, UnderWay
  <2>6. FlagsMove(k)
    BY <1>2, <2>5 DEF FlagsMove, ScreensInv, FlagsInv, pageState
  <2>7. SelectedMove(k, c)
    BY <1>2, <1>5, <2>1 DEF SelectedMove, ScreensInv, SelectedInv, pageState
  <2>8. ShownMove(k, c)
    BY <1>2, <1>5, <2>1 DEF ShownMove, pageState
  <2>9. QED
    BY <2>4, <2>6, <2>7, <2>8, ScreensKept
<1>8. QED
  BY <1>1, <1>6, <1>7, CallRuns

LEMMA PostsKeeps ==
  ASSUME ScreensInv, desk' = desk, NEW k \in Clerk, PostsNext(k)
  PROVE  ScreensInv'
<1>1. CallsInv
  BY DEF ScreensInv
<1>2. UNCHANGED <<page, isOpen, server, pageState, confirmed>>
  BY DEF PostsNext
<1>3. RowsOK'
  BY <1>1, <1>2 DEF CallsInv, RowsOK, pageState
<1>4. call[k].at = "done" /\ call[k] # NoCall /\ ~ ToDetails(call[k]) /\ ~ ToRows(call[k])
  BY NoCallIs DEF PostsNext, ToDetails, ToRows
<1>5. PICK c : /\ Turns(k, c) /\ c # NoCall /\ c.at = "post" /\ c.seen = call[k].seen
               /\ c.handler = call[k].handler /\ c.sel = call[k].sel
               /\ c.orphan = call[k].orphan /\ c.covers = call[k].covers
  BY <1>1, CallRuns DEF Runs
<1>6. CallOK(call[k]) /\ k \in desk /\ call'[k] = c /\ (isOpen \/ call[k].orphan)
  BY <1>1, <1>4, <1>5, OneTurns DEF CallsInv, UnderWay
<1>7. CallOK(c)'
  BY <1>2, <1>4, <1>5, <1>6 DEF CallOK
<1>8. CallsMove(k, c)
  BY <1>1, <1>2, <1>3, <1>5, <1>6, <1>7 DEF CallsMove, CallsInv, RowsOK, Pane
<1>9. (Submits(k)' <=> Submits(k)) /\ (Covers(k)' <=> Covers(k))
  BY <1>4, <1>5, <1>6 DEF Submits, Covers, UnderWay
<1>10. FlagsMove(k)
  BY <1>2, <1>9 DEF FlagsMove, ScreensInv, FlagsInv, pageState
<1>11. SelectedMove(k, c)
  BY <1>2, <1>4, <1>5 DEF SelectedMove, ScreensInv, SelectedInv, pageState
<1>12. ShownMove(k, c)
  BY <1>2, <1>4, <1>5 DEF ShownMove, pageState
<1>13. QED
  BY <1>8, <1>10, <1>11, <1>12, ScreensKept

LEMMA ReadsKeeps ==
  ASSUME ScreensInv, desk' = desk, NEW k \in Clerk, ReadsRows(k)
  PROVE  ScreensInv'
<1>1. CallsInv
  BY DEF ScreensInv
<1>2. UNCHANGED <<page, isOpen, server, pageState, confirmed>> /\ call[k].at = "get"
  BY DEF ReadsRows
<1>3. RowsOK'
  BY <1>1, <1>2 DEF CallsInv, RowsOK, pageState
<1>4. CallOK(call[k]) /\ call[k] # NoCall
  BY <1>1, <1>2, NoCallIs DEF CallsInv
<1>5. /\ ThisPane(k) = call[k].panes[1] /\ ThisPane(k) \in Pane
      /\ call[k].panes # Details => ThisPane(k) = "main"
  BY <1>2, <1>4, PaneLists DEF CallOK, ThisPane, Pane
<1> DEFINE s == server[ThisPane(k)]
<1>6. s \in 0..MaxChanges
  BY <1>1, <1>5 DEF CallsInv, RowsOK
<1>7. Runs(k, "got", call[k].panes, s)
  BY <1>1, CallRuns
<1>8. PICK c : /\ Turns(k, c) /\ c # NoCall /\ c.at = "got"
               /\ c.panes = call[k].panes /\ c.seen = s
               /\ c.handler = call[k].handler /\ c.sel = call[k].sel
               /\ c.orphan = call[k].orphan /\ c.covers = call[k].covers
  BY <1>7 DEF Runs
<1>9. k \in desk /\ call'[k] = c /\ isOpen
  BY <1>1, <1>2, <1>4, <1>8, OneTurns DEF CallsInv, UnderWay, CallOK
<1>10. c.seen <= server'[c.panes[1]]
  BY <1>2, <1>5, <1>6, <1>8
<1>11. CallOK(c)'
  BY <1>2, <1>4, <1>6, <1>8, <1>10 DEF CallOK
<1>12. CallsMove(k, c)
  BY <1>1, <1>2, <1>3, <1>8, <1>9, <1>11 DEF CallsMove, CallsInv, RowsOK, Pane
<1>13. (Submits(k)' <=> Submits(k)) /\ (Covers(k)' <=> Covers(k))
  BY <1>4, <1>8, <1>9 DEF Submits, Covers, UnderWay
<1>14. FlagsMove(k)
  BY <1>2, <1>13 DEF FlagsMove, ScreensInv, FlagsInv, pageState
<1>15. (ToDetails(c) <=> ToDetails(call[k])) /\ (ToRows(c) <=> ToRows(call[k]))
  BY <1>2, <1>8 DEF ToDetails, ToRows
<1>16. SelectedMove(k, c)
  BY <1>2, <1>8, <1>15 DEF SelectedMove, ScreensInv, SelectedInv, pageState
<1>17. ToRows(c) => c.seen >= confirmed["main"]
  BY <1>1, <1>5, <1>6, <1>8, <1>15, ScreensAssumption DEF ToRows, CallsInv, RowsOK, Pane
<1>18. ShownMove(k, c)
  BY <1>2, <1>15, <1>17 DEF ShownMove, pageState
<1>19. QED
  BY <1>12, <1>14, <1>16, <1>18, ScreensKept

(* A button is pressed. *)
LEMMA PressKeeps ==
  ASSUME ScreensInv, desk' = desk, NEW k \in Clerk, Presses(k)
  PROVE  ScreensInv'
<1>1. CallsInv
  BY DEF ScreensInv
<1>2. /\ UNCHANGED <<page, isOpen, server, shown, detailsOf, selected, loading, confirmed>>
      /\ isOpen /\ call[k] = NoCall /\ k \in desk
      /\ Views("hides") => ~ loading
  BY DEF Presses, Free, Usable
<1>3. PICK h \in page.handlers :
        /\ Asked(k, h)
        /\ h.guarded => ~ submitting
        /\ submitting' = (submitting \/ h.submits)
        /\ error' = (error /\ "wipes" \notin h.error)
  BY PressAsks
<1>4. RowsOK'
  BY <1>1, <1>2, <1>3 DEF CallsInv, RowsOK
<1>5. PICK c : /\ Turns(k, c) /\ c # NoCall
               /\ c.at = "post" /\ c.handler = h /\ c.sel = selected
               /\ c.seen = 0 /\ ~ c.orphan /\ ~ c.covers
  BY <1>3 DEF Asked
<1>6. call'[k] = c
  BY <1>1, <1>5, OneTurns
<1>7. CallOK(c)'
  <2>1. 0 \in 0..MaxChanges
    BY ScreensAssumption
  <2>2. QED
    BY <1>1, <1>2, <1>5, <2>1 DEF CallOK, CallsInv, RowsOK
<1>8. CallsMove(k, c)
  BY <1>1, <1>2, <1>4, <1>5, <1>7 DEF CallsMove, CallsInv, RowsOK, Pane
<1>9. (Submits(k)' <=> h.submits) /\ ~ Covers(k)' /\ ~ Covers(k)
  BY <1>2, <1>5, <1>6 DEF Submits, Covers, UnderWay
<1>10. FlagsMove(k)
  <2>1. AllGuarded => \A j \in Clerk : ~ Submits(j)
    BY <1>3 DEF AllGuarded, ScreensInv, FlagsInv
  <2>2. OneAtATime => \A j \in Clerk : ~ Covers(j)
    BY <1>2 DEF OneAtATime, ScreensInv, FlagsInv
  <2>3. QED
    BY <1>2, <1>3, <1>9, <2>1, <2>2 DEF FlagsMove
<1>11. ~ ToDetails(call[k]) /\ ~ ToRows(call[k]) /\ ~ ToDetails(c) /\ ~ ToRows(c)
  BY <1>2, <1>5, NoCallIs DEF ToDetails, ToRows
<1>12. SelectedMove(k, c)
  BY <1>2, <1>5, <1>11 DEF SelectedMove
<1>13. ShownMove(k, c)
  <2>1. Tells /\ error => error'
    BY <1>3 DEF Tells, Calm
  <2>2. QED
    BY <1>2, <1>5, <1>11, <2>1 DEF ShownMove
<1>14. QED
  BY <1>8, <1>10, <1>12, <1>13, ScreensKept

(* A load that begins for a clerk who waits for nothing: who begins one    *)
(* that covers the page, on a page where one function at a time is under   *)
(* way, is alone.                                                          *)
LEMMA LoadKeeps ==
  ASSUME ScreensInv, desk' = desk, NEW k \in Clerk,
         NEW panes \in {Main, Details, MainAndDetails}, NEW sel \in Selection,
         BeginsLoad(k, panes, NoHandler, sel), call[k] = NoCall, k \in desk, isOpen',
         selected' \in Selection, panes = Details => sel = selected',
         selected' # selected => panes = Details,
         UNCHANGED <<page, server, shown, detailsOf, submitting, confirmed>>,
         isOpen \/ panes # Details,
         OneAtATime /\ panes # Details => ~ isOpen
  PROVE  ScreensInv'
<1>1. CallsInv
  BY DEF ScreensInv
<1>2. PICK c : /\ Turns(k, c) /\ c # NoCall
               /\ c.at = "get" /\ c.handler = NoHandler /\ c.panes = panes /\ c.sel = sel
               /\ c.seen = 0 /\ ~ c.orphan
               /\ c.covers <=> panes[1] = "main"
  BY LoadBegins DEF Begun
<1>3. call'[k] = c
  BY <1>1, <1>2, OneTurns
<1>4. /\ loading' = (loading \/ panes[1] = "main")
      /\ error' = (error /\ ~ClearsAt("first", panes))
  BY DEF BeginsLoad
<1>5. panes[1] = "main" <=> panes # Details
  BY PaneLists
<1>6. RowsOK'
  BY <1>1, <1>4 DEF CallsInv, RowsOK
<1>7. CallOK(c)'
  <2>1. 0 \in 0..MaxChanges
    BY ScreensAssumption
  <2>2. QED
    BY <1>2, <1>5, <2>1 DEF CallOK
<1>8. CallsMove(k, c)
  BY <1>1, <1>2, <1>6, <1>7 DEF CallsMove, CallsInv, RowsOK, Pane
<1>9. ~ Submits(k)' /\ (Covers(k)' <=> panes # Details) /\ ~ Submits(k) /\ ~ Covers(k)
  <2>1. NoHandler.submits = FALSE
    BY DEF NoHandler, Form
  <2>2. QED
    BY <1>2, <1>3, <1>5, <2>1 DEF Submits, Covers, UnderWay
<1>10. FlagsMove(k)
  <2>1. Covers(k)' => loading'
    BY <1>4, <1>5, <1>9
  <2>2. OneAtATime /\ Covers(k)' => \A j \in Clerk : ~ Covers(j) /\ ~ Submits(j)
    BY <1>1, <1>9 DEF CallsInv, Covers, Submits
  <2>3. QED
    BY <1>4, <1>9, <2>1, <2>2 DEF FlagsMove
<1>11. (ToDetails(c) <=> panes = Details) /\ (ToRows(c) <=> panes # Details)
       /\ ~ ToDetails(call[k]) /\ ~ ToRows(call[k])
  BY <1>2, NoCallIs DEF ToDetails, ToRows
<1>12. SelectedMove(k, c)
  <2>1. InTurn => \A j \in Clerk : call[j] # NoCall => j = k
    BY <1>1 DEF CallsInv, InTurn
  <2>2. ToDetails(c) => c.sel = selected'
    BY <1>2, <1>11 DEF ToDetails
  <2>3. QED
    BY <1>2, <1>11, <2>1, <2>2 DEF SelectedMove
<1>13. ShownMove(k, c)
  <2>1. panes = Details /\ error => error'
    BY <1>4, <1>5 DEF ClearsAt
  <2>2. QED
    BY <1>2, <1>11, <2>1 DEF ShownMove
<1>14. QED
  BY <1>8, <1>10, <1>12, <1>13, ScreensKept

(* The page is opened, loads again, or shows another selection. *)
LEMMA LoadsKeep ==
  ASSUME ScreensInv, desk' = desk, NEW k \in Clerk, Opens(k) \/ LoadsAgain(k) \/ Selects(k)
  PROVE  ScreensInv'
<1>1. CallsInv /\ Start \in Selection /\ selected \in Selection
  BY ScreensAssumption DEF ScreensInv, CallsInv, RowsOK, Start
<1>2. MountPanes \in {Main, Details, MainAndDetails} /\ MountPanes # Details
  BY PaneLists DEF MountPanes
<1>3. call[k] = NoCall /\ k \in desk
  BY DEF Opens, LoadsAgain, Selects, Free
<1>4. CASE Opens(k) /\ ~ Views("asked")
  BY <1>1, <1>2, <1>3, <1>4, LoadKeeps DEF Opens
<1>5. CASE Opens(k) /\ Views("asked")
  <2>1. /\ UNCHANGED <<page, server, shown, detailsOf, selected, submitting, confirmed>>
        /\ UNCHANGED <<call, loading, error>> /\ isOpen' = TRUE
    BY <1>5 DEF Opens
  <2>2. Turns(k, NoCall) /\ RowsOK'
    BY <1>1, <1>3, <2>1, NoneTurns DEF CallsInv, RowsOK
  <2>3. CallsMove(k, NoCall)
    BY <1>1, <2>1, <2>2, NoneIsOK, NoCallIs DEF CallsMove, CallsInv, RowsOK, Pane
  <2>4. FlagsMove(k)
    BY <1>1, <2>1, <2>2, EndFlags
  <2>5. ~ ToDetails(call[k]) /\ ~ ToRows(call[k])
    BY <1>1, <1>3, NoneIsOK
  <2>6. SelectedMove(k, NoCall)
    BY <1>1, <2>1, <2>5, NoneIsOK DEF SelectedMove
  <2>7. ShownMove(k, NoCall)
    BY <1>1, <1>5, <2>1, NoneIsOK DEF ShownMove, Tells
  <2>8. QED
    BY <2>3, <2>4, <2>6, <2>7, ScreensKept
<1>6. CASE LoadsAgain(k)
  <2> DEFINE sel == IF Views("first") THEN Start ELSE selected
  <2>1. sel \in Selection
    BY <1>1
  <2>2. /\ BeginsLoad(k, MountPanes, NoHandler, sel) /\ isOpen' = isOpen /\ isOpen
        /\ Views("again") /\ selected' = selected
        /\ UNCHANGED <<page, server, shown, detailsOf, submitting, confirmed>>
    BY <1>6 DEF LoadsAgain
  <2> HIDE DEF sel
  <2>3. QED
    BY <1>1, <1>2, <1>3, <2>1, <2>2, LoadKeeps DEF OneAtATime
<1>7. CASE Selects(k)
  <2>1. PICK s \in Selection : selected' = s /\ BeginsLoad(k, Details, NoHandler, s)
    BY <1>7 DEF Selects
  <2>2. isOpen /\ UNCHANGED <<page, isOpen, server, shown, detailsOf, submitting, confirmed>>
    BY <1>7 DEF Selects, Usable
  <2>3. QED
    BY <1>3, <2>1, <2>2, LoadKeeps
<1>8. QED
  BY <1>4, <1>5, <1>6, <1>7

(* The user is told that it is done, and what the handler reloads loads.   *)
LEMMA ConfirmedKeeps ==
  ASSUME ScreensInv, desk' = desk, NEW k \in Clerk, Confirmed(k)
  PROVE  ScreensInv'
<1> DEFINE h == call[k].handler
<1>1. CallsInv
  BY DEF ScreensInv
<1>2. /\ call[k].at \in {"post", "done"} /\ ~ call[k].orphan /\ call[k] # NoCall
      /\ UNCHANGED <<page, isOpen, server, shown, detailsOf, selected>>
  BY NoCallIs DEF Confirmed
<1>3. h \in page.handlers /\ IsHandler(h) /\ k \in desk /\ isOpen /\ call[k].sel \in Selection
      /\ ~ call[k].covers
  BY <1>1, <1>2, ThePageIsSound DEF CallsInv, CallOK, UnderWay, IsPage
<1>4. /\ confirmed' \in [Pane -> 0..MaxChanges]
      /\ \A p \in Pane : confirmed'[p] <= server'[p]
      /\ h.reloads = <<>> => confirmed' = confirmed
      /\ h.reloads = Details => confirmed'["main"] = confirmed["main"]
  <2>1. confirmed' = [p \in Pane |-> IF \E i \in DOMAIN h.reloads : h.reloads[i] = p
                                     THEN server[p] ELSE confirmed[p]]
    BY DEF Confirmed
  <2>2. /\ server \in [Pane -> 0..MaxChanges] /\ confirmed \in [Pane -> 0..MaxChanges]
        /\ \A p \in Pane : confirmed[p] <= server[p]
    BY <1>1 DEF CallsInv, RowsOK
  <2>3. \A p \in Pane : server[p] <= server[p]
    BY <2>2, ScreensAssumption
  <2>4. confirmed' \in [Pane -> 0..MaxChanges] /\ \A p \in Pane : confirmed'[p] <= server'[p]
    BY <1>2, <2>1, <2>2, <2>3
  <2>5. h.reloads = <<>> => confirmed' = confirmed
    BY <2>1, <2>2
  <2>6. h.reloads = Details => \A i \in DOMAIN h.reloads : h.reloads[i] # "main"
    BY DEF Details
  <2>7. h.reloads = Details => confirmed'["main"] = confirmed["main"]
    BY <2>1, <2>6 DEF Pane
  <2>8. QED
    BY <2>4, <2>5, <2>7
<1>5. ~ ToDetails(call[k]) /\ ~ ToRows(call[k])
  BY <1>2 DEF ToDetails, ToRows
<1>6. CASE h.reloads = <<>>
  <2>1. Finally(k) /\ error' = error /\ call' = [call EXCEPT ![k] = NoCall]
    BY <1>6 DEF Confirmed, Finally
  <2>2. Turns(k, NoCall) /\ RowsOK'
    BY <1>1, <1>2, <1>4, <2>1, NoneTurns DEF CallsInv, RowsOK, Finally
  <2>3. CallsMove(k, NoCall)
    BY <1>1, <1>2, <2>2, NoneIsOK, NoCallIs DEF CallsMove, CallsInv, RowsOK, Pane
  <2>4. FlagsMove(k)
    BY <1>1, <1>2, <2>1, <2>2, EndFlags
  <2>5. SelectedMove(k, NoCall)
    BY <1>1, <1>2, <1>5, NoneIsOK DEF SelectedMove
  <2>6. ShownMove(k, NoCall)
    BY <1>1, <1>2, <1>4, <1>5, <1>6, <2>1, NoneIsOK DEF ShownMove
  <2>7. QED
    BY <2>3, <2>4, <2>5, <2>6, ScreensKept
<1>7. CASE h.reloads # <<>>
  <2>1. h.reloads \in {Main, Details, MainAndDetails}
    BY <1>3, <1>7 DEF IsHandler, Reloads
  <2>2. BeginsLoad(k, h.reloads, h, call[k].sel) /\ submitting' = submitting
    BY <1>7 DEF Confirmed
  <2>3. PICK c : /\ Turns(k, c) /\ c # NoCall
                 /\ c.at = "get" /\ c.handler = h /\ c.panes = h.reloads /\ c.sel = call[k].sel
                 /\ c.seen = 0 /\ ~ c.orphan
                 /\ c.covers <=> h.reloads[1] = "main"
    BY <2>2, LoadBegins DEF Begun
  <2>4. /\ loading' = (loading \/ h.reloads[1] = "main")
        /\ error' = (error /\ ~ClearsAt("first", h.reloads))
        /\ h.reloads[1] = "main" <=> h.reloads # Details
    BY <2>1, <2>2, PaneLists DEF BeginsLoad
  <2>5. call'[k] = c /\ RowsOK'
    BY <1>1, <1>2, <1>4, <2>2, <2>3, <2>4, OneTurns DEF CallsInv, RowsOK
  <2>6. CallOK(c)'
    <3>1. 0 \in 0..MaxChanges
      BY ScreensAssumption
    <3>2. QED
      BY <1>2, <1>3, <2>1, <2>3, <2>4, <3>1 DEF CallOK
  <2>7. CallsMove(k, c)
    BY <1>1, <1>2, <1>3, <2>3, <2>5, <2>6 DEF CallsMove, CallsInv, RowsOK, Pane
  <2>8. /\ Submits(k)' <=> Submits(k)
        /\ Submits(k) <=> h.submits
        /\ Covers(k)' => loading'
        /\ ~ Covers(k)
    BY <1>2, <1>3, <2>3, <2>4, <2>5 DEF Submits, Covers, UnderWay
  <2>9. OneAtATime => Submits(k)
    BY <1>3, <2>8 DEF OneAtATime, IsHandler
  <2>10. FlagsMove(k)
    <3>1. OneAtATime => AllGuarded
      BY DEF OneAtATime, AllGuarded
    <3>2. QED
      BY <2>2, <2>4, <2>8, <2>9, <3>1 DEF FlagsMove, ScreensInv, FlagsInv
  <2>11. (ToDetails(c) <=> h.reloads = Details) /\ (ToRows(c) <=> h.reloads # Details)
    BY <2>3 DEF ToDetails, ToRows
  <2>12. SelectedMove(k, c)
    BY <1>2, <1>5, <2>3, <2>11 DEF SelectedMove, ScreensInv, SelectedInv
  <2>13. Tells => \A j \in Clerk : ToRows(call[j]) => j = k
    <3>1. \A j \in Clerk : ToRows(call[j]) => call[j] # NoCall /\ Covers(j)
      BY <1>1, NoCallIs DEF ToRows, Covers, UnderWay, CallsInv, CallOK
    <3>2. CASE InTurn
      BY <1>1, <1>3, <3>1, <3>2 DEF InTurn, CallsInv
    <3>3. CASE OneAtATime
      BY <2>9, <3>1, <3>3 DEF ScreensInv, FlagsInv
    <3>4. QED
      BY <3>2, <3>3 DEF Tells
  <2>14. h.reloads = Details /\ error => error'
    BY <2>4 DEF ClearsAt
  <2>15. ShownMove(k, c)
    BY <1>2, <1>3, <1>4, <1>5, <1>7, <2>3, <2>11, <2>13, <2>14 DEF ShownMove
  <2>16. QED
    BY <2>7, <2>10, <2>12, <2>15, ScreensKept
<1>8. QED
  BY <1>6, <1>7

(* Rows are rendered; a load's details follow its rows. *)
LEMMA RenderKeeps ==
  ASSUME ScreensInv, desk' = desk, NEW k \in Clerk, NEW rows \in 0..MaxChanges,
         Renders(k, rows), call[k].at \in {"get", "got"},
         rows <= server[ThisPane(k)],
         Tells /\ ThisPane(k) = "main" => rows >= confirmed["main"],
         ThisPane(k) = "details" => rows = 0 \/ call[k].at = "got"
  PROVE  ScreensInv'
<1>1. CallsInv
  BY DEF ScreensInv
<1>2. UNCHANGED <<page, isOpen, server, confirmed>>
  BY DEF Renders
<1>3. CallOK(call[k]) /\ call[k] # NoCall /\ ~ call[k].orphan /\ k \in desk /\ isOpen
  BY <1>1, NoCallIs DEF CallsInv, CallOK, UnderWay
<1>4. /\ call[k].panes \in {Main, Details, MainAndDetails} /\ call[k].sel \in Selection
      /\ call[k].panes # Details => call[k].covers
  BY <1>3 DEF CallOK
<1>5. /\ ThisPane(k) = call[k].panes[1] /\ ThisPane(k) \in Pane
      /\ ThisPane(k) = "main" <=> call[k].panes # Details
      /\ ThisPane(k) = "details" <=> call[k].panes = Details
      /\ Len(call[k].panes) > 1 <=> call[k].panes = MainAndDetails
  BY <1>4, PaneLists DEF ThisPane, Pane
<1>6. /\ shown' = [shown EXCEPT ![ThisPane(k)] = rows]
      /\ detailsOf' = IF call[k].panes = Details THEN call[k].sel ELSE detailsOf
      /\ selected' = IF call[k].panes = MainAndDetails THEN call[k].sel ELSE selected
      /\ error' = (error /\ ~ClearsAt("last", call[k].panes))
  BY <1>5, PaneLists DEF Renders
<1>7. /\ shown' \in [Pane -> 0..MaxChanges] /\ \A p \in Pane : shown'[p] <= server'[p]
      /\ ThisPane(k) = "main" => shown'["main"] = rows /\ shown'["details"] = shown["details"]
      /\ ThisPane(k) = "details" => shown'["main"] = shown["main"] /\ shown'["details"] = rows
  BY <1>1, <1>2, <1>5, <1>6 DEF CallsInv, RowsOK, Pane
<1>8. loading' \in BOOLEAN /\ submitting' \in BOOLEAN => RowsOK'
  BY <1>1, <1>2, <1>4, <1>6, <1>7 DEF CallsInv, RowsOK
<1>9. InTurn => \A j \in Clerk : call[j] # NoCall => j = k
  BY <1>1, <1>3 DEF CallsInv, InTurn
<1>10. call[k].panes = Details => call[k].sel = selected \/ ~ InTurn
  BY DEF ScreensInv, SelectedInv, ToDetails
<1>11. call[k].panes = Details /\ error => error'
  BY <1>6, PaneLists DEF ClearsAt
<1>12. /\ ToDetails(call[k]) <=> call[k].panes = Details
       /\ ToRows(call[k]) <=> call[k].panes # Details
  BY DEF ToDetails, ToRows
<1>13. CASE Len(call[k].panes) > 1
  <2>1. loading' = loading /\ submitting' = submitting /\ Runs(k, "get", Details, 0)
    BY <1>1, <1>5, <1>13, CallRuns, PaneLists DEF Renders
  <2>2. PICK c : /\ Turns(k, c) /\ c # NoCall /\ c.at = "get" /\ c.panes = Details /\ c.seen = 0
                 /\ c.handler = call[k].handler /\ c.sel = call[k].sel
                 /\ c.orphan = call[k].orphan /\ c.covers = call[k].covers
    BY <2>1 DEF Runs
  <2>3. call'[k] = c /\ RowsOK'
    BY <1>1, <1>8, <2>1, <2>2, OneTurns DEF CallsInv, RowsOK
  <2>4. CallOK(c)'
    <3>1. 0 \in 0..MaxChanges
      BY ScreensAssumption
    <3>2. QED
      BY <1>2, <1>3, <2>2, <3>1 DEF CallOK
  <2>5. CallsMove(k, c)
    BY <1>1, <1>2, <1>3, <2>2, <2>3, <2>4 DEF CallsMove, CallsInv, RowsOK, Pane
  <2>6. (Submits(k)' <=> Submits(k)) /\ (Covers(k)' <=> Covers(k))
    BY <1>3, <2>2, <2>3 DEF Submits, Covers, UnderWay
  <2>7. FlagsMove(k)
    BY <2>1, <2>6 DEF FlagsMove, ScreensInv, FlagsInv
  <2>8. ToDetails(c) /\ ~ ToRows(c)
    BY <2>2 DEF ToDetails, ToRows
  <2>9. SelectedMove(k, c)
    BY <1>5, <1>6, <1>9, <1>13, <2>2, <2>8 DEF SelectedMove
  <2>10. ShownMove(k, c)
    BY <1>2, <1>5, <1>7, <1>13, <2>8, PaneLists DEF ShownMove
  <2>11. QED
    BY <2>5, <2>7, <2>9, <2>10, ScreensKept
<1>14. CASE ~ Len(call[k].panes) > 1
  <2>1. Finally(k) /\ call' = [call EXCEPT ![k] = NoCall]
    BY <1>14 DEF Renders, Finally
  <2>2. Turns(k, NoCall) /\ RowsOK'
    BY <1>1, <1>8, <2>1, NoneTurns DEF Finally
  <2>3. CallsMove(k, NoCall)
    BY <1>1, <1>2, <2>2, NoneIsOK, NoCallIs DEF CallsMove, CallsInv, RowsOK, Pane
  <2>4. FlagsMove(k)
    BY <1>1, <1>3, <2>1, <2>2, EndFlags
  <2>5. SelectedMove(k, NoCall)
    BY <1>1, <1>5, <1>6, <1>7, <1>10, <1>12, <1>14, NoneIsOK DEF SelectedMove
  <2>6. ShownMove(k, NoCall)
    BY <1>1, <1>2, <1>5, <1>7, <1>11, <1>12, NoneIsOK, <1>3 DEF ShownMove
  <2>7. QED
    BY <2>3, <2>4, <2>5, <2>6, ScreensKept
<1>15. QED
  BY <1>13, <1>14

(* The rows that were read are shown, or none, when the pane's GET is      *)
(* caught by itself: not on a page that tells of a failure as a whole.     *)
LEMMA RendersKeep ==
  ASSUME ScreensInv, desk' = desk, NEW k \in Clerk, Shows(k) \/ ShowsNothing(k)
  PROVE  ScreensInv'
<1>1. CallsInv /\ call[k].at \in {"get", "got"}
  BY DEF ScreensInv, Shows, ShowsNothing
<1>2. /\ CallOK(call[k]) /\ ThisPane(k) = call[k].panes[1] /\ ThisPane(k) \in Pane
      /\ ThisPane(k) = "main" => call[k].panes # Details
  BY <1>1, PaneLists DEF CallsInv, CallOK, ThisPane, Pane
<1>3. CASE Shows(k)
  <2> DEFINE rows == call[k].seen
  <2>1. Renders(k, rows) /\ call[k].at = "got" /\ rows \in 0..MaxChanges
    BY <1>2, <1>3 DEF Shows, CallOK
  <2>2. rows <= server[ThisPane(k)]
    BY <1>2, <2>1 DEF CallOK
  <2>3. Tells /\ ThisPane(k) = "main" => rows >= confirmed["main"]
    BY <1>2, <2>1 DEF ScreensInv, ShownInv, ToRows
  <2> HIDE DEF rows
  <2>4. QED
    BY <2>1, <2>2, <2>3, RenderKeeps
<1>4. CASE ShowsNothing(k)
  <2>1. Renders(k, 0) /\ call[k].at = "get" /\ "part" \in page.load[ThisPane(k)].fails
    BY <1>4 DEF ShowsNothing
  <2>2. 0 \in 0..MaxChanges /\ 0 <= server[ThisPane(k)]
    BY <1>1, <1>2, ScreensAssumption DEF CallsInv, RowsOK
  <2>3. Tells => ThisPane(k) # "main"
    BY <2>1 DEF Tells
  <2>4. QED
    BY <2>1, <2>2, <2>3, RenderKeeps
<1>5. QED
  BY <1>3, <1>4

(* A page that is left: who waits for each answer does not leave meanwhile *)
LEMMA LeavesKeeps ==
  ASSUME ScreensInv, desk' = desk, Leaves
  PROVE  ScreensInv'
<1>1. CallsInv
  BY DEF ScreensInv
<1>2. /\ UNCHANGED <<page, server, confirmed>>
      /\ isOpen' = FALSE /\ loading' = FALSE /\ submitting' = FALSE /\ error' = FALSE
      /\ shown' = [p \in Pane |-> 0] /\ detailsOf' = Start /\ selected' = Start
  BY DEF Leaves
<1>3. call' = [k \in Clerk |-> IF call[k].at \in {"post", "done"}
                               THEN [call[k] EXCEPT !.orphan = TRUE]
                               ELSE NoCall]
  BY DEF Leaves
<1>4. RowsOK'
  <2>1. Start \in Selection /\ 0 \in 0..MaxChanges
    BY ScreensAssumption DEF Start
  <2>2. \A p \in Pane : 0 <= server[p]
    BY <1>1, ScreensAssumption DEF CallsInv, RowsOK
  <2>3. QED
    BY <1>1, <1>2, <2>1, <2>2 DEF CallsInv, RowsOK
<1>5. ASSUME NEW k \in Clerk
      PROVE  /\ IsCall(call'[k]) /\ CallOK(call[k])' /\ ~ UnderWay(k)'
             /\ ~ ToDetails(call'[k]) /\ ~ ToRows(call'[k])
             /\ call'[k] # NoCall => call[k] # NoCall
             /\ InTurn => call'[k] = NoCall
  <2> DEFINE r == call[k]
             o == [r EXCEPT !.orphan = TRUE]
  <2>1. IsCall(r) /\ CallOK(r)
    BY <1>1 DEF CallsInv
  <2>2. call'[k] = IF r.at \in {"post", "done"} THEN o ELSE NoCall
    BY <1>3
  <2>3. InTurn => call[k] = NoCall
    BY DEF Leaves
  <2> HIDE DEF r
  <2>4. /\ IsCall(o) /\ o.at = r.at /\ o.handler = r.handler /\ o.covers = r.covers
        /\ o.sel = r.sel /\ o.seen = r.seen /\ o.orphan
    BY <2>1 DEF IsCall
  <2> HIDE DEF o
  <2>5. PICK c : c = o
    OBVIOUS
  <2>6. CASE r.at \in {"post", "done"}
    <3>1. call[k] # NoCall /\ call'[k] = c
      BY <2>2, <2>5, <2>6, NoCallIs DEF r
    <3>2. CallOK(c)'
      BY <1>2, <2>1, <2>4, <2>5, <2>6 DEF CallOK
    <3>3. ~ ToDetails(c) /\ ~ ToRows(c)
      BY <2>4, <2>5, <2>6 DEF ToDetails, ToRows
    <3>4. ~ UnderWay(k)'
      BY <2>4, <2>5, <3>1 DEF UnderWay
    <3>5. QED
      BY <2>3, <2>4, <2>5, <3>1, <3>2, <3>3, <3>4
  <2>7. CASE r.at \notin {"post", "done"}
    BY <1>1, <2>2, <2>7, NoneIsOK, NoCallIs DEF UnderWay
  <2>8. QED
    BY <2>6, <2>7
<1>6. CallsInv'
  BY <1>1, <1>2, <1>3, <1>4, <1>5, NoCallIs DEF CallsInv, InTurn
<1>7. FlagsInv'
  BY <1>5 DEF FlagsInv, Submits, Covers
<1>8. SelectedInv'
  BY <1>2, <1>5, NoCallIs DEF SelectedInv, InTurn, Pane
<1>9. ShownInv'
  <2>1. (\A h \in page.handlers : h.reloads = <<>>) => \A p \in Pane : confirmed[p] = 0
    BY DEF ScreensInv, ShownInv
  <2>2. QED
    BY <1>2, <1>5, <2>1 DEF ShownInv
<1>10. QED
  BY <1>6, <1>7, <1>8, <1>9 DEF ScreensInv

-----------------------------------------------------------------------------
(* What the screens keep                                                   *)
-----------------------------------------------------------------------------

LEMMA ScreensStep ==
  ASSUME ScreensInv, [Next]_vars
  PROVE  ScreensInv'
<1>1. desk' = desk
  BY DEF Next, vars
<1>2. CASE UNCHANGED screenVars
  <2>1. UNCHANGED <<page, isOpen, server, shown, detailsOf, selected, loading, submitting,
                    error, confirmed, call>>
    BY <1>2 DEF screenVars, pageState
  <2>2. RowsOK' <=> RowsOK
    BY <2>1 DEF RowsOK
  <2>3. CallsInv'
    BY <1>1, <2>1, <2>2 DEF ScreensInv, CallsInv, CallOK, IsCall, UnderWay, InTurn
  <2>4. FlagsInv'
    BY <2>1 DEF ScreensInv, FlagsInv, AllGuarded, OneAtATime, Views, Submits, Covers, UnderWay
  <2>5. SelectedInv'
    BY <1>1, <2>1 DEF ScreensInv, SelectedInv, InTurn, ToDetails
  <2>6. ShownInv'
    BY <1>1, <2>1 DEF ScreensInv, ShownInv, Tells, InTurn, OneAtATime, Views, ToRows
  <2>7. QED
    BY <2>3, <2>4, <2>5, <2>6 DEF ScreensInv
<1>3. CASE ScreensNext
  BY <1>1, <1>3, LeavesKeeps, LoadsKeep, PressKeeps, TakesKeeps, RefusedKeeps, ForgetsKeeps,
     PostsKeeps, ConfirmedKeeps, ReadsKeeps, RendersKeep, LoadFailsKeeps DEF ScreensNext
<1>4. QED
  BY <1>2, <1>3 DEF Next, vars

LEMMA ScreensBegin == Init => ScreensInv
<1> SUFFICES ASSUME Init PROVE ScreensInv
  OBVIOUS
<1>1. ScreensInit
  BY DEF Init
<1>2. Start \in Selection /\ 0 \in 0..MaxChanges /\ 0 <= 0
  BY ScreensAssumption DEF Start
<1>3. RowsOK
  BY <1>1, <1>2 DEF ScreensInit, RowsOK
<1>4. call = [k \in Clerk |-> NoCall]
  BY <1>1 DEF ScreensInit
<1>5. CallOK(NoCall) /\ ~ ToDetails(NoCall) /\ ~ ToRows(NoCall) /\ ~ NoCall.orphan
  BY <1>2, NoCallIs DEF CallOK, ToDetails, ToRows
<1>6. CallsInv
  BY <1>3, <1>4, <1>5, NoCallIs DEF CallsInv, UnderWay
<1>7. FlagsInv
  BY <1>4 DEF FlagsInv, Submits, Covers, UnderWay
<1>8. SelectedInv
  BY <1>1, <1>4, <1>5, NoCallIs DEF SelectedInv, ScreensInit, Pane
<1>9. ShownInv
  BY <1>1, <1>2, <1>4, <1>5 DEF ShownInv, ScreensInit, Pane
<1>10. QED
  BY <1>6, <1>7, <1>8, <1>9 DEF ScreensInv

LEMMA ScreensAlways == Spec => []ScreensInv
BY ScreensBegin, ScreensStep, PTL DEF Spec

(* The variables of the pages have their types, and a call is of a         *)
(* function of the page that is open.                                      *)
LEMMA ScreensTypes == ScreensInv => ScreensTypeOK
<1> SUFFICES ASSUME CallsInv PROVE ScreensTypeOK
  BY DEF ScreensInv
<1>1. \A p \in Pane : shown[p] \in 0..server[p] /\ confirmed[p] \in 0..server[p]
  BY ScreensAssumption DEF CallsInv, RowsOK
<1>2. ASSUME NEW k \in Clerk
      PROVE  /\ call[k].at \in {"none", "post", "done", "get", "got"}
             /\ call[k].handler \in page.handlers \cup {NoHandler}
             /\ call[k].at \in {"get", "got"} => call[k].panes # <<>>
             /\ call[k].sel \in Selection /\ call[k].seen \in 0..MaxChanges
  BY NoCallIs, PaneLists DEF CallsInv, CallOK
<1>3. QED
  BY <1>1, <1>2 DEF ScreensTypeOK, CallsInv, RowsOK

(* The variables of every office have their types, by the invariant of     *)
(* each: what a request keeps between two statements included.             *)
THEOREM OfficeTypes == Spec => []BackOfficeTypeOK
<1>1. PayrollInv /\ TranchesInv /\ DepreciationInv /\ LandedCostInv /\ AllocationInv =>
        /\ PayrollTypeOK /\ TranchesTypeOK /\ DepreciationTypeOK /\ LandedCostTypeOK
        /\ AllocationTypeOK
  BY DEF PayrollInv, TranchesInv, DepreciationInv, LandedCostInv, AllocationInv
<1>2. DefaultBomInv /\ PlanOrdersInv /\ TreesInv =>
        DefaultBomTypeOK /\ PlanOrdersTypeOK /\ TreesTypeOK
  BY DEF DefaultBomInv, PlanOrdersInv, TreesInv
<1>3. QualityInv => QualityTypeOK
  <2> SUFFICES ASSUME QualityInv PROVE QualityTypeOK
    OBVIOUS
  <2>1. QualityTypes
    BY DEF QualityInv
  <2>2. \A k \in Clerk : checking[k].at \in {"idle", "rule", "results"}
    BY <2>1, KindsOfChecks DEF QualityTypes
  <2>3. QED
    BY <2>1, <2>2 DEF QualityTypes, QualityTypeOK
<1>4. PayrollInv /\ TranchesInv /\ DepreciationInv /\ LandedCostInv /\ AllocationInv /\
      DefaultBomInv /\ PlanOrdersInv /\ TreesInv /\ QualityInv /\ ScreensInv =>
        BackOfficeTypeOK
  BY <1>1, <1>2, <1>3, ScreensTypes DEF BackOfficeTypeOK
<1>5. QED
  BY <1>4, PayrollAlways, TranchesAlways, DepreciationAlways, LandedCostAlways,
     AllocationAlways, DefaultBomAlways, PlanOrdersAlways, TreesAlways, QualityInvariant,
     ScreensAlways, PTL

(* A page whose buttons are all disabled while it submits never has two    *)
(* requests under way (disabled={submitting} of the pages), whichever      *)
(* loads end meanwhile.                                                    *)
THEOREM OneSubmit == Spec => []SubmitsOnce
<1>1. ScreensInv => SubmitsOnce
  <2> SUFFICES ASSUME ScreensInv, AllGuarded PROVE SubmitsOnce
    BY DEF AllGuarded, SubmitsOnce
  <2> DEFINE Asking == {k \in Clerk : UnderWay(k) /\ call[k].at \in {"post", "done"}}
  <2>1. IsPage(page)
    BY ThePageIsSound DEF ScreensInv
  <2>2. \A k \in Asking : k \in Clerk /\ Submits(k)
    BY <2>1 DEF Submits, AllGuarded, ScreensInv, CallsInv, CallOK, IsPage, IsHandler
  <2>3. \A j, k \in Asking : j = k
    BY <2>2 DEF ScreensInv, FlagsInv
  <2>4. Asking = {} \/ \E k : Asking = {k}
    BY <2>3
  <2>5. Cardinality(Asking) <= 1
    <3> HIDE DEF Asking
    <3>1. Cardinality({}) = 0
      BY FS_EmptySet
    <3>2. \A k : Cardinality({k}) = 1
      BY FS_Singleton
    <3>3. CASE Asking = {}
      BY <3>1, <3>3
    <3>4. CASE \E k : Asking = {k}
      <4>1. PICK k : Asking = {k}
        BY <3>4
      <4>2. Cardinality(Asking) = 1
        BY <3>2, <4>1
      <4>3. QED
        BY <4>2
    <3>5. QED
      BY <2>4, <3>3, <3>4
  <2>6. QED
    BY <2>5 DEF SubmitsOnce
<1>2. QED
  BY <1>1, ScreensAlways, PTL

(* When the user waits for each answer, the details shown are of what is   *)
(* selected: a load that fails empties them (the pages' .catch).           *)
THEOREM SelectionShown == Spec => []SelectedIsShown
<1>1. ScreensInv => SelectedIsShown
  BY NoCallIs DEF ScreensInv, SelectedInv, SelectedIsShown, AtRest, ToDetails
<1>2. QED
  BY <1>1, ScreensAlways, PTL

(* A page that tells when its load fails, and tells of none, shows every   *)
(* change that the user was told of, when the user waits for each answer   *)
(* or the page makes the user wait.                                        *)
THEOREM ConfirmedShown == Spec => []ConfirmedIsShown
<1>1. ScreensInv => ConfirmedIsShown
  <2> SUFFICES ASSUME ScreensInv, AtRest, InTurn \/ OneAtATime, Views("tells"), ~ error,
                      NEW p \in Pane, page.load[p].fails = {"whole"}
               PROVE  shown[p] >= confirmed[p]
    BY DEF ConfirmedIsShown
  <2>1. CallsInv /\ IsPage(page)
    BY ThePageIsSound DEF ScreensInv
  <2>2. p = "main"
    BY <2>1 DEF IsPage, Pane
  <2>3. shown[p] \in Nat /\ confirmed[p] \in Nat
    BY <2>1, ScreensAssumption DEF CallsInv, RowsOK
  <2>4. CASE \A h \in page.handlers : h.reloads = <<>>
    BY <2>3, <2>4 DEF ScreensInv, ShownInv
  <2>5. CASE ~ Views("asked") /\ \A h \in page.handlers : Calm(h)
    <3>1. Tells
      BY <2>2, <2>5 DEF Tells
    <3>2. \A k \in Clerk : ~ ToRows(call[k])
      BY NoCallIs DEF AtRest, ToRows
    <3>3. QED
      BY <2>2, <3>1, <3>2 DEF ScreensInv, ShownInv, AtRest
  <2>6. QED
    BY <2>1, <2>2, <2>4, <2>5 DEF IsPage, Views
<1>2. QED
  BY <1>1, ScreensAlways, PTL

=============================================================================
