-------------------------- MODULE PaneStyleProofs --------------------------
(***************************************************************************)
(* Theorems about PaneStyle for any clients, claims and processes, and for *)
(* tmux calls that may fail.  Four shapes sum up what a step whose reads   *)
(* did not fail can do to the two style options.                           *)
(***************************************************************************)
EXTENDS PaneStyle, TLAPS

Same == pane'.style = pane.style /\ pane'.saved = pane.saved
Dimmed == pane.saved = None /\ pane'.style = Inactive /\ pane'.saved = pane.style
Freed ==
  /\ pane.saved # None /\ pane'.saved = None
  /\ pane'.style = pane.saved \/ (failed' /\ pane'.style = Unset)
Bared == failed' /\ pane'.saved = pane.saved /\ pane'.style = Unset

Reason(p) == p.claim # None \/ p.mark

(* What every step keeps to.                                               *)
Shape ==
  /\ Same \/ Dimmed \/ Freed \/ Bared
  /\ Dimmed => Reason(pane')
  /\ Freed => ~ Reason(pane') /\ pane'.mark \in BOOLEAN
  /\ pane.saved # None /\ pane'.saved # None /\ Reason(pane) => Reason(pane')

-----------------------------------------------------------------------------
(* A step changes the pane by one of four mutations or not at all.         *)
LEMMA OnlyMutations ==
  ASSUME [Next]_vars
  PROVE  \/ UNCHANGED pane
         \/ Dim \/ Undim
         \/ \E t \in Tokens : Claim(t) \/ Clear(t)
  BY DEF Next, FocusIn, FocusOut, Select, Launch, Configure, Process, Check, Look, Apply, Recheck,
     vars, procVars

(* Reads that do not fail show the pane as it is.                          *)
LEMMA ExactViews ==
  ASSUME NEW view \in Views, NEW ok, Record(view, ok), ~ missed'
  PROVE  /\ view.style = pane.style /\ view.saved = pane.saved /\ view.mark = pane.mark
         /\ view.claim = pane.claim /\ view.dims = configured
<1>1. missed' <=> missed \/ view # Exact
  BY Zenon DEF Record
<1>2. view = Exact
  BY <1>1, Zenon
<1> QED
  BY <1>2 DEF Exact

(* What a mutation reads has the types of a pane.                          *)
LEMMA ViewTypes ==
  ASSUME TypeOK, NEW view \in Views
  PROVE  /\ view.style \in Styles /\ view.saved \in Styles \cup {None}
         /\ view.mark \in BOOLEAN /\ view.claim \in Tokens \cup {None}
         /\ view.dims \in BOOLEAN
<1>1. CASE MayMiss
  BY <1>1 DEF Views, TypeOK, Panes, Styles
<1>2. CASE ~ MayMiss
  BY <1>2 DEF Views, Exact, TypeOK, Panes, Styles
<1> QED
  BY <1>1, <1>2

(* A call leaves the old pane or the new one, and the new one for sure     *)
(* when it reports success.                                                *)
LEMMA CallOutcome ==
  ASSUME NEW old, NEW new, NEW call \in Calls(old, new)
  PROVE  /\ call.pane \in {old, new}
         /\ call.ok => call.pane = new
<1>1. CASE MayFail
  BY <1>1 DEF Calls
<1>2. CASE ~ MayFail
  BY <1>2 DEF Calls
<1> QED
  BY <1>1, <1>2

-----------------------------------------------------------------------------
(* A takeover dims a pane that was not dimmed, or leaves its style alone.  *)
LEMMA ClaimShape ==
  ASSUME TypeOK, ~ missed', NEW t \in Tokens, Claim(t)
  PROVE  Shape
<1> USE TokenAssumption, StylesAssumption, FaultAssumption DEF TypeOK, Panes, Styles
<1> DEFINE wanted(view) == [Setup(view) EXCEPT !.claim = t]
           undone(view, p) == [Undo(p, view) EXCEPT !.claim = view.claim]
           outcome(view, call) ==
             /\ Record(view, call.ok)
             /\ IF call.ok \/ ~ Saves(view)
                THEN pane' = call.pane
                ELSE \E back \in Calls(call.pane, undone(view, call.pane)) :
                     \E again \in Calls(back.pane, [back.pane EXCEPT !.claim = t]) :
                       pane' = again.pane
<1>1. PICK view \in Views : \E call \in Calls(pane, wanted(view)) : outcome(view, call)
  BY DEF Claim
<1>1a. PICK call \in Calls(pane, wanted(view)) : outcome(view, call)
  BY <1>1
<1>2. view.style = pane.style /\ view.saved = pane.saved /\ view.claim = pane.claim
  BY <1>1a, ExactViews
<1>3. call.pane \in {pane, wanted(view)}
  BY CallOutcome
<1>4. CASE ~ Saves(view)
  BY <1>1a, <1>3, <1>4 DEF Setup, Shape, Same, Dimmed, Freed, Bared, Reason
<1>5. CASE Saves(view)
  <2>1. pane.saved = None
    BY <1>2, <1>5 DEF Saves
  <2>2. wanted(view) = [pane EXCEPT !.style = Inactive, !.saved = pane.style, !.claim = t]
    BY <1>2, <1>5 DEF Setup
  <2>3. CASE pane' = call.pane
    BY <1>3, <2>1, <2>2, <2>3 DEF Shape, Same, Dimmed, Freed, Bared, Reason
  <2>4. CASE pane' # call.pane
    <3>1. PICK back \in Calls(call.pane, undone(view, call.pane)) :
            \E again \in Calls(back.pane, [back.pane EXCEPT !.claim = t]) : pane' = again.pane
      BY <1>1a, <2>4
    <3>2. pane' \in {back.pane, [back.pane EXCEPT !.claim = t]}
      BY <3>1, CallOutcome
    <3>3. back.pane \in {call.pane, undone(view, call.pane)}
      BY CallOutcome
    <3>4. CASE back.pane = call.pane
      <4>1. pane' = [call.pane EXCEPT !.claim = t]
        BY <2>4, <3>2, <3>4
      <4>2. CASE call.pane = pane
        BY <2>1, <4>1, <4>2 DEF Shape, Same, Dimmed, Freed, Bared, Reason
      <4>3. CASE call.pane = wanted(view)
        BY <2>1, <2>2, <4>1, <4>3 DEF Shape, Same, Dimmed, Freed, Bared, Reason
      <4> QED
        BY <1>3, <4>2, <4>3
    <3>5. CASE back.pane = undone(view, call.pane)
      <4>1. back.pane.style = pane.style /\ back.pane.saved = None
        BY <1>2, <1>3, <2>2, <3>5 DEF Undo
      <4>2. pane'.style = pane.style /\ pane'.saved = None
        BY <1>3, <2>2, <3>2, <3>5, <4>1 DEF Undo
      <4> QED
        BY <2>1, <4>2 DEF Shape, Same, Dimmed, Freed, Bared, Reason
    <3> QED
      BY <3>3, <3>4, <3>5
  <2> QED
    BY <2>3, <2>4
<1> QED
  BY <1>4, <1>5

(* The end of a claim restores an unmarked pane.                           *)
LEMMA ClearShape ==
  ASSUME TypeOK, ~ missed', NEW t \in Tokens, Clear(t)
  PROVE  Shape
<1> USE TokenAssumption, StylesAssumption, FaultAssumption DEF TypeOK, Panes, Styles
<1> DEFINE free(view) == IF view.mark THEN pane ELSE Restored(view)
           gone(view) == [free(view) EXCEPT !.claim = None]
           outcome(view, call) ==
             /\ Record(view, call.ok)
             /\ IF call.ok \/ view.saved = None
                THEN pane' = call.pane
                ELSE \E bare \in Calls(call.pane, Bare(call.pane)) : pane' = bare.pane
<1>1. PICK view \in Views : \E call \in Calls(pane, gone(view)) : outcome(view, call)
  BY DEF Clear
<1>3. PICK call \in Calls(pane, gone(view)) : outcome(view, call)
  BY <1>1
<1>2. view.saved = pane.saved /\ view.mark = pane.mark
  BY <1>3, ExactViews
<1>4. call.pane \in {pane, gone(view)} /\ (~ call.ok => failed')
  BY <1>3, CallOutcome DEF Record
<1>5. pane' = call.pane \/ (failed' /\ pane.saved # None /\ pane' = Bare(call.pane))
  <2>1. CASE call.ok \/ view.saved = None
    BY <1>3, <2>1
  <2>2. CASE ~ call.ok /\ view.saved # None
    <3>1. PICK bare \in Calls(call.pane, Bare(call.pane)) : pane' = bare.pane
      BY <1>3, <2>2
    <3>2. bare.pane \in {call.pane, Bare(call.pane)}
      BY CallOutcome
    <3> QED
      BY <1>2, <1>4, <2>2, <3>1, <3>2
  <2> QED
    BY <2>1, <2>2
<1>6. CASE call.pane = pane
  BY <1>5, <1>6 DEF Bare, Shape, Same, Dimmed, Freed, Bared, Reason
<1>7. CASE call.pane = gone(view) /\ pane.mark
  BY <1>2, <1>5, <1>7 DEF Bare, Shape, Same, Dimmed, Freed, Bared, Reason
<1>8. CASE call.pane = gone(view) /\ ~ pane.mark
  <2>1. call.pane = [Restored(view) EXCEPT !.claim = None]
    BY <1>2, <1>8
  <2>2. CASE pane.saved = None
    BY <1>2, <1>5, <2>1, <2>2, <1>8 DEF Restored, Shape, Same, Dimmed, Freed, Bared, Reason
  <2>3. CASE pane.saved # None
    <3>1. call.pane = [pane EXCEPT !.style = pane.saved, !.saved = None, !.claim = None]
      BY <1>2, <2>1, <2>3 DEF Restored
    <3> QED
      BY <1>5, <1>8, <2>3, <3>1 DEF Bare, Shape, Same, Dimmed, Freed, Bared, Reason
  <2> QED
    BY <2>2, <2>3
<1> QED
  BY <1>4, <1>6, <1>7, <1>8

(* A focus-out dims a pane that was not dimmed, or leaves its style alone. *)
LEMMA DimShape ==
  ASSUME TypeOK, ~ missed', Dim
  PROVE  Shape
<1> USE TokenAssumption, StylesAssumption, FaultAssumption DEF TypeOK, Panes, Styles
<1> DEFINE wanted(view) == [Setup(view) EXCEPT !.mark = TRUE]
           undone(view, p) == [Undo(p, view) EXCEPT !.mark = FALSE]
           outcome(view, call) ==
             /\ Record(view, call.ok)
             /\ IF call.ok \/ ~ Saves(view)
                THEN pane' = call.pane
                ELSE \E back \in Calls(call.pane, undone(view, call.pane)) : pane' = back.pane
<1>1. CASE UNCHANGED pane
  BY <1>1 DEF Shape, Same, Dimmed, Freed, Bared, Reason
<1>2. CASE ~ UNCHANGED pane
  <2>1. PICK view \in Views : \E call \in Calls(pane, wanted(view)) : outcome(view, call)
    BY <1>2 DEF Dim
  <2>1a. PICK call \in Calls(pane, wanted(view)) : outcome(view, call)
    BY <2>1
  <2>2. view.style = pane.style /\ view.saved = pane.saved
    BY <2>1a, ExactViews
  <2>3. call.pane \in {pane, wanted(view)}
    BY CallOutcome
  <2>4. pane' \in {call.pane, undone(view, call.pane)} /\ (~ Saves(view) => pane' = call.pane)
    BY <2>1a, CallOutcome
  <2>5. CASE ~ Saves(view)
    BY <2>3, <2>4, <2>5 DEF Setup, Shape, Same, Dimmed, Freed, Bared, Reason
  <2>6. CASE Saves(view)
    <3>1. pane.saved = None
      BY <2>2, <2>6 DEF Saves
    <3>2. wanted(view) = [pane EXCEPT !.style = Inactive, !.saved = pane.style, !.mark = TRUE]
      BY <2>2, <2>6 DEF Setup
    <3>3. CASE pane' = call.pane
      BY <2>3, <3>1, <3>2, <3>3 DEF Shape, Same, Dimmed, Freed, Bared, Reason
    <3>4. CASE pane' = undone(view, call.pane)
      <4>1. pane'.style = pane.style /\ pane'.saved = None
        BY <2>2, <2>3, <3>2, <3>4 DEF Undo
      <4> QED
        BY <3>1, <4>1 DEF Shape, Same, Dimmed, Freed, Bared, Reason
    <3> QED
      BY <2>4, <3>3, <3>4
  <2> QED
    BY <2>5, <2>6
<1> QED
  BY <1>1, <1>2

(* A focus-in restores a pane that no child claims.                        *)
LEMMA UndimShape ==
  ASSUME TypeOK, ~ missed', Undim
  PROVE  Shape
<1> USE TokenAssumption, StylesAssumption, FaultAssumption DEF TypeOK, Panes, Styles
<1> DEFINE free(view) == IF view.claim = None THEN Restored(view) ELSE pane
           bright(view) == [free(view) EXCEPT !.mark = FALSE]
           outcome(view, call) ==
             /\ Record(view, call.ok)
             /\ IF call.ok
                THEN pane' = call.pane
                ELSE \E bare \in Calls(call.pane, Bare(call.pane)) : pane' = bare.pane
<1>1. PICK view \in Views : \E call \in Calls(pane, bright(view)) : outcome(view, call)
  BY DEF Undim
<1>1a. PICK call \in Calls(pane, bright(view)) : outcome(view, call)
  BY <1>1
<1>2. view.saved = pane.saved /\ view.claim = pane.claim
  BY <1>1a, ExactViews
<1>3. call.pane \in {pane, bright(view)}
  BY CallOutcome
<1>4. pane' = call.pane \/ (failed' /\ pane' = Bare(call.pane))
  <2>1. CASE call.ok
    BY <1>1a, <2>1
  <2>2. CASE ~ call.ok
    <3>1. PICK bare \in Calls(call.pane, Bare(call.pane)) : pane' = bare.pane
      BY <1>1a, <2>2
    <3>2. bare.pane \in {call.pane, Bare(call.pane)}
      BY CallOutcome
    <3>3. failed'
      BY <1>1a, <2>2 DEF Record
    <3> QED
      BY <3>1, <3>2, <3>3
  <2> QED
    BY <2>1, <2>2
<1>5. CASE call.pane = pane
  BY <1>4, <1>5 DEF Bare, Shape, Same, Dimmed, Freed, Bared, Reason
<1>6. CASE call.pane = bright(view) /\ (pane.claim # None \/ pane.saved = None)
  <2>1. call.pane = [pane EXCEPT !.mark = FALSE]
    BY <1>2, <1>6 DEF Restored
  <2> QED
    BY <1>4, <1>6, <2>1 DEF Bare, Shape, Same, Dimmed, Freed, Bared, Reason
<1>7. CASE call.pane = bright(view) /\ pane.claim = None /\ pane.saved # None
  <2>1. call.pane = [pane EXCEPT !.style = pane.saved, !.saved = None, !.mark = FALSE]
    BY <1>2, <1>7 DEF Restored
  <2> QED
    BY <1>4, <1>7, <2>1 DEF Bare, Shape, Same, Dimmed, Freed, Bared, Reason
<1> QED
  BY <1>3, <1>5, <1>6, <1>7

-----------------------------------------------------------------------------
(* Every mutation makes a pane of a pane, whatever fails.                  *)
LEMMA PaneTyped ==
  ASSUME TypeOK, [Next]_vars
  PROVE  pane' \in Panes
<1> USE TokenAssumption DEF TypeOK, Panes, Styles
<1>1. CASE UNCHANGED pane
  BY <1>1
<1>2. ASSUME NEW t \in Tokens, Claim(t) PROVE pane' \in Panes
  <2> DEFINE wanted(view) == [Setup(view) EXCEPT !.claim = t]
             undone(view, p) == [Undo(p, view) EXCEPT !.claim = view.claim]
             outcome(view, call) ==
               /\ Record(view, call.ok)
               /\ IF call.ok \/ ~ Saves(view)
                  THEN pane' = call.pane
                  ELSE \E back \in Calls(call.pane, undone(view, call.pane)) :
                       \E again \in Calls(back.pane, [back.pane EXCEPT !.claim = t]) :
                         pane' = again.pane
  <2>1. PICK view \in Views : \E call \in Calls(pane, wanted(view)) : outcome(view, call)
    BY <1>2 DEF Claim
  <2>2. PICK call \in Calls(pane, wanted(view)) : outcome(view, call)
    BY <2>1
  <2>3. /\ view.style \in Styles /\ view.claim \in Tokens \cup {None}
    BY ViewTypes
  <2>4. wanted(view) \in Panes
    BY <2>3 DEF Setup
  <2>5. call.pane \in Panes
    BY <2>4, CallOutcome
  <2>6. CASE pane' = call.pane
    BY <2>5, <2>6
  <2>7. CASE pane' # call.pane
    <3>1. PICK back \in Calls(call.pane, undone(view, call.pane)) :
            \E again \in Calls(back.pane, [back.pane EXCEPT !.claim = t]) : pane' = again.pane
      BY <2>2, <2>7
    <3>2. undone(view, call.pane) \in Panes
      BY <2>3, <2>5 DEF Undo
    <3>3. back.pane \in Panes
      BY <2>5, <3>2, CallOutcome
    <3>4. pane' \in {back.pane, [back.pane EXCEPT !.claim = t]}
      BY <3>1, CallOutcome
    <3> QED
      BY <3>3, <3>4
  <2> QED
    BY <2>6, <2>7
<1>3. ASSUME NEW t \in Tokens, Clear(t) PROVE pane' \in Panes
  <2> DEFINE free(view) == IF view.mark THEN pane ELSE Restored(view)
             gone(view) == [free(view) EXCEPT !.claim = None]
             outcome(view, call) ==
               /\ Record(view, call.ok)
               /\ IF call.ok \/ view.saved = None
                  THEN pane' = call.pane
                  ELSE \E bare \in Calls(call.pane, Bare(call.pane)) : pane' = bare.pane
  <2>1. PICK view \in Views : \E call \in Calls(pane, gone(view)) : outcome(view, call)
    BY <1>3 DEF Clear
  <2>2. PICK call \in Calls(pane, gone(view)) : outcome(view, call)
    BY <2>1
  <2>3. gone(view) \in Panes
    BY ViewTypes DEF Restored
  <2>4. call.pane \in Panes /\ Bare(call.pane) \in Panes
    BY <2>3, CallOutcome DEF Bare
  <2>5. pane' \in {call.pane, Bare(call.pane)}
    BY <2>2, CallOutcome
  <2> QED
    BY <2>4, <2>5
<1>4. CASE Dim
  <2> DEFINE wanted(view) == [Setup(view) EXCEPT !.mark = TRUE]
             undone(view, p) == [Undo(p, view) EXCEPT !.mark = FALSE]
             outcome(view, call) ==
               /\ Record(view, call.ok)
               /\ IF call.ok \/ ~ Saves(view)
                  THEN pane' = call.pane
                  ELSE \E back \in Calls(call.pane, undone(view, call.pane)) : pane' = back.pane
  <2>1. CASE ~ UNCHANGED pane
    <3>1. PICK view \in Views : \E call \in Calls(pane, wanted(view)) : outcome(view, call)
      BY <1>4, <2>1 DEF Dim
    <3>2. PICK call \in Calls(pane, wanted(view)) : outcome(view, call)
      BY <3>1
    <3>3. view.style \in Styles
      BY ViewTypes
    <3>4. wanted(view) \in Panes
      BY <3>3 DEF Setup
    <3>5. call.pane \in Panes
      BY <3>4, CallOutcome
    <3>6. undone(view, call.pane) \in Panes
      BY <3>3, <3>5 DEF Undo
    <3>7. pane' \in {call.pane, undone(view, call.pane)}
      BY <3>2, CallOutcome
    <3> QED
      BY <3>5, <3>6, <3>7
  <2> QED
    BY <2>1
<1>5. CASE Undim
  <2> DEFINE free(view) == IF view.claim = None THEN Restored(view) ELSE pane
             bright(view) == [free(view) EXCEPT !.mark = FALSE]
             outcome(view, call) ==
               /\ Record(view, call.ok)
               /\ IF call.ok
                  THEN pane' = call.pane
                  ELSE \E bare \in Calls(call.pane, Bare(call.pane)) : pane' = bare.pane
  <2>1. PICK view \in Views : \E call \in Calls(pane, bright(view)) : outcome(view, call)
    BY <1>5 DEF Undim
  <2>2. PICK call \in Calls(pane, bright(view)) : outcome(view, call)
    BY <2>1
  <2>3. bright(view) \in Panes
    BY ViewTypes DEF Restored
  <2>4. call.pane \in Panes /\ Bare(call.pane) \in Panes
    BY <2>3, CallOutcome DEF Bare
  <2>5. pane' \in {call.pane, Bare(call.pane)}
    BY <2>2, CallOutcome
  <2> QED
    BY <2>4, <2>5
<1> QED
  BY <1>1, <1>2, <1>3, <1>4, <1>5, OnlyMutations

(* The history variables are Boolean and never forget.                     *)
LEMMA HistoryTyped ==
  ASSUME TypeOK, [Next]_vars
  PROVE  /\ failed' \in BOOLEAN /\ missed' \in BOOLEAN
         /\ failed => failed'
         /\ missed => missed'
<1>1. ASSUME NEW t \in Tokens, Claim(t) \/ Clear(t)
      PROVE  \E view, ok : Record(view, ok)
  BY <1>1 DEF Claim, Clear
<1>2. ASSUME Dim \/ Undim
      PROVE  \E view, ok : Record(view, ok)
  BY <1>2 DEF Dim, Undim
<1>3. (\E view, ok : Record(view, ok)) \/ UNCHANGED faults
  BY <1>1, <1>2 DEF Next, FocusIn, FocusOut, Select, Launch, Configure, Process, Check, Look,
     Apply, Recheck, vars
<1> QED
  BY <1>3 DEF Record, faults, TypeOK

(* The processes keep their types.                                         *)
LEMMA TypeStep == TypeOK /\ [Next]_vars => TypeOK'
<1> SUFFICES ASSUME TypeOK, [Next]_vars PROVE TypeOK'
  OBVIOUS
<1>1. pane' \in Panes
  BY PaneTyped
<1> USE <1>1 DEF TypeOK, Places, Hooks, procVars, faults, vars, Launch, Go
<1>2. ASSUME NEW t \in Tokens, Claim(t) \/ Clear(t) PROVE TypeOK'
  BY <1>2, HistoryTyped DEF Claim, Clear
<1>3. ASSUME NEW c \in Clients, NEW p \in Processes, FocusIn(c, p) PROVE TypeOK'
  BY <1>3 DEF FocusIn
<1>4. ASSUME NEW c \in Clients, NEW p \in Processes, FocusOut(c, p) PROVE TypeOK'
  BY <1>4 DEF FocusOut
<1>5. ASSUME NEW c \in Clients, NEW p \in Processes, Select(c, p) PROVE TypeOK'
  BY <1>5 DEF Select
<1>6. ASSUME NEW p \in Processes, Check(p) PROVE TypeOK'
  BY <1>6 DEF Check
<1>7. ASSUME NEW p \in Processes, Look(p) PROVE TypeOK'
  BY <1>7 DEF Look
<1>8. ASSUME NEW p \in Processes, Apply(p) PROVE TypeOK'
  BY <1>8, HistoryTyped DEF Apply
<1>9. ASSUME NEW p \in Processes, Recheck(p) PROVE TypeOK'
  BY <1>9 DEF Recheck
<1>10. CASE Configure
  BY <1>10 DEF Configure
<1>11. CASE UNCHANGED vars
  BY <1>11
<1> QED
  BY <1>2, <1>3, <1>4, <1>5, <1>6, <1>7, <1>8, <1>9, <1>10, <1>11 DEF Next, Process

(* Every step has one of the four shapes.                                  *)
LEMMA StepShape == ASSUME TypeOK, ~ missed', [Next]_vars PROVE Shape
<1>1. CASE UNCHANGED pane
  BY <1>1, StylesAssumption DEF Shape, Same, Dimmed, Freed, Bared, Reason, TypeOK, Panes, Styles
<1> QED
  BY <1>1, OnlyMutations, ClaimShape, ClearShape, DimShape, UndimShape

-----------------------------------------------------------------------------
(* Every variable of the pane style keeps its type.                        *)
THEOREM StyleTypeOK == Spec => []TypeOK
<1>1. Init => TypeOK
  <2> SUFFICES ASSUME Init PROVE TypeOK
    OBVIOUS
  <2>1. failed \in BOOLEAN /\ missed \in BOOLEAN
    BY Zenon DEF Init
  <2> QED
    BY <2>1, StylesAssumption DEF Init, TypeOK, Panes, Styles, Places, Hooks
<1> QED
  BY <1>1, TypeStep, PTL DEF Spec

(* inactive_style_setup and the restores: a pane's own override is in      *)
(* place or saved until a call fails, for any number of claims, clients    *)
(* and hook processes.                                                     *)
THEOREM OverrideSurvives == Spec => []OriginalKept
<1>1. Init => OriginalKept
  BY DEF Init, OriginalKept
<1>2. TypeOK /\ OriginalKept /\ [Next]_vars => OriginalKept'
  <2> SUFFICES ASSUME TypeOK, OriginalKept, [Next]_vars, ~ failed', ~ missed'
               PROVE  OriginalKept'
    BY DEF OriginalKept
  <2>1. Shape
    BY StepShape
  <2>2. ~ failed /\ ~ missed
    BY HistoryTyped, Zenon
  <2> QED
    BY <2>1, <2>2, StylesAssumption DEF Shape, Same, Dimmed, Freed, Bared, OriginalKept
<1> QED
  BY <1>1, <1>2, StyleTypeOK, PTL DEF Spec

(* The rollbacks: also when writes fail the dim style is never mistaken    *)
(* for the pane's own.                                                     *)
THEOREM NeverStuckDim == Spec => []NoStuckDim
<1>1. Init => NoStuckDim
  BY StylesAssumption DEF Init, NoStuckDim
<1>2. TypeOK /\ NoStuckDim /\ [Next]_vars => NoStuckDim'
  <2> SUFFICES ASSUME TypeOK, NoStuckDim, [Next]_vars, ~ missed' PROVE NoStuckDim'
    BY DEF NoStuckDim
  <2>1. Shape
    BY StepShape
  <2>2. ~ missed
    BY HistoryTyped, Zenon
  <2> QED
    BY <2>1, <2>2, StylesAssumption DEF Shape, Same, Dimmed, Freed, Bared, NoStuckDim, TypeOK, Panes, Styles
<1> QED
  BY <1>1, <1>2, StyleTypeOK, PTL DEF Spec

(* A saved style has a claim or a mark whose end restores it, unless a     *)
(* read has failed.                                                        *)
THEOREM SavedHasReason == Spec => []DimHasReason
<1>1. Init => DimHasReason
  BY DEF Init, DimHasReason
<1>2. TypeOK /\ DimHasReason /\ [Next]_vars => DimHasReason'
  <2> SUFFICES ASSUME TypeOK, DimHasReason, [Next]_vars, ~ missed' PROVE DimHasReason'
    BY DEF DimHasReason
  <2>1. Shape
    BY StepShape
  <2>2. ~ missed
    BY HistoryTyped, Zenon
  <2> QED
    BY <2>1, <2>2 DEF Shape, Same, Dimmed, Freed, Bared, Reason, DimHasReason
<1> QED
  BY <1>1, <1>2, StyleTypeOK, PTL DEF Spec

(* Both together, for any number of claims and processes.                  *)
THEOREM DimIsAccounted == Spec => []DimAccounted
<1>1. NoStuckDim /\ DimHasReason => DimAccounted
  BY DEF DimAccounted
<1> QED
  BY <1>1, NeverStuckDim, SavedHasReason, PTL

(* The claim and the mark are independent reasons: the style comes back    *)
(* only when both are gone.                                                *)
THEOREM ReasonsIndependent == Spec => RestoredOnlyWhenFree
<1> DEFINE Free == Brightens => missed' \/ (pane'.claim = None /\ ~ pane'.mark)
<1>1. TypeOK /\ [Next]_vars => [Free]_vars
  <2> SUFFICES ASSUME TypeOK, [Next]_vars, Brightens, ~ missed'
               PROVE  pane'.claim = None /\ ~ pane'.mark
    OBVIOUS
  <2>1. Shape
    BY StepShape
  <2> QED
    BY <2>1 DEF Shape, Same, Dimmed, Freed, Bared, Reason, Brightens
<1> QED
  BY <1>1, StyleTypeOK, PTL DEF Spec, RestoredOnlyWhenFree
=============================================================================
