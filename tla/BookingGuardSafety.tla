-------------------------- MODULE BookingGuardSafety ------------------------
(* For every set of requests, budget and number of targets: BookingGuard     *)
(* keeps its types, a row priced from rate cells has them from a page that   *)
(* was cut off the network, one browser runs at a time, and a refusal of the *)
(* site ends the collection.  The invariant follows each request: while the barrier has no *)
(* doubt, one that is held or on the wire is pending or still to be told;    *)
(* after a verified handoff, one on the wire is still to be told or seen; and *)
(* a connection that is gone has delivered all it had to tell.               *)
EXTENDS BookingGuardProps, FiniteSetTheorems, TLAPS

-----------------------------------------------------------------------------
(* Types.                                                                    *)

LEMMA FailedType ==
    ASSUME NEW g \in Guard
    PROVE  /\ Failed(g) \in Guard
           /\ \A b \in BOOLEAN : FailedIf(b, g) \in Guard
  BY DEF Failed, FailedIf, Guard

LEMMA NewTypes ==
    /\ NewGuard \in Guard /\ NewBarrier \in Barrier /\ Disposed \in Barrier
    /\ NewBrowser \in Browser /\ NewCapture \in Capture
  <1>1. 0 \in 0..Budget + 1
    BY GuardAssumption
  <1>2. NewBarrier \in Barrier
    BY <1>1 DEF NewBarrier, Barrier
  <1>3. Disposed \in Barrier
    BY <1>2 DEF Disposed, Barrier
  <1>4. NewGuard \in Guard /\ NewBrowser \in Browser /\ NewCapture \in Capture
    BY DEF NewGuard, Guard, NewBrowser, Browser, NewCapture, Capture
  <1>. QED
    BY <1>2, <1>3, <1>4

\* Each change of what the page yielded keeps its type.
LEMMA CaptureTypes ==
    ASSUME TypeOK, NEW b \in BOOLEAN, NEW p \in {"none", "cells", "text"}
    PROVE  /\ [capture EXCEPT !.block = b] \in Capture
           /\ [capture EXCEPT !.text = TRUE] \in Capture
           /\ [capture EXCEPT !.text = TRUE, !.block = b] \in Capture
           /\ [capture EXCEPT !.cells = TRUE] \in Capture
           /\ [capture EXCEPT !.price = p] \in Capture
  BY DEF TypeOK, Capture

LEMMA EmptySeen == Cardinality({}) <= Budget
  BY FS_EmptySet, GuardAssumption

LEMMA TypeInit == Init => TypeOK
  <1>1. [NewBrowser EXCEPT !.proc = "none"] \in Browser
    BY DEF NewBrowser, Browser
  <1>2. MaxTargets \in 0..MaxTargets
    BY GuardAssumption
  <1>. QED
    BY <1>1, <1>2, NewTypes, EmptySeen DEF Init, TypeOK, Pc

LEMMA SeenGrows ==
    ASSUME NEW S \in SUBSET Requests, NEW r \in Requests, Cardinality(S) <= Budget,
           ~(Cardinality(S) >= Budget /\ r \notin S)
    PROVE  Cardinality(S \cup {r}) <= Budget
  <1>1. IsFiniteSet(S) /\ Cardinality(S) \in Nat
    BY FS_Subset, FS_CardinalityType, GuardAssumption
  <1>2. CASE r \in S
    <2>1. S \cup {r} = S
      BY <1>2
    <2>. QED
      BY <2>1
  <1>3. CASE r \notin S
    <2>1. Cardinality(S \cup {r}) = Cardinality(S) + 1
      BY <1>1, <1>3, FS_AddElement
    <2>. QED
      BY <1>1, <1>3, <2>1, GuardAssumption
  <1>. QED
    BY <1>2, <1>3

\* The types of each component after a step.
LEMMA VisitType ==
    ASSUME TypeOK, Visit
    PROVE  TypeOK'
  <1>. USE GuardAssumption DEF TypeOK, Pc
  <1>1. CASE OpenTarget
    BY <1>1, NewTypes, EmptySeen DEF OpenTarget
  <1>2. CASE SkipTarget \/ LaunchFails \/ SetUp \/ NoTargetsLeft \/ Prepare \/ Load \/ Abandon
    BY <1>2 DEF SkipTarget, LaunchFails, SetUp, NoTargetsLeft, Prepare, Load,
       Abandon, routing, page
  <1>3. ASSUME Cleanup PROVE barrier' \in Barrier /\ pc' \in Pc
    BY <1>3, NewTypes DEF Cleanup
  <1>4. ASSUME Kill PROVE browser' \in Browser
    BY <1>4 DEF Kill, Browser
  <1>5. CASE PrepareFails \/ LoadFails \/ DocumentChanges \/ NotQuiet
    <2>1. capture' \in Capture
      BY <1>5, CaptureTypes DEF PrepareFails, LoadFails, DocumentChanges, NotQuiet
    <2>. QED
      BY <1>3, <1>5, <2>1, FailedType DEF PrepareFails, LoadFails,
         DocumentChanges, NotQuiet, Guard, routing, page
  <1>6. ASSUME CheckpointClear \/ CheckpointFails PROVE guard' \in Guard
    <2>1. /\ [guard EXCEPT !.verified = FALSE] \in Guard
          /\ [guard EXCEPT !.blocked = TRUE, !.hardStop = TRUE] \in Guard
          /\ Failed(guard) \in Guard
      BY DEF Guard, Failed
    <2>. QED
      BY <1>6, <2>1 DEF CheckpointClear, CheckpointFails
  <1>7. CASE Check \/ Read \/ FinalCheckpoint
    <2>1. CASE Check
      BY <1>3, <1>6, <2>1 DEF Check, routing, page
    <2>2. CASE Read
      <3>1. Cleanup /\ (CheckpointClear \/ CheckpointFails)
        BY <2>2 DEF Read
      <3>2. capture' \in Capture
        BY <2>2, CaptureTypes DEF Read
      <3>. QED
        BY <1>3, <1>6, <2>2, <3>1, <3>2 DEF Read, routing, page
    <2>3. CASE FinalCheckpoint
      BY <1>6, <2>3 DEF FinalCheckpoint, routing, page
    <2>. QED
      BY <1>7, <2>1, <2>2, <2>3
  <1>8. CASE Quiet
    BY <1>8 DEF Quiet, Barrier, routing, page
  <1>9. CASE Arm
    <2>1. guard' \in Guard
      BY <1>9 DEF Arm, Guard, FailedIf, Failed
    <2>2. barrier' \in Barrier
      BY <1>9, NewTypes DEF Arm
    <2>3. pc' \in Pc /\ leaked' \in SUBSET Requests
      BY <1>9 DEF Arm, Sent
    <2>. QED
      BY <1>9, <2>1, <2>2, <2>3 DEF Arm, routing
  <1>10. CASE Close \/ Killed \/ KillFails \/ Finish
    <2>1. guard' \in Guard
      BY <1>10 DEF Close, Killed, KillFails, Finish, Guard, FailedIf, Failed
    <2>. QED
      BY <1>10, <2>1 DEF Close, Killed, KillFails, Finish, routing, page
  <1>11. CASE Drained \/ DrainTimesOut \/ Throws
    BY <1>4, <1>11, FailedType DEF Drained, DrainTimesOut, Throws, routing,
       page
  <1>12. CASE Look
    <2>1. capture' \in Capture /\ (pc' = "check" \/ Cleanup)
      BY <1>12, CaptureTypes DEF Look
    <2>. QED
      BY <1>3, <1>12, <2>1 DEF Look, routing, page
  <1>13. CASE Record
    <2>1. PICK p \in {"none", "cells", "text"} : capture' = [capture EXCEPT !.price = p]
      BY <1>13 DEF Record, Prices
    <2>. QED
      BY <1>13, <2>1, CaptureTypes DEF Record, routing, page
  <1>. QED
    BY <1>1, <1>2, <1>5, <1>7, <1>8, <1>9, <1>10, <1>11, <1>12, <1>13 DEF Visit

LEMMA BarrierType ==
    ASSUME TypeOK, NEW r \in Requests, BarrierStart(r) \/ BarrierFinish(r)
    PROVE  barrier' \in Barrier
  <1>1. CASE BarrierStart(r)
    <2>1. CASE ~barrier.watching
      BY <1>1, <2>1 DEF BarrierStart, TypeOK
    <2>2. CASE barrier.watching
      <3>1. barrier.heard \in 0..Budget + 1 /\ barrier.pending \in SUBSET Requests
        BY DEF TypeOK, Barrier
      <3>2. (IF barrier.heard > Budget THEN barrier.heard ELSE barrier.heard + 1)
                \in 0..Budget + 1
        BY <3>1, GuardAssumption
      <3>3. PICK b \in BOOLEAN, P \in SUBSET Requests :
              barrier' = [barrier EXCEPT !.quiet = FALSE,
                  !.heard = IF @ > Budget THEN @ ELSE @ + 1,
                  !.unverified = b, !.pending = P]
        BY <1>1, <2>2, <3>1 DEF BarrierStart, TypeOK, Barrier
      <3>. QED
        BY <3>2, <3>3 DEF TypeOK, Barrier
    <2>. QED
      BY <2>1, <2>2
  <1>2. CASE BarrierFinish(r)
    BY <1>2 DEF BarrierFinish, Barrier, TypeOK
  <1>. QED
    BY <1>1, <1>2

LEMMA HearType ==
    ASSUME TypeOK, NEW r \in Requests,
           \/ HearRequest(r) \/ HearEnd(r) \/ RouteFallback(r) \/ RouteAbort(r)
           \/ FallbackSettles(r) \/ FallbackFails(r) \/ AbortSettles(r) \/ AbortFails(r)
    PROVE  TypeOK'
  <1>. USE GuardAssumption DEF TypeOK
  <1>1. CASE HearRequest(r)
    <2>1. seen' \in SUBSET Requests /\ Cardinality(seen') <= Budget
      BY <1>1, SeenGrows DEF HearRequest
    <2>. QED
      BY <1>1, <2>1, BarrierType, FailedType DEF HearRequest, collector
  <1>2. CASE HearEnd(r)
    <2>1. guard' \in Guard
      BY <1>2 DEF HearEnd, Guard
    <2>. QED
      BY <1>2, <2>1, BarrierType DEF HearEnd, collector, routing
  <1>3. CASE RouteFallback(r)
    BY <1>3 DEF RouteFallback, Callback, collector, page
  <1>4. CASE RouteAbort(r)
    <2>1. guard' \in Guard
      BY <1>4 DEF RouteAbort, Guard, FailedIf, Failed
    <2>2. \A q \in continuing' : stage'[q] < 2
      BY <1>4 DEF RouteAbort, Callback
    <2>. QED
      BY <1>4, <2>1, <2>2 DEF RouteAbort, collector
  <1>5. CASE FallbackSettles(r)
    <2>1. stage[r] + 1 \in 0..2
      BY <1>5 DEF FallbackSettles
    <2>2. stage' \in [Requests -> 0..2]
      BY <1>5, <2>1 DEF FallbackSettles
    <2>3. req' \in [Requests -> {"none", "held", "wire", "refused", "ended"}]
      BY <1>5 DEF FallbackSettles
    <2>4. leaked' \in SUBSET Requests
      BY <1>5 DEF FallbackSettles, Sent
    <2>5. \A q \in continuing' : stage'[q] < 2
      BY <1>5 DEF FallbackSettles
    <2>. QED
      BY <1>5, <2>2, <2>3, <2>4, <2>5 DEF FallbackSettles, collector
  <1>6. CASE FallbackFails(r)
    <2>1. guard' \in Guard
      BY <1>6 DEF FallbackFails, Guard, FailedIf, Failed
    <2>2. \A q \in continuing' : stage'[q] < 2
      BY <1>6 DEF FallbackFails
    <2>. QED
      BY <1>6, <2>1, <2>2 DEF FallbackFails, collector
  <1>7. CASE AbortSettles(r)
    <2>1. guard' \in Guard
      BY <1>7 DEF AbortSettles, Guard, FailedIf, Failed
    <2>. QED
      BY <1>7, <2>1 DEF AbortSettles, collector, page
  <1>8. CASE AbortFails(r)
    BY <1>8, FailedType DEF AbortFails, collector, page
  <1>. QED
    BY <1>1, <1>2, <1>3, <1>4, <1>5, <1>6, <1>7, <1>8

LEMMA OutsideType ==
    ASSUME TypeOK, Outside
    PROVE  TypeOK'
  <1>. USE DEF TypeOK
  <1>1. ASSUME NEW r \in Requests, Emit(r) \/ Answer(r) \/ Refuse(r) PROVE TypeOK'
    BY <1>1 DEF Emit, Answer, Refuse, collector, routing
  <1>2. ASSUME NEW r \in Requests, NEW s \in Requests, Redirect(r, s) PROVE TypeOK'
    BY <1>2 DEF Redirect, Sent, collector, routing
  <1>3. CASE UnexpectedPage
    BY <1>3, FailedType DEF UnexpectedPage, Kill, Browser, collector, routing,
       page
  <1>4. CASE ProcessExits \/ CallHangs
    BY <1>4 DEF ProcessExits, CallHangs, Browser, collector, routing, page
  <1>5. CASE Disconnect
    BY <1>5, FailedType DEF Disconnect, Browser, Guard, collector, routing,
       page
  <1>. QED
    BY <1>1, <1>2, <1>3, <1>4, <1>5 DEF Outside

LEMMA TypeStep == TypeOK /\ [Next]_vars => TypeOK'
  <1>1. ASSUME TypeOK, UNCHANGED vars PROVE TypeOK'
    BY <1>1 DEF TypeOK, vars, collector, routing, page
  <1>. QED
    BY <1>1, VisitType, HearType, OutsideType DEF Next, Hear

\* The guarded collection is well typed: every record of the guard, the
\* barrier and the browser keeps its fields, and no more than the budget of
\* requests is tracked.
THEOREM GuardTypes == Spec => []TypeOK
  BY TypeInit, TypeStep, PTL DEF Spec
-----------------------------------------------------------------------------
(* The invariant.                                                            *)

Early == {"open", "prepare", "load", "look", "check", "quiet", "arm"}

PageInv ==
    /\ \A r \in leaked : req[r] \in {"wire", "ended"}
    /\ \A r \in aborted : req[r] = "refused"
    /\ \A r \in toEnd : req[r] \in {"ended", "refused"}
    /\ \A r \in continuing : req[r] = "held"
    /\ continuing \cap aborting = {}

BarrierInv ==
    barrier.watching /\ ~barrier.unverified =>
        \A r \in Requests : req[r] \in {"held", "wire"} =>
                              r \in toTell \cup barrier.pending

ConnectionInv ==
    browser.gone => browser.proc = "exited" /\ toTell = {} /\ toEnd = {}

HandoffInv ==
    /\ pc \in Early => ~capture.cells /\ guard.handoff = "none"
    /\ pc = "read" => guard.handoff = "good"
    /\ capture.cells => guard.handoff = "good"
    /\ guard.handoff = "good" =>
           /\ guard.switched /\ continuing = {}
           /\ guard.verified => leaked \subseteq toTell \cup seen
    /\ guard.handoff # "good" => leaked = {}

VerdictInv ==
    /\ guard.dead => browser.gone
    /\ guard.hardStop \/ limited \subseteq toEnd
    /\ pc = "record" /\ guard.verified => guard.dead /\ seen \subseteq aborted
    /\ pc = "record" => guard.dead \/ guard.hardStop
    /\ pc = "next" => browser.proc # "alive" /\ limited = {}

\* A row has its price when its target is done, and what the verdict said of
\* the page holds for good: its process is dead.
RowInv ==
    /\ capture.price # "none" => pc \in {"next"} \cup Over
    /\ capture.price = "cells" =>
           /\ guard.dead /\ guard.handoff = "good"
           /\ leaked = {} /\ seen \subseteq aborted

InvParts == PageInv /\ BarrierInv /\ ConnectionInv /\ HandoffInv /\ VerdictInv
IInv == TypeOK /\ InvParts /\ RowInv

\* What the collector's own steps leave alone.
LEMMA VisitQuiet ==
    ASSUME Visit, ~OpenTarget
    PROVE  /\ UNCHANGED <<routing, req, stage, toTell, toEnd, limited>>
           /\ Arm \/ UNCHANGED leaked
  BY DEF Visit, SkipTarget, LaunchFails, SetUp, NoTargetsLeft, Prepare, PrepareFails,
     Load, LoadFails, Look, DocumentChanges, Check, Quiet, NotQuiet, Read,
     FinalCheckpoint, Close, Drained, DrainTimesOut, Killed, KillFails, Finish,
     Record, Throws, Abandon, Arm, routing, page

LEMMA VisitPage ==
    ASSUME IInv, Visit
    PROVE  PageInv'
  <1>1. CASE OpenTarget
    BY <1>1 DEF OpenTarget, PageInv
  <1>2. CASE Arm
    BY <1>2, VisitQuiet DEF IInv, InvParts, PageInv, Arm, Sent, routing
  <1>3. CASE ~OpenTarget /\ ~Arm
    BY <1>3, VisitQuiet DEF IInv, InvParts, PageInv, routing
  <1>. QED
    BY <1>1, <1>2, <1>3

LEMMA VisitBarrier ==
    ASSUME IInv, Visit
    PROVE  BarrierInv'
  <1>1. CASE OpenTarget
    BY <1>1 DEF OpenTarget, BarrierInv
  <1>2. CASE ~OpenTarget
    <2>1. \/ UNCHANGED barrier \/ ~barrier'.watching
          \/ barrier' = [barrier EXCEPT !.quiet = TRUE]
      BY <1>2 DEF Visit, SkipTarget, LaunchFails, SetUp, NoTargetsLeft, Prepare,
         PrepareFails, Load, LoadFails, Look, DocumentChanges, Check, Quiet,
         NotQuiet, Read, FinalCheckpoint, Close, Drained, DrainTimesOut,
         Killed, KillFails, Finish, Record, Throws, Abandon, Arm, Cleanup,
         Disposed, NewBarrier, IInv, InvParts, TypeOK, Barrier
    <2>. QED
      BY <1>2, <2>1, VisitQuiet DEF IInv, InvParts, BarrierInv, TypeOK, Barrier
  <1>. QED
    BY <1>1, <1>2

LEMMA VisitConnection ==
    ASSUME IInv, Visit
    PROVE  ConnectionInv'
  <1>1. CASE OpenTarget
    BY <1>1 DEF OpenTarget, ConnectionInv, NewBrowser
  <1>2. CASE ~OpenTarget
    <2>1. UNCHANGED <<browser.gone, browser.proc>>
      BY <1>2 DEF Visit, SkipTarget, LaunchFails, SetUp, NoTargetsLeft, Prepare,
         PrepareFails, Load, LoadFails, Look, DocumentChanges, Check, Quiet,
         NotQuiet, Read, FinalCheckpoint, Close, Drained, DrainTimesOut,
         Killed, KillFails, Finish, Record, Throws, Abandon, Arm, Cleanup,
         Kill, IInv, InvParts, TypeOK, Browser
    <2>. QED
      BY <1>2, <2>1, VisitQuiet DEF IInv, InvParts, ConnectionInv
  <1>. QED
    BY <1>1, <1>2

LEMMA VisitHandoff ==
    ASSUME IInv, Visit
    PROVE  HandoffInv'
  <1>. USE DEF IInv, InvParts, HandoffInv, Early, TypeOK, Guard, Browser,
     Capture, routing, page
  <1>1. CASE OpenTarget
    BY <1>1 DEF OpenTarget, NewGuard, NewBrowser, NewCapture
  <1>2. CASE SkipTarget
    BY <1>2 DEF SkipTarget
  <1>3. CASE LaunchFails
    BY <1>3 DEF LaunchFails
  <1>4. CASE NoTargetsLeft
    BY <1>4 DEF NoTargetsLeft
  <1>5. CASE Prepare
    BY <1>5 DEF Prepare
  <1>6. CASE PrepareFails
    BY <1>6 DEF PrepareFails, Cleanup, Failed
  <1>7. CASE Load
    BY <1>7 DEF Load
  <1>8. CASE LoadFails
    BY <1>8 DEF LoadFails, Cleanup
  <1>9. CASE DocumentChanges
    BY <1>9 DEF DocumentChanges, Cleanup, Failed
  <1>10. CASE Check
    BY <1>10 DEF Check, Cleanup, CheckpointClear, CheckpointFails, Failed
  <1>11. CASE Quiet
    BY <1>11 DEF Quiet
  <1>12. CASE NotQuiet
    BY <1>12 DEF NotQuiet, Cleanup
  <1>13. CASE Arm
    <2>1. CASE QuietHandoff /\ continuing = {}
      <3>1. /\ guard' = [guard EXCEPT !.switched = TRUE, !.armed = TRUE, !.handoff = "good"]
            /\ pc' = "read" /\ leaked = {}
        BY <1>13, <2>1 DEF Arm
      <3>2. leaked' = leaked \cup {r \in Requests : req[r] = "wire"}
        BY <1>13, <3>1 DEF Arm, Sent
      <3>3. leaked' \subseteq toTell
        BY <2>1, <3>1, <3>2 DEF QuietHandoff, BarrierInv, Barrier
      <3>. QED
        BY <1>13, <2>1, <3>1, <3>3 DEF Arm
    <2>2. CASE ~(QuietHandoff /\ continuing = {})
      <3>1. guard'.handoff = "bad" /\ pc' = "final"
        BY <1>13, <2>2 DEF Arm, FailedIf, Failed
      <3>. QED
        BY <1>13, <3>1 DEF Arm, Sent
    <2>. QED
      BY <2>1, <2>2
  <1>14. CASE Read
    BY <1>14 DEF Read, Cleanup, CheckpointClear, CheckpointFails, Failed
  <1>15. CASE FinalCheckpoint
    BY <1>15 DEF FinalCheckpoint, CheckpointClear, CheckpointFails, Failed
  <1>16. CASE Close
    BY <1>16 DEF Close, FailedIf, Failed
  <1>17. CASE Drained
    BY <1>17 DEF Drained, Kill
  <1>18. CASE DrainTimesOut
    BY <1>18 DEF DrainTimesOut, Kill, Failed
  <1>19. CASE Killed
    BY <1>19 DEF Killed
  <1>20. CASE KillFails
    BY <1>20 DEF KillFails, Failed
  <1>21. CASE Finish
    BY <1>21 DEF Finish, FailedIf, Failed, Unmatched
  <1>22. CASE Record
    BY <1>22 DEF Record
  <1>23. CASE Throws
    BY <1>23 DEF Throws, Kill
  <1>24. CASE Abandon
    BY <1>24 DEF Abandon
  <1>25. CASE SetUp
    BY <1>25 DEF SetUp
  <1>26. CASE Look
    BY <1>26 DEF Look, Cleanup
  <1>. QED
    BY <1>1, <1>2, <1>3, <1>4, <1>5, <1>6, <1>7, <1>8, <1>9, <1>10, <1>11,
       <1>12,
       <1>13, <1>14, <1>15, <1>16, <1>17, <1>18, <1>19, <1>20, <1>21, <1>22, <1>23,
       <1>24, <1>25, <1>26 DEF Visit

LEMMA VisitVerdict ==
    ASSUME IInv, Visit
    PROVE  VerdictInv'
  <1>. USE DEF IInv, InvParts, VerdictInv, Early, TypeOK, Guard, Browser,
     routing, page
  <1>1. CASE OpenTarget
    BY <1>1 DEF OpenTarget, NewGuard, NewBrowser, NewCapture
  <1>2. CASE SkipTarget
    BY <1>2 DEF SkipTarget
  <1>3. CASE LaunchFails
    BY <1>3 DEF LaunchFails
  <1>4. CASE NoTargetsLeft
    BY <1>4 DEF NoTargetsLeft
  <1>5. CASE Prepare
    BY <1>5 DEF Prepare
  <1>6. CASE PrepareFails
    BY <1>6 DEF PrepareFails, Cleanup, Failed
  <1>7. CASE Load
    BY <1>7 DEF Load
  <1>8. CASE LoadFails
    BY <1>8 DEF LoadFails, Cleanup
  <1>9. CASE DocumentChanges
    BY <1>9 DEF DocumentChanges, Cleanup, Failed
  <1>10. CASE Check
    BY <1>10 DEF Check, Cleanup, CheckpointClear, CheckpointFails, Failed
  <1>11. CASE Quiet
    BY <1>11 DEF Quiet
  <1>12. CASE NotQuiet
    BY <1>12 DEF NotQuiet, Cleanup
  <1>13. CASE Arm
    BY <1>13 DEF Arm, FailedIf, Failed, QuietHandoff, Sent
  <1>14. CASE Read
    BY <1>14 DEF Read, Cleanup, CheckpointClear, CheckpointFails, Failed
  <1>15. CASE FinalCheckpoint
    BY <1>15 DEF FinalCheckpoint, CheckpointClear, CheckpointFails, Failed
  <1>16. CASE Close
    BY <1>16 DEF Close, FailedIf, Failed
  <1>17. CASE Drained
    BY <1>17 DEF Drained, Kill
  <1>18. CASE DrainTimesOut
    BY <1>18 DEF DrainTimesOut, Kill, Failed
  <1>19. CASE Killed
    BY <1>19 DEF Killed
  <1>20. CASE KillFails
    BY <1>20 DEF KillFails, Failed
  <1>21. CASE Finish
    BY <1>21 DEF Finish, FailedIf, Failed, Unmatched
  <1>22. CASE Record
    BY <1>22 DEF Record, ConnectionInv
  <1>23. CASE Throws
    BY <1>23 DEF Throws, Kill
  <1>24. CASE Abandon
    BY <1>24 DEF Abandon
  <1>25. CASE SetUp
    BY <1>25 DEF SetUp
  <1>26. CASE Look
    BY <1>26 DEF Look, Cleanup
  <1>. QED
    BY <1>1, <1>2, <1>3, <1>4, <1>5, <1>6, <1>7, <1>8, <1>9, <1>10, <1>11,
       <1>12,
       <1>13, <1>14, <1>15, <1>16, <1>17, <1>18, <1>19, <1>20, <1>21, <1>22, <1>23,
       <1>24, <1>25, <1>26 DEF Visit

LEMMA HearParts ==
    ASSUME IInv, NEW r \in Requests,
           \/ HearRequest(r) \/ HearEnd(r) \/ RouteFallback(r) \/ RouteAbort(r)
           \/ FallbackSettles(r) \/ FallbackFails(r) \/ AbortSettles(r) \/ AbortFails(r)
    PROVE  InvParts'
  <1>. USE DEF IInv, InvParts, TypeOK, Guard, collector
  <1>1. CASE HearRequest(r)
    <2>1. PageInv'
      BY <1>1 DEF HearRequest, BarrierStart, Failed, Listening, Over, PageInv,
         ConnectionInv, routing, page
    <2>2. BarrierInv'
      BY <1>1 DEF HearRequest, BarrierStart, Failed, Listening, Over,
         BarrierInv, Barrier, PageInv, ConnectionInv, routing, page
    <2>3. ConnectionInv'
      BY <1>1 DEF HearRequest, BarrierStart, Failed, Listening, Over, PageInv,
         ConnectionInv, routing, page
    <2>4. HandoffInv'
      <3>1. CASE ~guard.switched
        BY <1>1, <3>1 DEF HearRequest, HandoffInv, Early
      <3>2. CASE guard.switched /\ guard' = Failed(guard)
        BY <1>1, <3>2 DEF HearRequest, Failed, HandoffInv, Early
      <3>3. CASE guard.switched /\ seen' = seen \cup {r} /\ guard' = guard
        BY <1>1, <3>3 DEF HearRequest, HandoffInv, Early
      <3>. QED
        BY <1>1, <3>1, <3>2, <3>3 DEF HearRequest
    <2>5. VerdictInv'
      <3>1. guard' = guard \/ guard' = Failed(guard)
        BY <1>1 DEF HearRequest
      <3>2. pc \notin {"next", "record"} /\ pc' = pc
        BY <1>1 DEF HearRequest, Listening
      <3>3. UNCHANGED <<browser, limited, toEnd>>
        BY <1>1 DEF HearRequest
      <3>. QED
        BY <3>1, <3>2, <3>3 DEF Failed, VerdictInv
    <2>. QED
      BY <2>1, <2>2, <2>3, <2>4, <2>5
  <1>2. CASE HearEnd(r)
    <2>1. PageInv'
      BY <1>2 DEF HearEnd, BarrierFinish, Listening, Over, PageInv,
         ConnectionInv, routing, page
    <2>2. BarrierInv'
      BY <1>2 DEF HearEnd, BarrierFinish, Listening, Over, BarrierInv, Barrier,
         PageInv, ConnectionInv, routing, page
    <2>3. ConnectionInv'
      BY <1>2 DEF HearEnd, BarrierFinish, Listening, Over, PageInv,
         ConnectionInv, routing, page
    <2>4. HandoffInv'
      BY <1>2 DEF HearEnd, BarrierFinish, Listening, Over, HandoffInv, Early,
         PageInv, ConnectionInv, routing, page
    <2>5. VerdictInv'
      BY <1>2 DEF HearEnd, BarrierFinish, Listening, Over, VerdictInv, PageInv,
         ConnectionInv, routing, page
    <2>. QED
      BY <2>1, <2>2, <2>3, <2>4, <2>5
  <1>3. CASE RouteFallback(r)
    <2>1. PageInv'
      BY <1>3 DEF RouteFallback, Callback, Denying, PageInv, ConnectionInv,
         routing, page
    <2>2. BarrierInv'
      BY <1>3 DEF RouteFallback, Callback, Denying, BarrierInv, Barrier,
         PageInv, ConnectionInv, routing, page
    <2>3. ConnectionInv'
      BY <1>3 DEF RouteFallback, Callback, Denying, PageInv, ConnectionInv,
         routing, page
    <2>4. HandoffInv'
      BY <1>3 DEF RouteFallback, Callback, Denying, HandoffInv, Early, PageInv,
         ConnectionInv, routing, page
    <2>5. VerdictInv'
      BY <1>3 DEF RouteFallback, Callback, Denying, VerdictInv, PageInv,
         ConnectionInv, routing, page
    <2>. QED
      BY <2>1, <2>2, <2>3, <2>4, <2>5
  <1>4. CASE RouteAbort(r)
    <2>1. PageInv'
      BY <1>4 DEF RouteAbort, Callback, FailedIf, Failed, Denying, PageInv,
         ConnectionInv, routing, page
    <2>2. BarrierInv'
      BY <1>4 DEF RouteAbort, Callback, FailedIf, Failed, Denying, BarrierInv,
         Barrier, PageInv, ConnectionInv, routing, page
    <2>3. ConnectionInv'
      BY <1>4 DEF RouteAbort, Callback, FailedIf, Failed, Denying, PageInv,
         ConnectionInv, routing, page
    <2>4. HandoffInv'
      BY <1>4 DEF RouteAbort, Callback, FailedIf, Failed, Denying, HandoffInv,
         Early, PageInv, ConnectionInv, routing, page
    <2>5. VerdictInv'
      BY <1>4 DEF RouteAbort, Callback, FailedIf, Failed, Denying, VerdictInv,
         PageInv, ConnectionInv, routing, page
    <2>. QED
      BY <2>1, <2>2, <2>3, <2>4, <2>5
  <1>5. CASE FallbackSettles(r)
    <2>1. PageInv'
      BY <1>5 DEF FallbackSettles, Sent, PageInv, ConnectionInv, routing, page
    <2>2. BarrierInv'
      BY <1>5 DEF FallbackSettles, Sent, BarrierInv, Barrier, PageInv,
         ConnectionInv, routing, page
    <2>3. ConnectionInv'
      BY <1>5 DEF FallbackSettles, Sent, PageInv, ConnectionInv, routing, page
    <2>4. HandoffInv'
      BY <1>5 DEF FallbackSettles, Sent, HandoffInv, Early, PageInv,
         ConnectionInv, routing, page
    <2>5. VerdictInv'
      BY <1>5 DEF FallbackSettles, Sent, VerdictInv, PageInv, ConnectionInv,
         routing, page
    <2>. QED
      BY <2>1, <2>2, <2>3, <2>4, <2>5
  <1>6. CASE FallbackFails(r)
    <2>1. PageInv'
      BY <1>6 DEF FallbackFails, FailedIf, Failed, PageInv, ConnectionInv,
         routing, page
    <2>2. BarrierInv'
      BY <1>6 DEF FallbackFails, FailedIf, Failed, BarrierInv, Barrier,
         PageInv, ConnectionInv, routing, page
    <2>3. ConnectionInv'
      BY <1>6 DEF FallbackFails, FailedIf, Failed, PageInv, ConnectionInv,
         routing, page
    <2>4. HandoffInv'
      BY <1>6 DEF FallbackFails, FailedIf, Failed, HandoffInv, Early, PageInv,
         ConnectionInv, routing, page
    <2>5. VerdictInv'
      BY <1>6 DEF FallbackFails, FailedIf, Failed, VerdictInv, PageInv,
         ConnectionInv, routing, page
    <2>. QED
      BY <2>1, <2>2, <2>3, <2>4, <2>5
  <1>7. CASE AbortSettles(r)
    <2>1. PageInv'
      BY <1>7 DEF AbortSettles, FailedIf, Failed, PageInv, ConnectionInv,
         routing, page
    <2>2. BarrierInv'
      BY <1>7 DEF AbortSettles, FailedIf, Failed, BarrierInv, Barrier, PageInv,
         ConnectionInv, routing, page
    <2>3. ConnectionInv'
      BY <1>7 DEF AbortSettles, FailedIf, Failed, PageInv, ConnectionInv,
         routing, page
    <2>4. HandoffInv'
      BY <1>7 DEF AbortSettles, FailedIf, Failed, HandoffInv, Early, PageInv,
         ConnectionInv, routing, page
    <2>5. VerdictInv'
      BY <1>7 DEF AbortSettles, FailedIf, Failed, VerdictInv, PageInv,
         ConnectionInv, routing, page
    <2>. QED
      BY <2>1, <2>2, <2>3, <2>4, <2>5
  <1>8. CASE AbortFails(r)
    <2>1. PageInv'
      BY <1>8 DEF AbortFails, Failed, PageInv, ConnectionInv, routing, page
    <2>2. BarrierInv'
      BY <1>8 DEF AbortFails, Failed, BarrierInv, Barrier, PageInv,
         ConnectionInv, routing, page
    <2>3. ConnectionInv'
      BY <1>8 DEF AbortFails, Failed, PageInv, ConnectionInv, routing, page
    <2>4. HandoffInv'
      BY <1>8 DEF AbortFails, Failed, HandoffInv, Early, PageInv,
         ConnectionInv, routing, page
    <2>5. VerdictInv'
      BY <1>8 DEF AbortFails, Failed, VerdictInv, PageInv, ConnectionInv,
         routing, page
    <2>. QED
      BY <2>1, <2>2, <2>3, <2>4, <2>5
  <1>. QED
    BY <1>1, <1>2, <1>3, <1>4, <1>5, <1>6, <1>7, <1>8

LEMMA OutsideParts ==
    ASSUME IInv, Outside
    PROVE  InvParts'
  <1>. USE DEF IInv, InvParts, TypeOK, Guard, Browser, collector
  <1>1. ASSUME NEW r \in Requests, Emit(r) PROVE InvParts'
    <2>1. PageInv'
      BY <1>1 DEF Emit, Over, PageInv, ConnectionInv, routing, page
    <2>2. BarrierInv'
      BY <1>1 DEF Emit, Over, BarrierInv, Barrier, PageInv, ConnectionInv,
         routing, page
    <2>3. ConnectionInv'
      BY <1>1 DEF Emit, Over, PageInv, ConnectionInv, routing, page
    <2>4. HandoffInv'
      BY <1>1 DEF Emit, Over, HandoffInv, Early, PageInv, ConnectionInv,
         routing, page
    <2>5. VerdictInv'
      BY <1>1 DEF Emit, Over, VerdictInv, PageInv, ConnectionInv, routing, page
    <2>. QED
      BY <2>1, <2>2, <2>3, <2>4, <2>5
  <1>2. ASSUME NEW r \in Requests, Answer(r) PROVE InvParts'
    <2>1. PageInv'
      BY <1>2 DEF Answer, Over, PageInv, ConnectionInv, routing, page
    <2>2. BarrierInv'
      BY <1>2 DEF Answer, Over, BarrierInv, Barrier, PageInv, ConnectionInv,
         routing, page
    <2>3. ConnectionInv'
      BY <1>2 DEF Answer, Over, PageInv, ConnectionInv, routing, page
    <2>4. HandoffInv'
      BY <1>2 DEF Answer, Over, HandoffInv, Early, PageInv, ConnectionInv,
         routing, page
    <2>5. VerdictInv'
      BY <1>2 DEF Answer, Over, VerdictInv, PageInv, ConnectionInv, routing,
         page
    <2>. QED
      BY <2>1, <2>2, <2>3, <2>4, <2>5
  <1>3. ASSUME NEW r \in Requests, Refuse(r) PROVE InvParts'
    <2>1. PageInv'
      BY <1>3 DEF Refuse, Over, PageInv, ConnectionInv, routing, page
    <2>2. BarrierInv'
      BY <1>3 DEF Refuse, Over, BarrierInv, Barrier, PageInv, ConnectionInv,
         routing, page
    <2>3. ConnectionInv'
      BY <1>3 DEF Refuse, Over, PageInv, ConnectionInv, routing, page
    <2>4. HandoffInv'
      BY <1>3 DEF Refuse, Over, HandoffInv, Early, PageInv, ConnectionInv,
         routing, page
    <2>5. VerdictInv'
      BY <1>3 DEF Refuse, Over, VerdictInv, PageInv, ConnectionInv, routing,
         page
    <2>. QED
      BY <2>1, <2>2, <2>3, <2>4, <2>5
  <1>4. ASSUME NEW r \in Requests, NEW s \in Requests, Redirect(r, s) PROVE InvParts'
    <2>1. PageInv'
      BY <1>4 DEF Redirect, Sent, PageInv, ConnectionInv, routing, page
    <2>2. BarrierInv'
      BY <1>4 DEF Redirect, Sent, BarrierInv, Barrier, PageInv, ConnectionInv,
         routing, page
    <2>3. ConnectionInv'
      BY <1>4 DEF Redirect, Sent, PageInv, ConnectionInv, routing, page
    <2>4. HandoffInv'
      BY <1>4 DEF Redirect, Sent, HandoffInv, Early, PageInv, ConnectionInv,
         routing, page
    <2>5. VerdictInv'
      BY <1>4 DEF Redirect, Sent, VerdictInv, PageInv, ConnectionInv, routing,
         page
    <2>. QED
      BY <2>1, <2>2, <2>3, <2>4, <2>5
  <1>5. CASE UnexpectedPage
    <2>1. PageInv'
      BY <1>5 DEF UnexpectedPage, Kill, Failed, Listening, Over, PageInv,
         ConnectionInv, routing, page
    <2>2. BarrierInv'
      BY <1>5 DEF UnexpectedPage, Kill, Failed, Listening, Over, BarrierInv,
         Barrier, PageInv, ConnectionInv, routing, page
    <2>3. ConnectionInv'
      BY <1>5 DEF UnexpectedPage, Kill, Failed, Listening, Over, PageInv,
         ConnectionInv, routing, page
    <2>4. HandoffInv'
      BY <1>5 DEF UnexpectedPage, Kill, Failed, Listening, Over, HandoffInv,
         Early, PageInv, ConnectionInv, routing, page
    <2>5. VerdictInv'
      BY <1>5 DEF UnexpectedPage, Kill, Failed, Listening, Over, VerdictInv,
         PageInv, ConnectionInv, routing, page
    <2>. QED
      BY <2>1, <2>2, <2>3, <2>4, <2>5
  <1>6. CASE ProcessExits
    <2>1. PageInv'
      BY <1>6 DEF ProcessExits, Over, PageInv, ConnectionInv, routing, page
    <2>2. BarrierInv'
      BY <1>6 DEF ProcessExits, Over, BarrierInv, Barrier, PageInv,
         ConnectionInv, routing, page
    <2>3. ConnectionInv'
      BY <1>6 DEF ProcessExits, Over, PageInv, ConnectionInv, routing, page
    <2>4. HandoffInv'
      BY <1>6 DEF ProcessExits, Over, HandoffInv, Early, PageInv,
         ConnectionInv, routing, page
    <2>5. VerdictInv'
      BY <1>6 DEF ProcessExits, Over, VerdictInv, PageInv, ConnectionInv,
         routing, page
    <2>. QED
      BY <2>1, <2>2, <2>3, <2>4, <2>5
  <1>7. CASE Disconnect
    <2>1. PageInv'
      BY <1>7 DEF Disconnect, FailedIf, Failed, PageInv, ConnectionInv,
         routing, page
    <2>2. BarrierInv'
      BY <1>7 DEF Disconnect, FailedIf, Failed, BarrierInv, Barrier, PageInv,
         ConnectionInv, routing, page
    <2>3. ConnectionInv'
      BY <1>7 DEF Disconnect, FailedIf, Failed, PageInv, ConnectionInv,
         routing, page
    <2>4. HandoffInv'
      BY <1>7 DEF Disconnect, FailedIf, Failed, HandoffInv, Early, PageInv,
         ConnectionInv, routing, page
    <2>5. VerdictInv'
      BY <1>7 DEF Disconnect, FailedIf, Failed, VerdictInv, PageInv,
         ConnectionInv, routing, page
    <2>. QED
      BY <2>1, <2>2, <2>3, <2>4, <2>5
  <1>8. CASE CallHangs
    BY <1>8 DEF CallHangs, PageInv, BarrierInv, ConnectionInv, HandoffInv,
       VerdictInv, routing, page
  <1>. QED
    BY <1>1, <1>2, <1>3, <1>4, <1>5, <1>6, <1>7, <1>8 DEF Outside

LEMMA PartsInit == Init => InvParts /\ RowInv
  BY DEF Init, InvParts, PageInv, BarrierInv, ConnectionInv, HandoffInv,
     VerdictInv, RowInv, Early, NewGuard, NewBarrier, NewBrowser, NewCapture

\* Usable cells come from a page that was cut off: what was on the wire is
\* told before the connection is gone, is then among the requests seen, and
\* no abort of it can succeed.
LEMMA UsableIsCutOff ==
    ASSUME IInv, pc = "record", Usable
    PROVE  guard.dead /\ guard.handoff = "good" /\ leaked = {} /\ seen \subseteq aborted
  <1>1. guard.handoff = "good" /\ guard.dead /\ seen \subseteq aborted
    BY DEF IInv, InvParts, HandoffInv, VerdictInv, Usable
  <1>2. leaked \subseteq seen
    BY <1>1 DEF IInv, InvParts, HandoffInv, VerdictInv, ConnectionInv, Usable
  <1>3. leaked \cap aborted = {}
    BY DEF IInv, InvParts, PageInv
  <1>. QED
    BY <1>1, <1>2, <1>3

\* Only Record prices a row; afterwards the page is dead.
LEMMA RowStep ==
    ASSUME IInv, Next
    PROVE  RowInv'
  <1>1. CASE OpenTarget
    BY <1>1 DEF OpenTarget, RowInv, NewCapture
  <1>2. CASE Record
    <2>1. PICK one \in BOOLEAN : \E p \in Prices(one) : capture' = [capture EXCEPT !.price = p]
      BY <1>2 DEF Record
    <2>2. PICK p \in Prices(one) : capture' = [capture EXCEPT !.price = p]
      BY <2>1
    <2>3. capture'.price = p
      BY <2>2 DEF IInv, TypeOK, Capture
    <2>4. p = "cells" => Usable
      BY <2>2 DEF Prices
    <2>5. pc = "record" /\ pc' \in {"next"} \cup Over /\ UNCHANGED <<guard, leaked, seen, aborted>>
      BY <1>2 DEF Record, Over, routing, page
    <2>. QED
      BY <2>3, <2>4, <2>5, UsableIsCutOff DEF RowInv
  <1>3. CASE capture'.price = "none"
    BY <1>3 DEF RowInv
  <1>4. CASE Visit /\ ~OpenTarget /\ ~Record /\ capture'.price # "none"
    <2>1. capture'.price = capture.price
      BY <1>4 DEF Visit, SkipTarget, LaunchFails, SetUp, NoTargetsLeft, Prepare,
         PrepareFails, Load, LoadFails, Look, DocumentChanges, Check, Quiet,
         NotQuiet, Read, FinalCheckpoint, Close, Drained, DrainTimesOut,
         Killed, KillFails, Finish, Throws, Abandon, Arm, IInv, TypeOK, Capture
    <2>2. pc \in {"next"} \cup Over
      BY <1>4, <2>1 DEF IInv, RowInv
    <2>3. SkipTarget \/ LaunchFails \/ NoTargetsLeft
      BY <1>4, <2>2 DEF Over, Visit, SetUp, Prepare, PrepareFails, Load, LoadFails,
         Look, DocumentChanges, Check, Quiet, NotQuiet, Read, FinalCheckpoint,
         Close, Drained, DrainTimesOut, Killed, KillFails, Finish, Throws,
         Abandon, Arm
    <2>. QED
      BY <2>1, <2>3 DEF SkipTarget, LaunchFails, NoTargetsLeft, Over, IInv, RowInv,
         routing, page
  <1>5. CASE Hear \/ Outside
    <2>1. UNCHANGED <<pc, capture>>
      BY <1>5 DEF Hear, Outside, HearRequest, HearEnd, RouteFallback, RouteAbort,
         FallbackSettles, FallbackFails, AbortSettles, AbortFails, Emit, Answer,
         Refuse, Redirect, UnexpectedPage, ProcessExits, Disconnect, CallHangs,
         collector
    <2>2. CASE capture.price # "cells"
      BY <2>1, <2>2 DEF IInv, RowInv
    <2>3. CASE capture.price = "cells"
      <3>1. pc \in {"next"} \cup Over /\ guard.dead /\ browser.proc = "exited"
        BY <2>3 DEF IInv, InvParts, RowInv, VerdictInv, ConnectionInv
      <3>2. ~Listening
        BY <3>1 DEF Listening, Over
      <3>3. UNCHANGED <<seen, leaked>>
        BY <1>5, <3>1, <3>2 DEF Hear, Outside, HearRequest, HearEnd, RouteFallback,
           RouteAbort, Callback, FallbackSettles, FallbackFails, AbortSettles,
           AbortFails, Emit, Answer, Refuse, Redirect, UnexpectedPage,
           ProcessExits, Disconnect, CallHangs, routing, page
      <3>4. aborted \subseteq aborted'
        BY <1>5, <3>2 DEF Hear, Outside, HearRequest, HearEnd, RouteFallback,
           RouteAbort, Callback, FallbackSettles, FallbackFails, AbortSettles,
           AbortFails, Emit, Answer, Refuse, Redirect, UnexpectedPage,
           ProcessExits, Disconnect, CallHangs, routing
      <3>5. guard'.dead = guard.dead /\ guard'.handoff = guard.handoff
        BY <1>5, <3>2 DEF Hear, Outside, HearRequest, HearEnd, RouteFallback,
           RouteAbort, Callback, FallbackSettles, FallbackFails, AbortSettles,
           AbortFails, Emit, Answer, Refuse, Redirect, UnexpectedPage,
           ProcessExits, Disconnect, CallHangs, Failed, FailedIf, IInv, TypeOK,
           Guard
      <3>. QED
        BY <2>1, <2>3, <3>3, <3>4, <3>5 DEF IInv, RowInv
    <2>. QED
      BY <2>2, <2>3
  <1>. QED
    BY <1>1, <1>2, <1>3, <1>4, <1>5 DEF Next

LEMMA PartsStep == IInv /\ [Next]_vars => IInv'
  <1>. SUFFICES ASSUME IInv, [Next]_vars PROVE InvParts' /\ RowInv'
    BY TypeStep DEF IInv
  <1>1. CASE Visit
    BY <1>1, VisitPage, VisitBarrier, VisitConnection, VisitHandoff,
       VisitVerdict, RowStep DEF InvParts, Next
  <1>2. CASE Hear
    BY <1>2, HearParts, RowStep DEF Hear, Next
  <1>3. CASE Outside
    BY <1>3, OutsideParts, RowStep DEF Next
  <1>4. CASE UNCHANGED vars
    BY <1>4 DEF IInv, InvParts, PageInv, BarrierInv, ConnectionInv, HandoffInv,
                VerdictInv, RowInv, vars, collector, routing, page
  <1>. QED
    BY <1>1, <1>2, <1>3, <1>4 DEF Next

LEMMA GuardInvariant == Spec => []IInv
  BY TypeInit, PartsInit, PartsStep, PTL DEF Spec, IInv

\* A row priced from rate cells has them from a page whose handoff was
\* verified, that sent nothing afterwards and whose every request was aborted.
\* Rows priced from the page's text, of targets without exactly one fixed
\* product, are not covered.
THEOREM PagesAreCutOff == Spec => []ReadingsAreCutOff
  <1>1. IInv => ReadingsAreCutOff
    BY DEF IInv, RowInv, ReadingsAreCutOff
  <1>. QED
    BY <1>1, GuardInvariant, PTL

\* The next target is reached only when no browser process of the last one
\* is left: a termination that was not verified ends the collection.
THEOREM BrowsersDoNotOverlap == Spec => []OneBrowserAtATime
  <1>1. IInv => OneBrowserAtATime
    BY DEF IInv, InvParts, VerdictInv, OneBrowserAtATime
  <1>. QED
    BY <1>1, GuardInvariant, PTL

\* A 403 or 429 is heard before the connection is gone, and a target is left
\* for the next one only with that connection gone.
THEOREM RefusalsEndCollection == Spec => []RefusalEndsCollection
  <1>1. IInv => RefusalEndsCollection
    BY DEF IInv, InvParts, VerdictInv, RefusalEndsCollection
  <1>. QED
    BY <1>1, GuardInvariant, PTL
=============================================================================
