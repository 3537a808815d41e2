----------------------------- MODULE BookingGuard ---------------------------
(* The collection of Booking pages (collectBookingLive of                    *)
(* src/src/scripts/runAutoRunnerMarketRefreshRotating.ts) under the block    *)
(* guard (bookingUiBlockGuard.ts), with one owned browser process per target *)
(* (bookingOwnedBrowser.ts) and the wait for the page's own traffic to cease *)
(* (bookingInitialLoadBarrier.ts).  The text of the page is read while it    *)
(* loads; its rate cells are read when it may no longer touch the network:   *)
(* until the guard is armed every request passes its route handlers,         *)
(* afterwards every request is aborted.  The row of a target whose panel     *)
(* fixes exactly one product is priced from the cells, under the guard's     *)
(* verdict; every other row is priced from the text, whatever the verdict.   *)
(* The events of the browser reach the collector late, in any order, between *)
(* its steps, and a call to the browser may never be answered.               *)
(* It is the path of a run with rate cell evidence: owned browser, evidence  *)
(* policy V2, routes prepared before navigation.                             *)
EXTENDS Integers, FiniteSets

CONSTANTS Requests,   \* requests the page of one target may issue
          Budget,     \* requests tracked per page (1000 in the code)
          MaxTargets  \* targets of the collection

ASSUME GuardAssumption ==
    IsFiniteSet(Requests) /\ Budget \in Nat /\ MaxTargets \in Nat

VARIABLES pc,         \* where the collector stands
          left,       \* targets not yet visited
          capture,    \* what the page of this target yielded, and its row
          guard,      \* the BookingUiBlockGuard of this target
          seen,       \* requests heard of after the switch to DENY
          aborted,    \* requests whose abort was confirmed (safelyAborted)
          aborting,   \* aborts without an answer (aborts)
          continuing, \* fallbacks without an answer (initialContinuations)
          barrier,    \* the initial load observer
          browser,    \* the owned browser process
          req,        \* what became of each request
          stage,      \* route handlers (page, then context) each has passed
          toTell,     \* request events on their way to the collector
          toEnd,      \* response and end events on their way
          limited,    \* requests the site answered with 403 or 429
          leaked      \* requests on the wire after a verified handoff

collector == <<pc, left, capture>>
routing == <<seen, aborted, aborting, continuing>>
page == <<req, stage, toTell, toEnd, limited, leaked>>
vars == <<collector, guard, routing, barrier, browser, page>>

Pc == {"next", "open", "prepare", "load", "look", "check", "quiet", "arm", "read",
       "final", "close", "drain", "kill", "finish", "record", "abandon",
       "complete", "stopped", "error"}
Over == {"complete", "stopped", "error"}

\* Where the collector awaits calls without a time limit: connect, newContext
\* and newPage; page.title() of the runner and of a checkpoint; count() and
\* evaluate() of the capture.
Calling == {"open", "look", "check", "read", "final"}

Capture == [text : BOOLEAN, block : BOOLEAN, cells : BOOLEAN,
            price : {"none", "cells", "text"}]

Guard == [blocked : BOOLEAN, verified : BOOLEAN, hardStop : BOOLEAN,
          switched : BOOLEAN, armed : BOOLEAN, planned : BOOLEAN,
          dead : BOOLEAN, handoff : {"none", "good", "bad"}]
Barrier == [watching : BOOLEAN, unverified : BOOLEAN, quiet : BOOLEAN,
            heard : 0..Budget + 1, pending : SUBSET Requests]
Browser == [proc : {"none", "alive", "exited"}, killStarted : BOOLEAN,
            surprise : BOOLEAN, gone : BOOLEAN, silent : BOOLEAN]

NewGuard == [blocked |-> FALSE, verified |-> TRUE, hardStop |-> FALSE,
             switched |-> FALSE, armed |-> FALSE, planned |-> FALSE,
             dead |-> FALSE, handoff |-> "none"]
NewBarrier == [watching |-> TRUE, unverified |-> FALSE, quiet |-> FALSE,
               heard |-> 0, pending |-> {}]
\* dispose(): pending is cleared; nothing else of it is read again.
Disposed == [NewBarrier EXCEPT !.watching = FALSE]
NewBrowser == [proc |-> "alive", killStarted |-> FALSE, surprise |-> FALSE,
               gone |-> FALSE, silent |-> FALSE]
NewCapture == [text |-> FALSE, block |-> FALSE, cells |-> FALSE, price |-> "none"]

TypeOK ==
    /\ pc \in Pc /\ left \in 0..MaxTargets
    /\ capture \in Capture
    /\ guard \in Guard /\ barrier \in Barrier /\ browser \in Browser
    /\ seen \in SUBSET Requests /\ aborted \in SUBSET Requests
    /\ aborting \in SUBSET Requests /\ continuing \in SUBSET Requests
    /\ req \in [Requests -> {"none", "held", "wire", "refused", "ended"}]
    /\ stage \in [Requests -> 0..2]
    /\ toTell \in SUBSET Requests /\ toEnd \in SUBSET Requests
    /\ limited \in SUBSET Requests /\ leaked \in SUBSET Requests
    /\ Cardinality(seen) <= Budget
    /\ \A r \in continuing : stage[r] < 2

Init ==
    /\ pc = "next" /\ left = MaxTargets /\ capture = NewCapture
    /\ guard = NewGuard /\ barrier = NewBarrier
    /\ browser = [NewBrowser EXCEPT !.proc = "none"]
    /\ seen = {} /\ aborted = {} /\ aborting = {} /\ continuing = {}
    /\ req = [r \in Requests |-> "none"] /\ stage = [r \in Requests |-> 0]
    /\ toTell = {} /\ toEnd = {} /\ limited = {} /\ leaked = {}

\* informationFailure: the page counts as unverified, the collection ends.
Failed(g) == [g EXCEPT !.verified = FALSE, !.hardStop = TRUE]
FailedIf(failure, g) == IF failure THEN Failed(g) ELSE g

Unmatched == ~(seen \subseteq aborted)

\* informationRequestSeen and the fallback branch of informationRoute know
\* whether the page may still load.
Denying == guard.switched \/ guard.hardStop

\* No call of the collector waits for an answer that does not come.
Answered == ~browser.silent

\* Requests put on the wire in a step, noted if the handoff was verified.
Sent(R) == leaked' = IF guard'.handoff = "good" THEN leaked \cup R ELSE leaked
-----------------------------------------------------------------------------
(* The collector: one target after the other.                                *)

\* A target the reservation or publication guard refuses costs no request.
SkipTarget ==
    /\ pc = "next" /\ left > 0
    /\ left' = left - 1
    /\ UNCHANGED <<pc, capture, guard, routing, barrier, browser, page>>

\* launchServer starts the process of the next target.
OpenTarget ==
    /\ pc = "next" /\ left > 0
    /\ pc' = "open" /\ left' = left - 1 /\ capture' = NewCapture
    /\ guard' = NewGuard /\ barrier' = NewBarrier /\ browser' = NewBrowser
    /\ seen' = {} /\ aborted' = {} /\ aborting' = {} /\ continuing' = {}
    /\ req' = [r \in Requests |-> "none"] /\ stage' = [r \in Requests |-> 0]
    /\ toTell' = {} /\ toEnd' = {} /\ limited' = {} /\ leaked' = {}

\* The launch throws, having killed what it started.
LaunchFails ==
    /\ pc = "next" /\ left > 0
    /\ pc' = "error" /\ left' = left - 1
    /\ UNCHANGED <<capture, guard, routing, barrier, browser, page>>

\* The connection, the context, the page and its guard.
SetUp ==
    /\ pc = "open" /\ Answered /\ ~browser.gone
    /\ pc' = "prepare"
    /\ UNCHANGED <<left, capture, guard, routing, barrier, browser, page>>

NoTargetsLeft ==
    /\ pc = "next" /\ left = 0
    /\ pc' = "complete"
    /\ UNCHANGED <<left, capture, guard, routing, barrier, browser, page>>

\* prepareInformationRoutesBeforeNavigation: both routes are installed.
Prepare ==
    /\ pc = "prepare" /\ ~browser.gone
    /\ pc' = "load"
    /\ UNCHANGED <<left, capture, guard, routing, barrier, browser, page>>

\* The runner's finally block: initialLoad.dispose(), then a checkpoint.
Cleanup == pc' = "final" /\ barrier' = Disposed

\* A route is not installed within its second.
PrepareFails ==
    /\ pc = "prepare"
    /\ Cleanup
    /\ guard' = [Failed(guard) EXCEPT !.switched = TRUE]
    /\ UNCHANGED <<left, capture, routing, browser, page>>

\* page.goto returns a response.
Load ==
    /\ pc = "load" /\ ~browser.gone
    /\ pc' = "look"
    /\ UNCHANGED <<left, capture, guard, routing, barrier, browser, page>>

\* goto throws, after 35 seconds at the latest; its message may tell a block.
LoadFails ==
    /\ pc = "load"
    /\ capture' \in {[capture EXCEPT !.block = b] : b \in BOOLEAN}
    /\ Cleanup
    /\ UNCHANGED <<left, guard, routing, browser, page>>

\* Title and text are read: a bound document that shows no block goes on.
Look ==
    /\ pc = "look" /\ Answered
    /\ \E b \in BOOLEAN :
        /\ capture' = [capture EXCEPT !.text = TRUE, !.block = b]
        /\ \/ ~b /\ ~browser.gone /\ pc' = "check" /\ UNCHANGED barrier
           \/ Cleanup
    /\ UNCHANGED <<left, guard, routing, browser, page>>

\* documentProof.assertUnchanged throws: failInformationCleanup.
DocumentChanges ==
    /\ pc \in {"look", "check", "read"} /\ Answered
    /\ guard' = Failed(guard)
    /\ capture' = [capture EXCEPT !.text = TRUE]
    /\ Cleanup
    /\ UNCHANGED <<left, routing, browser, page>>

\* The guard lets a checkpoint read the page.
Clear == ~guard.hardStop /\ aborting = {} /\ ~guard.blocked /\ guard.verified

\* checkpoint: it has nothing to read, waits no longer than three seconds for
\* aborts under way, and reads title and body for signs of a block.
CheckpointFails ==
    \/ /\ guard.hardStop \/ (aborting = {} /\ (guard.blocked \/ ~guard.verified))
       /\ UNCHANGED guard
    \/ /\ ~guard.hardStop /\ aborting # {}
       /\ guard' = Failed(guard)
    \/ /\ Clear
       /\ \/ guard' = [guard EXCEPT !.verified = FALSE]
          \/ /\ ~browser.gone
             /\ guard' = [guard EXCEPT !.blocked = TRUE, !.hardStop = TRUE]

CheckpointClear ==
    /\ Clear /\ ~browser.gone
    /\ UNCHANGED guard

\* requireClear before the wait for quiet.
Check ==
    /\ pc = "check" /\ Answered
    /\ \/ CheckpointClear /\ pc' = "quiet" /\ UNCHANGED barrier
       \/ CheckpointFails /\ Cleanup
    /\ UNCHANGED <<left, capture, routing, browser, page>>

\* waitForFreshQuiet: nothing pending and 500 ms without an event.
Quiet ==
    /\ pc = "quiet"
    /\ barrier.watching /\ ~barrier.unverified /\ barrier.pending = {}
    /\ ~browser.gone
    /\ pc' = "arm" /\ barrier' = [barrier EXCEPT !.quiet = TRUE]
    /\ UNCHANGED <<left, capture, guard, routing, browser, page>>

\* Five seconds pass, or what was heard does not add up.
NotQuiet ==
    /\ pc = "quiet"
    /\ Cleanup
    /\ UNCHANGED <<left, capture, guard, routing, browser, page>>

\* finishQuietHandoff: nothing was heard since the quiet was established.
QuietHandoff ==
    /\ barrier.quiet /\ barrier.watching /\ ~barrier.unverified
    /\ barrier.pending = {} /\ ~browser.gone

\* armReadOnlyInformation: the switch to DENY and the check of the handoff,
\* without an await between them.
Arm ==
    /\ pc = "arm"
    /\ LET good == QuietHandoff /\ continuing = {}
           armed == [guard EXCEPT !.switched = TRUE, !.armed = TRUE,
                                  !.handoff = IF good THEN "good" ELSE "bad"] IN
       /\ guard' = IF good THEN armed
                   ELSE FailedIf(continuing # {}, [armed EXCEPT !.verified = FALSE])
       /\ pc' = IF good THEN "read" ELSE "final"
    /\ barrier' = Disposed
    /\ Sent({r \in Requests : req[r] = "wire"})
    /\ UNCHANGED <<left, capture, routing, browser, req, stage, toTell, toEnd,
                   limited>>

\* captureBookingRateCells: a checkpoint around every UI step, then the cells.
Read ==
    /\ pc = "read" /\ Answered
    /\ \/ /\ CheckpointClear
          /\ capture' = [capture EXCEPT !.cells = TRUE]
          /\ Cleanup
       \/ CheckpointFails /\ Cleanup /\ UNCHANGED capture
    /\ UNCHANGED <<left, routing, browser, page>>

\* The runner's last checkpoint; its answer is not looked at.
FinalCheckpoint ==
    /\ pc = "final" /\ Answered
    /\ CheckpointClear \/ CheckpointFails
    /\ pc' = "close"
    /\ UNCHANGED <<left, capture, routing, barrier, browser, page>>
-----------------------------------------------------------------------------
(* Closing a target: drain the aborts, kill the process, read the verdict.   *)

\* closeReadOnlyInformationPage up to its loop.
Close ==
    /\ pc = "close"
    /\ pc' = "drain"
    /\ guard' = FailedIf(browser.surprise,
                         [guard EXCEPT !.switched = TRUE, !.planned = TRUE])
    /\ UNCHANGED <<left, capture, routing, barrier, browser, page>>

Kill == browser' = [browser EXCEPT !.killStarted = TRUE]

\* Every request heard of has its abort, or the page has failed anyway.
Drained ==
    /\ pc = "drain"
    /\ guard.hardStop \/ (aborting = {} /\ ~Unmatched)
    /\ pc' = "kill" /\ Kill
    /\ UNCHANGED <<left, capture, guard, routing, barrier, page>>

\* Mutant of DrainTimesOut: the loop has no deadline.
DrainTimesOutNever == FALSE /\ UNCHANGED vars

\* The three seconds are over: ABORT_DRAIN_TIMEOUT, and still a kill.
DrainTimesOut ==
    /\ pc = "drain"
    /\ ~guard.hardStop /\ (aborting # {} \/ Unmatched)
    /\ pc' = "kill" /\ Kill
    /\ guard' = Failed(guard)
    /\ UNCHANGED <<left, capture, routing, barrier, page>>

\* terminateOwnedBookingBrowser: exit, close and disconnection were seen.
Killed ==
    /\ pc = "kill"
    /\ browser.gone /\ ~browser.surprise
    /\ pc' = "finish"
    /\ guard' = [guard EXCEPT !.dead = TRUE]
    /\ UNCHANGED <<left, capture, routing, barrier, browser, page>>

\* Mutant of KillFails: a termination that cannot be verified is forgotten.
KillFailsQuietly ==
    /\ pc = "kill"
    /\ pc' = "finish"
    /\ guard' = [guard EXCEPT !.dead = TRUE]
    /\ UNCHANGED <<left, capture, routing, barrier, browser, page>>

\* The deadline passes, or the process had gone before it was killed.
KillFails ==
    /\ pc = "kill"
    /\ pc' = "finish"
    /\ guard' = Failed(guard)
    /\ UNCHANGED <<left, capture, routing, barrier, browser, page>>

\* Mutant of Finish: the death of the process passes for an abort.
FinishUnmatched ==
    /\ pc = "finish"
    /\ pc' = "record"
    /\ guard' = FailedIf(~guard.dead \/ aborting # {}, guard)
    /\ UNCHANGED <<left, capture, routing, barrier, browser, page>>

\* finishReadOnlyInformation: a request without its abort spoils the page.
Finish ==
    /\ pc = "finish"
    /\ pc' = "record"
    /\ guard' = FailedIf(~guard.dead \/ aborting # {} \/ Unmatched, guard)
    /\ UNCHANGED <<left, capture, routing, barrier, browser, page>>

\* selectFixedTwoPersonSignals takes the cells of a page in good standing.
Usable == capture.cells /\ ~guard.blocked /\ guard.verified

\* What may price the row, of a target with one fixed product or not.
Prices(one) == {"none"} \cup {p \in {"cells"} : one /\ Usable}
                        \cup {p \in {"text"} : ~one /\ capture.text}

\* The target's row and record; a block or a guard failure ends the collection.
Record ==
    /\ pc = "record"
    /\ \E one \in BOOLEAN : \E p \in Prices(one) :
           capture' = [capture EXCEPT !.price = p]
    /\ pc' = IF guard.hardStop \/ guard.blocked \/ capture.block
             THEN "stopped" ELSE "next"
    /\ UNCHANGED <<left, guard, routing, barrier, browser, page>>

\* Setup or the writing of the record throws; the inner finally block kills
\* the process unless that was done.
Throws ==
    /\ pc = "record" \/ (pc = "open" /\ Answered)
    /\ pc' = IF browser.killStarted THEN "error" ELSE "abandon"
    /\ Kill
    /\ UNCHANGED <<left, capture, guard, routing, barrier, page>>

\* That termination is awaited, not longer than three seconds.
Abandon ==
    /\ pc = "abandon"
    /\ pc' = "error"
    /\ UNCHANGED <<left, capture, guard, routing, barrier, browser, page>>
-----------------------------------------------------------------------------
(* What the collector hears.                                                 *)

\* The barrier's start(r).
BarrierStart(r) ==
    barrier' = IF ~barrier.watching THEN barrier
               ELSE LET odd == r \in barrier.pending \/ barrier.heard >= Budget IN
                    [barrier EXCEPT !.quiet = FALSE,
                        !.heard = IF @ > Budget THEN @ ELSE @ + 1,
                        !.unverified = @ \/ odd,
                        !.pending = IF odd THEN @ ELSE @ \cup {r}]

\* The barrier's finish(r).
BarrierFinish(r) ==
    barrier' = IF ~barrier.watching THEN barrier
               ELSE [barrier EXCEPT !.quiet = FALSE,
                        !.unverified = @ \/ r \notin barrier.pending,
                        !.pending = @ \ {r}]

Listening == pc \notin {"next", "record"} \cup Over

\* Mutant of HearRequest: the requests seen are not limited.
HearRequestUnbounded(r) ==
    /\ r \in toTell /\ Listening
    /\ toTell' = toTell \ {r}
    /\ BarrierStart(r)
    /\ seen' = IF guard.switched THEN seen \cup {r} ELSE seen
    /\ UNCHANGED <<collector, guard, aborted, aborting, continuing, browser, req,
                   stage, toEnd, limited, leaked>>

\* informationRequestSeen.
HearRequest(r) ==
    /\ r \in toTell /\ Listening
    /\ toTell' = toTell \ {r}
    /\ BarrierStart(r)
    /\ IF ~guard.switched THEN UNCHANGED <<guard, seen>>
       ELSE IF Cardinality(seen) >= Budget /\ r \notin seen
            THEN guard' = Failed(guard) /\ UNCHANGED seen
            ELSE seen' = seen \cup {r} /\ UNCHANGED guard
    /\ UNCHANGED <<collector, aborted, aborting, continuing, browser, req, stage,
                   toEnd, limited, leaked>>

\* Mutant of HearEnd: responses are no longer heard once the page is closing.
HearEndUntilClose(r) ==
    /\ r \in toEnd /\ Listening
    /\ toEnd' = toEnd \ {r}
    /\ BarrierFinish(r)
    /\ guard' = IF r \in limited /\ ~guard.planned
                THEN [guard EXCEPT !.blocked = TRUE, !.hardStop = TRUE] ELSE guard
    /\ UNCHANGED <<collector, routing, browser, req, stage, toTell, limited, leaked>>

\* onResponse: a 403 or 429 of booking.com is a block.
HearEnd(r) ==
    /\ r \in toEnd /\ Listening
    /\ toEnd' = toEnd \ {r}
    /\ BarrierFinish(r)
    /\ guard' = IF r \in limited
                THEN [guard EXCEPT !.blocked = TRUE, !.hardStop = TRUE] ELSE guard
    /\ UNCHANGED <<collector, routing, browser, req, stage, toTell, limited, leaked>>

\* A route callback of a request the browser holds.
Callback(r) ==
    /\ req[r] = "held" /\ stage[r] < 2 /\ ~browser.gone /\ Listening
    /\ r \notin continuing \cup aborting \cup aborted

\* informationRoute while the page loads: fallback to the next handler.
RouteFallback(r) ==
    /\ Callback(r) /\ ~Denying /\ Cardinality(continuing) < Budget
    /\ continuing' = continuing \cup {r}
    /\ UNCHANGED <<collector, guard, seen, aborted, aborting, barrier, browser, page>>

\* informationRoute afterwards, or beyond the budget: abort.
RouteAbort(r) ==
    /\ Callback(r)
    /\ LET over == ~Denying /\ Cardinality(continuing) >= Budget
           full == Cardinality(aborting) >= Budget IN
       /\ Denying \/ over
       /\ guard' = FailedIf(over \/ full,
                            IF over THEN [guard EXCEPT !.switched = TRUE] ELSE guard)
       /\ aborting' = IF full THEN aborting ELSE aborting \cup {r}
       /\ stage' = [stage EXCEPT ![r] = 2]
    /\ UNCHANGED <<collector, seen, aborted, continuing, barrier, browser, req,
                   toTell, toEnd, limited, leaked>>

\* route.fallback() settles; after the context's handler the request goes out.
FallbackSettles(r) ==
    /\ r \in continuing /\ browser.proc = "alive"
    /\ continuing' = continuing \ {r}
    /\ stage' = [stage EXCEPT ![r] = @ + 1]
    /\ UNCHANGED guard
    /\ IF stage[r] = 1 THEN req' = [req EXCEPT ![r] = "wire"] /\ Sent({r})
       ELSE UNCHANGED <<req, leaked>>
    /\ UNCHANGED <<collector, seen, aborted, aborting, barrier, browser, toTell,
                   toEnd, limited>>

\* It is rejected: a failure unless the process is being killed.
FallbackFails(r) ==
    /\ r \in continuing
    /\ continuing' = continuing \ {r}
    /\ stage' = [stage EXCEPT ![r] = 2]
    /\ guard' = FailedIf(~guard.planned, guard)
    /\ UNCHANGED <<collector, seen, aborted, aborting, barrier, browser, req,
                   toTell, toEnd, limited, leaked>>

\* route.abort() succeeds: the browser has refused the request.
AbortSettles(r) ==
    /\ r \in aborting /\ req[r] = "refused"
    /\ aborting' = aborting \ {r}
    /\ LET full == Cardinality(aborted) >= Budget IN
       /\ aborted' = IF full THEN aborted ELSE aborted \cup {r}
       /\ guard' = FailedIf(full, guard)
    /\ UNCHANGED <<collector, seen, continuing, barrier, browser, page>>

AbortFails(r) ==
    /\ r \in aborting
    /\ aborting' = aborting \ {r}
    /\ guard' = Failed(guard)
    /\ UNCHANGED <<collector, seen, aborted, continuing, barrier, browser, page>>

\* unexpectedPage: a popup of an armed page fails it and kills the process.
UnexpectedPage ==
    /\ guard.armed /\ browser.proc = "alive" /\ Listening
    /\ guard' = Failed(guard) /\ Kill
    /\ UNCHANGED <<collector, routing, barrier, page>>
-----------------------------------------------------------------------------
(* The browser and the site, as the code above uses them.                    *)

\* The page issues a request; it waits for the route handlers.
Emit(r) ==
    /\ browser.proc = "alive" /\ pc \notin {"next", "open", "prepare"} \cup Over
    /\ req[r] = "none"
    /\ req' = [req EXCEPT ![r] = "held"] /\ toTell' = toTell \cup {r}
    /\ UNCHANGED <<collector, guard, routing, barrier, browser, stage, toEnd,
                   limited, leaked>>

\* A redirect ends r and puts its next hop s on the wire: no handler sees it.
Redirect(r, s) ==
    /\ browser.proc = "alive" /\ req[r] = "wire" /\ req[s] = "none"
    /\ req' = [req EXCEPT ![r] = "ended", ![s] = "wire"]
    /\ toEnd' = toEnd \cup {r} /\ toTell' = toTell \cup {s}
    /\ UNCHANGED <<guard, stage, limited>> /\ Sent({s})
    /\ UNCHANGED <<collector, routing, barrier, browser>>

\* The site answers, perhaps with a 403 or 429.
Answer(r) ==
    /\ browser.proc = "alive" /\ req[r] = "wire"
    /\ req' = [req EXCEPT ![r] = "ended"] /\ toEnd' = toEnd \cup {r}
    /\ limited' \in {limited, limited \cup {r}}
    /\ UNCHANGED <<collector, guard, routing, barrier, browser, stage, toTell, leaked>>

\* The browser carries out an abort.
Refuse(r) ==
    /\ browser.proc = "alive" /\ req[r] = "held" /\ stage[r] = 2
    /\ r \in aborting
    /\ req' = [req EXCEPT ![r] = "refused"] /\ toEnd' = toEnd \cup {r}
    /\ UNCHANGED <<collector, guard, routing, barrier, browser, stage, toTell,
                   limited, leaked>>

\* The process exits, killed or on its own (unexpectedDisconnect).
ProcessExits ==
    /\ browser.proc = "alive"
    /\ browser' = [browser EXCEPT !.proc = "exited",
                                  !.surprise = @ \/ ~browser.killStarted]
    /\ UNCHANGED <<collector, guard, routing, barrier, page>>

\* The connection closes once all that was sent over it has been delivered,
\* and a call without an answer is rejected; an armed page that closes
\* unplanned has failed, and a kill is issued.
Disconnect ==
    /\ browser.proc = "exited" /\ ~browser.gone
    /\ toTell = {} /\ toEnd = {}
    /\ browser' = [browser EXCEPT !.gone = TRUE, !.silent = FALSE,
                                  !.killStarted = TRUE]
    /\ guard' = FailedIf(guard.armed /\ ~guard.planned, guard)
    /\ UNCHANGED <<collector, routing, barrier, page>>

\* A call without a time limit is never answered.
CallHangs ==
    /\ pc \in Calling /\ (pc = "final" => Clear) /\ Answered /\ ~browser.gone
    /\ browser' = [browser EXCEPT !.silent = TRUE]
    /\ UNCHANGED <<collector, guard, routing, barrier, page>>
-----------------------------------------------------------------------------
Visit == \/ OpenTarget \/ SetUp \/ SkipTarget \/ LaunchFails \/ NoTargetsLeft
         \/ Prepare \/ PrepareFails \/ Load \/ LoadFails \/ Look \/ DocumentChanges
         \/ Check \/ Quiet \/ NotQuiet \/ Arm \/ Read \/ FinalCheckpoint
         \/ Close \/ Drained \/ DrainTimesOut \/ Killed \/ KillFails
         \/ Finish \/ Record \/ Throws \/ Abandon

Hear == \E r \in Requests :
            \/ HearRequest(r) \/ HearEnd(r) \/ RouteFallback(r) \/ RouteAbort(r)
            \/ FallbackSettles(r) \/ FallbackFails(r)
            \/ AbortSettles(r) \/ AbortFails(r)

Outside == \/ \E r \in Requests : Emit(r) \/ Answer(r) \/ Refuse(r)
           \/ \E r, s \in Requests : Redirect(r, s)
           \/ UnexpectedPage \/ ProcessExits \/ Disconnect \/ CallHangs

Next == Visit \/ Hear \/ Outside

Spec == Init /\ [][Next]_vars

\* The waits of the collector have deadlines of its own or of Playwright's,
\* but for the calls of Calling: a step of those needs an answer.
FairSpec == Spec /\ WF_vars(Visit)
=============================================================================
