---------------------- MODULE ObservationCollectorProps ---------------------
(* What the run lock, the budget and the store promise together.             *)
EXTENDS ObservationCollector

Fired == {r \in Runs : pc[r] # "new"}

\* From taking the run lock to releasing it.
Inside(r) == pc[r] \in Pc \ {"new", "lock", "reclaim", "take", "done", "dead"}

\* No two firings have begun together, and none has hung or slept so far.
Orderly ==
    /\ ~late
    /\ \A r, q \in Fired : r # q => run[r].fired # run[q].fired

\* Two firings that began apart are at work together only after a call without
\* a time limit has hung or the machine has slept: short of that the budget,
\* looked at between requests only, ends a firing before its lock file is old.
JoinedOnlyAfterAHang ==
    (\E r, q \in Runs : r # q /\ Inside(r) /\ Inside(q)) => ~Orderly

\* "A still-running previous firing must never be joined by the next one"
\* (runCoreCompetitorRepeatedObservation.ts:413), for firings that began apart.
NeverJoined ==
    (\A r, q \in Fired : r # q => run[r].fired # run[q].fired)
        => \A r, q \in Runs : Inside(r) /\ Inside(q) => r = q

\* A firing that reports success has every row it kept in the store, under its
\* own hash, for good.
SuccessMeansStored ==
    Orderly => \A r \in Runs : run[r].outcome = "success" =>
        \A id \in Ids(run[r].rows) : obs[id] = run[r].rows[id]

\* The store only gains observations, of the firing that writes, whatever
\* firings failed or died half-way through the months.
StoreOnlyGains ==
    [][Orderly => \A id \in RowIds : obs'[id] # obs[id] =>
           /\ obs[id] = <<>>
           /\ \E r \in Runs : Inside(r) /\ obs'[id] = run[r].rows[id]]_obs

\* The locks that dead firings left behind stop no firing that begins when
\* both have had the time to become old.
DeadFiringsBlockNobody ==
    LET gap == Timeout + MaxRequest + AppendStale IN
    Orderly /\ (\A r, q \in Fired : run[r].fired < run[q].fired
                                        => run[q].fired - run[r].fired >= gap)
        => \A r \in Runs : run[r].outcome \notin {"aborted_lock_held", "blocked_lock"}
=============================================================================
