------------------------- MODULE RotatingScopeProps -------------------------
(* What the rotating plans promise.                                          *)
EXTENDS RotatingScope

CandidatesOf(source) == {c \in Candidates : c[1] \in source}

\* A plan that ends uses its capacity: for each source it has as many targets
\* as pages are allowed, or every candidate of the source.  The limits on
\* balance, dates and properties cost no page, whatever the winter lane took
\* and the backpressure gave back (buildRotatingPlan, its four passes).
FullPlans ==
    pc = "collect" =>
        /\ \/ Cardinality(TargetsOf(Booking)) = BookingCap
           \/ CandidatesOf(Booking) \subseteq Targets
        /\ \/ Cardinality(TargetsOf(Jalan)) = JalanCap
           \/ CandidatesOf(Jalan) \subseteq Targets

\* A cell with a row of the last 24 hours is visited only if it is of a
\* comparable property, on a date found newly on sale, and once for each such
\* finding: also when the visit yields nothing, the run dies after it or the
\* manifest comes and goes (the ledger is written before the collection).
\* Only a run that dies while it writes the ledger makes a second visit
\* possible; asked starts anew with it.
OverridesOnce ==
    pc = "collect" =>
        \A c \in Targets : InCooldown(c) => /\ c[1] \in Comparable
                                            /\ c \notin asked

\* How long a critical cell has waited: since its last row, or since its date
\* came so near that it is a candidate every day.
Waited(c) ==
    LET first == Min({Dense, IF c[1] \in Own THEN OwnLead ELSE Lead})
        since == (first - c[2]) * Slots + slot IN
    IF age[c] = Never THEN since ELSE Min({since, age[c]})

\* Nobody starves among the dense dates, where the capacity suffices: once the
\* runs stop failing and the manifest is quiet, no critical cell waits longer
\* than the service deadline.  The bands of buildRotatingPlan are what makes it
\* so: by score alone the dates that score least wait until they are over.
\* Critical dates farther away are candidates one day in three and wait longer;
\* and with one page less per run the dense ones do as well.
NobodyStarves == <>[](\A c \in Cells : Critical(c) => Waited(c) <= Deadline)
=============================================================================
