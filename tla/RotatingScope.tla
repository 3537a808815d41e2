---------------------------- MODULE RotatingScope ---------------------------
(* What the two-hourly collection visits next: the rotating planner          *)
(* (src/src/services/rotatingCollectionScopePlanner.ts), its winter lane     *)
(* (winterSalesLanePlanner.ts) and the runs that plan, collect and leave the *)
(* rows the next plan is made from                                           *)
(* (src/src/scripts/runAutoRunnerMarketRefreshRotating.ts).                  *)
(* A cell is a property and a stay date.  Stay dates are counted from today, *)
(* so that the calendar moves under the stored observations at midnight, and *)
(* a date's own attraction (weekday, holiday, season) repeats after Week     *)
(* days.  Ages are counted in slots of the day, one run to a slot.           *)
EXTENDS Integers, FiniteSets, FiniteSetsExt

CONSTANTS Booking, Jalan, \* properties that are live and verified, by source,
                          \* as numbers in the order of their keys
          Own,            \* Booking properties of ours
          Kiraku,         \* the one of them that has a winter lane
          Comparable,     \* the winter lane's comparable properties
          TierOf,         \* the tier of each property
          BookingCap, JalanCap, \* pages per run
          Slots,          \* runs per day (12); 24 hours of cooldown
          Deadline,       \* age in slots from which a cell is overdue (84 h)
          Horizon, ShortEnd, MidEnd, \* lead days: candidates, buckets
          Dense,          \* lead days of which every one is a candidate
          Lead, OwnLead,  \* lead days that matter for pricing
          Near, Mid,      \* lead days of the winter lane's targets
          Week,           \* days after which dates repeat (a bound)
          Interesting,    \* which of these are candidates at any lead
          Winter,         \* which of these are in the winter sales window
          Score,          \* priority score by property, lead and date
          WinterLane,     \* the feature gates
          ActiveRefresh,
          FirstAges,      \* what history may have at first
          FirstOnSale,    \* winter dates just found on sale at first
          Never,          \* the age of a cell history does not have
          Oldest,         \* bound on ages: older cells are this old
          MaxChanges,     \* bound on changes of the sales manifest
          MaxFailures,    \* bound on runs that fail in part
          MaxLost         \* bound on single targets such a run loses

Properties == Booking \cup Jalan
Leads == 1..Horizon
Cells == Properties \X Leads
Ages == 0..Oldest \cup {Never}

ASSUME ScopeAssumption ==
    /\ Properties \subseteq Nat /\ IsFiniteSet(Properties)
    /\ Booking \cap Jalan = {}
    /\ Own \subseteq Booking /\ Kiraku \subseteq Own
    /\ Comparable \subseteq Booking \ Own
    /\ BookingCap \in Nat /\ JalanCap \in Nat
    /\ Slots \in Nat \ {0} /\ Deadline \in Nat /\ Oldest \in Nat
    /\ Slots <= Deadline /\ Deadline <= Oldest
    /\ Horizon \in Nat \ {0} /\ ShortEnd \in Nat /\ MidEnd \in Nat
    /\ Dense \in Nat /\ Lead \in Nat /\ OwnLead \in Nat /\ Lead <= OwnLead
    /\ Near \in Nat /\ Mid \in Nat
    /\ Week \in Nat \ {0}
    /\ Interesting \subseteq 0..Week - 1 /\ Winter \subseteq 0..Week - 1
    /\ Score \in [Properties \X Leads \X (0..Week - 1) -> 0..100]
    /\ WinterLane \in BOOLEAN /\ ActiveRefresh \in BOOLEAN
    /\ Never \notin Nat
    /\ FirstAges \subseteq [Cells -> Ages]
    /\ FirstOnSale \subseteq {o \in Leads : o % Week \in Winter}
    /\ MaxChanges \in Nat /\ MaxFailures \in Nat /\ MaxLost \in Nat

VARIABLES day, slot,  \* the calendar and the clock
          age,        \* slots since each cell's last row in history
          sellable,   \* winter dates the manifest calls SELLABLE
          newly,      \* those of them it calls newly_sellable
          served,     \* cells observed since their date was so detected
          ledger,     \* winter_transition_overrides.json
          asked,      \* cells visited within their cooldown since then, and
                      \* since the ledger was last lost
          pc,         \* where the run stands
          pass,       \* the pass of the selection
          winter,     \* cells planWinterLane selected, with their class
          queue,      \* the order in which the passes go through the entries
          lane,       \* cells selected for the winter lane
          chosen,     \* cells selected otherwise
          changes, failures

clock == <<day, slot>>
manifest == <<sellable, newly>>
plan == <<winter, pass, queue, lane, chosen>>
vars == <<clock, age, manifest, served, ledger, asked, pc, plan, changes, failures>>

Entry == [cell : Cells, warm : BOOLEAN]
Classes == {"TRANSITION", "ACTIVE", "WARM"}
Pc == {"idle", "lane", "plan", "collect", "done"}

TypeOK ==
    /\ day \in 0..Week - 1 /\ slot \in 0..Slots - 1
    /\ age \in [Cells -> Ages]
    /\ sellable \in SUBSET Leads /\ newly \in SUBSET sellable
    /\ served \in SUBSET Cells /\ ledger \in SUBSET Cells
    /\ asked \in SUBSET Cells
    /\ pc \in Pc /\ pass \in 1..4
    /\ lane \in SUBSET Cells /\ chosen \in SUBSET Cells
    /\ DOMAIN winter \in SUBSET Cells /\ \A c \in DOMAIN winter : winter[c] \in Classes
    /\ DOMAIN queue \in SUBSET Entry
    /\ changes \in 0..MaxChanges /\ failures \in 0..MaxFailures

Init ==
    /\ day = 0 /\ slot = 0
    /\ age \in FirstAges
    /\ sellable = FirstOnSale /\ newly = FirstOnSale
    /\ served = {} /\ ledger = {} /\ asked = {}
    /\ pc = "idle" /\ winter = <<>>
    /\ pass = 1 /\ queue = <<>> /\ lane = {} /\ chosen = {}
    /\ changes = 0 /\ failures = 0
-----------------------------------------------------------------------------
(* Dates and cells.                                                          *)

DateAt(o) == (day + o) % Week
InCooldown(c) == age[c] # Never /\ age[c] < Slots

\* classifyServiceState and SERVICE_BAND_RANK.
ServiceRank(c, deadline) ==
    IF age[c] = Never THEN 0
    ELSE IF age[c] >= deadline THEN 1
    ELSE IF 4 * age[c] >= 3 * deadline THEN 2 ELSE 3

\* Booking cells within the pricing horizon; it is wider for our own.
Critical(c) ==
    c[1] \in Booking /\ c[2] <= IF c[1] \in Own THEN OwnLead ELSE Lead

Bucket(o) == IF o <= ShortEnd THEN "short" ELSE IF o <= MidEnd THEN "mid" ELSE "long"

\* The first n elements of S in an order.
FirstOf(S, n, Precedes(_, _)) ==
    {x \in S : Cardinality({y \in S : Precedes(y, x)}) < n}

CeilDiv(a, b) == (a + b - 1) \div b

\* The sum of the values of f, which are pages.
Units(f) == UNION {{x} \X (1..f[x]) : x \in DOMAIN f}
Total(f) == Cardinality(Units(f))
-----------------------------------------------------------------------------
(* planWinterLane.                                                           *)

WinterLeads == {o \in Leads : DateAt(o) \in Winter}
LaneProperties == IF WinterLane THEN Kiraku \cup Comparable ELSE {}
Active(o) == o \in sellable

\* A date that is not on sale has no price of our own to observe.
LaneLeads(p) == {o \in WinterLeads : Active(o) \/ p \notin Kiraku}

\* winterTargetHours, in slots.
TargetAge(o) == IF Active(o) /\ o <= Near THEN Slots
                ELSE IF Active(o) /\ o <= Mid THEN 2 * Slots ELSE 3 * Slots

\* A date found newly on sale goes first, once.
Transition(c) ==
    /\ c[2] \in newly
    /\ c \notin ledger /\ c \notin served

\* A cell that is not due waits; a transition is due at once, but only a
\* comparable property's may override the cooldown.
DueInLane(c) ==
    \/ Transition(c) /\ (InCooldown(c) => c[1] \in Comparable)
    \/ /\ ~Transition(c) /\ ~InCooldown(c)
       /\ (age[c] = Never \/ 4 * age[c] >= 3 * TargetAge(c[2]))

LaneClass(c) == IF Transition(c) THEN "TRANSITION"
                ELSE IF Active(c[2]) THEN "ACTIVE" ELSE "WARM"

DueOf(p) == {c \in {p} \X LaneLeads(p) : DueInLane(c)}

\* Pages a property's lane needs, in sixths of a page per day.
Needed(leads) == Total([o \in leads |-> (6 * Slots) \div TargetAge(o)])
WarmNeeded(p) == Needed({o \in LaneLeads(p) : ~Active(o)})
ActiveNeeded(p) == Needed({o \in LaneLeads(p) : Active(o)})
PerRun(sixths) == CeilDiv(sixths, 6 * Slots)
QuotaRaw(p) == PerRun(Needed(LaneLeads(p)))
RawSum(P) == Total([p \in P |-> QuotaRaw(p)])

\* scaleQuotas: largest remainders, ties by slug.
Scaled(p, P, budget) ==
    LET sum == RawSum(P)
        whole(q) == (QuotaRaw(q) * budget) \div sum
        rest(q) == (QuotaRaw(q) * budget) % sum
        spare == budget - Total([q \in P |-> whole(q)])
        before(q, r) == rest(q) > rest(r) \/ (rest(q) = rest(r) /\ q < r) IN
    IF sum <= budget THEN QuotaRaw(p)
    ELSE whole(p) + IF p \in FirstOf(P, spare, before) THEN 1 ELSE 0

\* Two fifths of the Booking pages; with ActiveRefresh our own come first.
LaneBudget == (2 * BookingCap) \div 5
OwnBudget == Min({LaneBudget, RawSum(LaneProperties \cap Kiraku)})
Quota(p) ==
    IF ~ActiveRefresh THEN Scaled(p, LaneProperties, LaneBudget)
    ELSE IF p \in Kiraku THEN Scaled(p, LaneProperties \cap Kiraku, OwnBudget)
    ELSE Scaled(p, LaneProperties \ Kiraku, LaneBudget - OwnBudget)

\* Transitions by date, then cellOrder: never observed, or the older in terms
\* of its target.
LaneOrder(c, d) ==
    LET first(x) == LaneClass(x) = "TRANSITION"
        older(x, y) ==
            /\ ~first(x) /\ age[y] # Never
            /\ (age[x] = Never
                  \/ age[x] * TargetAge(y[2]) > age[y] * TargetAge(x[2])) IN
    \/ first(c) /\ ~first(d)
    \/ /\ first(c) = first(d)
       /\ (older(c, d) \/ (~older(d, c) /\ c[2] < d[2]))

\* The quota of one property: some of it is kept for warm dates.
PickedOf(p) ==
    LET urgent == {c \in DueOf(p) : LaneClass(c) # "WARM"}
        warm == DueOf(p) \ urgent
        q == Quota(p)
        share == (WarmNeeded(p) + 3 * Slots) \div (6 * Slots)
        room == Max({0, q - PerRun(ActiveNeeded(p))})
        kept == IF WarmNeeded(p) = 0 THEN 0
                ELSE Max({Min({Max({1, share}), room}), IF q >= 2 THEN 1 ELSE 0})
        u == Min({Cardinality(urgent), q - Min({Cardinality(warm), kept})}) IN
    FirstOf(urgent, u, LaneOrder) \cup FirstOf(warm, q - u, LaneOrder)

\* A run reads history, the manifest and the ledger and plans the lane.
PlanWinterLane ==
    /\ pc = "idle"
    /\ pc' = "lane"
    /\ winter' = [c \in UNION {PickedOf(p) : p \in LaneProperties} |-> LaneClass(c)]
    /\ UNCHANGED <<clock, age, manifest, served, ledger, asked, pass, queue, lane,
                   chosen, changes, failures>>
-----------------------------------------------------------------------------
(* buildRotatingPlan.                                                        *)

\* candidateStayDates, the dates of transitions forced in.
TransitionLeads == {c[2] : c \in {d \in DOMAIN winter : winter[d] = "TRANSITION"}}
CandidateLeads ==
    {o \in Leads : \/ o <= Dense \/ DateAt(o) \in Interesting \/ o \in TransitionLeads
                   \/ o % (IF o <= MidEnd THEN 3 ELSE 9) = 0}

AllCandidates == Properties \X CandidateLeads
Candidates == {c \in AllCandidates : ~InCooldown(c)}

\* scoreTarget: 50 more for a forced date, at most 100.
ScoreOf(c) == Min({100, Score[<<c[1], c[2], DateAt(c[2])>>]
                          + IF c[2] \in TransitionLeads THEN 50 ELSE 0})
Better(c, d) ==
    \/ ScoreOf(c) > ScoreOf(d)
    \/ ScoreOf(c) = ScoreOf(d) /\ (c[1] < d[1] \/ (c[1] = d[1] /\ c[2] < d[2]))

\* interleaveAndRotate: one cell of each property after the other, by score;
\* day and slot decide how many of the first round go last.
Interleaved(pool) ==
    LET turn == (day + slot) % Cardinality({c[1] : c \in pool})
        ahead(c) == {d \in pool : d[1] = c[1] /\ Better(d, c)}
        ranked == {[cell |-> c, round |-> Cardinality(ahead(c)),
                    best |-> CHOOSE d \in pool : d[1] = c[1] /\ ahead(d) = {}] : c \in pool}
        before(x) == {y \in ranked : \/ y.round < x.round
                                     \/ (y.round = x.round /\ Better(y.best, x.best))} IN
    {[cell |-> x.cell, place |-> (Cardinality(before(x)) - turn + Cardinality(pool))
                                    % Cardinality(pool)] : x \in ranked}

\* Mutant of Band: all critical cells count as fresh.
BandUnranked(c) == IF Critical(c) THEN 3 ELSE IF c[1] \in Booking THEN 4 ELSE 5

\* The service bands of critical cells, then the rest by source.
Band(c) == IF Critical(c) THEN ServiceRank(c, Deadline)
           ELSE IF c[1] \in Booking THEN 4 ELSE 5
Pool(b) == {c \in Candidates : Band(c) = b}

\* Too many starved cells (over 12 + 5 percent) hold back what of the lane is
\* not urgent.
Backpressure ==
    100 * Cardinality(Pool(0) \cup Pool(1))
        > 17 * Cardinality({c \in AllCandidates : Critical(c)})
LaneKept ==
    {c \in DOMAIN winter :
        Backpressure => \/ winter[c] = "TRANSITION"
                        \/ /\ winter[c] = "ACTIVE"
                           /\ ActiveRefresh \/ c[2] <= Mid}
LaneUrgent == {c \in LaneKept : winter[c] # "WARM"}
LaneWarm == LaneKept \ LaneUrgent

Entries == {[cell |-> c, warm |-> FALSE] : c \in Candidates}
             \cup {[cell |-> c, warm |-> TRUE] : c \in LaneWarm}

\* The order in which the passes go through the entries: starved cells, as
\* many as leave room for the warm ones, these, and all the others.
Queue ==
    LET places == UNION {Interleaved(Pool(b)) : b \in 0..5}
        position(c) == (CHOOSE x \in places : x.cell = c).place
        big == Cardinality(Cells)
        room == Max({0, BookingCap - Cardinality(LaneKept)})
        warm(c) == big + Cardinality({d \in LaneWarm :
                            d[1] < c[1] \/ (d[1] = c[1] /\ LaneOrder(d, c))})
        starved(c) == LET n == position(c)
                                 + IF Band(c) = 1 THEN Cardinality(Pool(0)) ELSE 0 IN
                      IF n < room THEN n ELSE 2 * big + n
        other(c) == (Band(c) + 1) * big + position(c) IN
    [e \in Entries |-> IF e.warm THEN warm(e.cell)
                      ELSE IF Band(e.cell) <= 1 THEN starved(e.cell) ELSE other(e.cell)]

\* The plan begins: the urgent cells of the lane are in it from the start.
BeginPlan ==
    /\ pc = "lane"
    /\ pc' = "plan" /\ pass' = 1
    /\ lane' = LaneUrgent /\ chosen' = {}
    /\ queue' = Queue
    /\ UNCHANGED <<clock, age, manifest, served, ledger, asked, winter, changes, failures>>

Targets == lane \cup chosen
TargetsOf(source) == {c \in Targets : c[1] \in source}
Full == Cardinality(Targets) >= BookingCap + JalanCap

\* The soft limits on the share of a bucket (35, 40 and 25 percent) and a
\* tier (70 percent) in a plan.
Share(percent) == CeilDiv((BookingCap + JalanCap) * percent, 100)
BucketMax(b) == 1 + Share(IF b = "short" THEN 35 ELSE IF b = "mid" THEN 40 ELSE 25)
Balanced(c) ==
    /\ Cardinality({d \in chosen : Bucket(d[2]) = Bucket(c[2])}) < BucketMax(Bucket(c[2]))
    /\ Cardinality({d \in chosen : TierOf[d[1]] = TierOf[c[1]]}) < Share(70)

\* What a pass lets in: each one drops a limit of the one before, which are
\* balance, one cell per date, two per property.
Eligible(e, ps) ==
    LET c == e.cell IN
    /\ c \notin Targets
    /\ IF c[1] \in Booking THEN Cardinality(TargetsOf(Booking)) < BookingCap
       ELSE Cardinality(TargetsOf(Jalan)) < JalanCap
    /\ \/ e.warm
       \/ /\ ps <= 3 => Cardinality({d \in chosen : d[1] = c[1]}) < 2
          /\ ps <= 2 => \A d \in chosen : d[2] # c[2]
          /\ ps = 1 => Balanced(c)

\* One step of a pass takes the first entry it lets in; what it did not let in
\* before it does not let in now.
Select ==
    /\ pc = "plan" /\ ~Full
    /\ \E e \in DOMAIN queue :
          /\ Eligible(e, pass)
          /\ \A f \in DOMAIN queue : queue[f] < queue[e] => ~Eligible(f, pass)
          /\ IF e.warm THEN lane' = lane \cup {e.cell} /\ UNCHANGED chosen
             ELSE chosen' = chosen \cup {e.cell} /\ UNCHANGED lane
    /\ UNCHANGED <<clock, age, manifest, served, ledger, asked, pc, winter, pass,
                   queue, changes, failures>>

Exhausted == \A e \in DOMAIN queue : ~Eligible(e, pass)

\* Mutant of LastPass: the limit per property is never dropped.
LastPassLimited == 3
LastPass == 4

Relax ==
    /\ pc = "plan" /\ ~Full /\ Exhausted /\ pass < LastPass
    /\ pass' = pass + 1
    /\ UNCHANGED <<clock, age, manifest, served, ledger, asked, pc, winter, queue,
                   lane, chosen, changes, failures>>

NoPlan == winter' = <<>> /\ pass' = 1 /\ queue' = <<>> /\ lane' = {} /\ chosen' = {}

\* Mutant of EndPlan: the ledger is not written.
EndPlanForgetful ==
    /\ pc = "plan"
    /\ Full \/ (Exhausted /\ pass = LastPass)
    /\ pc' = "collect"
    /\ UNCHANGED <<clock, age, manifest, served, ledger, asked, plan, changes, failures>>

\* The plan is made; its transitions are recorded before anything is visited.
EndPlan ==
    /\ pc = "plan"
    /\ Full \/ (Exhausted /\ pass = LastPass)
    /\ pc' = "collect"
    /\ ledger' = ledger \cup {c \in lane : winter[c] = "TRANSITION"}
    /\ UNCHANGED <<clock, age, manifest, served, asked, plan, changes, failures>>
\* The file is cut off before it is written, and a file cut off reads as no
\* key at all: a run that dies in between loses the ledger.
LedgerTorn ==
    /\ pc = "plan" /\ failures < MaxFailures
    /\ Full \/ (Exhausted /\ pass = LastPass)
    /\ \E c \in lane : winter[c] = "TRANSITION"
    /\ ledger' = {} /\ asked' = {}
    /\ failures' = failures + 1
    /\ pc' = "done" /\ NoPlan
    /\ UNCHANGED <<clock, age, manifest, served, changes>>
-----------------------------------------------------------------------------
(* Runs, time and the world outside.                                         *)

\* The targets are visited; those that yield an acceptable row are stamped.
\* A run that dies later on yields none, one that is refused by a source only
\* those of the other; and single targets may fail.
Collect ==
    /\ pc = "collect"
    /\ \E rows \in SUBSET Targets :
          /\ \/ rows \in {{}, TargetsOf(Booking), TargetsOf(Jalan)}
             \/ Cardinality(Targets \ rows) <= MaxLost
          /\ rows # Targets => failures < MaxFailures
          /\ failures' = IF rows = Targets THEN failures ELSE failures + 1
          /\ age' = [c \in Cells |-> IF c \in rows THEN 0 ELSE age[c]]
          /\ served' = served \cup rows
    /\ asked' = asked \cup {c \in Targets : InCooldown(c)}
    /\ pc' = "done" /\ NoPlan
    /\ UNCHANGED <<clock, manifest, ledger, changes>>

\* The run dies before it visits anything, or there is none in this slot.
Missed ==
    /\ pc # "done" /\ failures < MaxFailures
    /\ failures' = failures + 1
    /\ pc' = "done" /\ NoPlan
    /\ UNCHANGED <<clock, age, manifest, served, ledger, asked, changes>>

Older(a) == IF a = Never THEN Never ELSE Min({Oldest, a + 1})

NextSlot ==
    /\ pc = "done" /\ slot + 1 < Slots
    /\ slot' = slot + 1 /\ pc' = "idle"
    /\ age' = [c \in Cells |-> Older(age[c])]
    /\ UNCHANGED <<day, manifest, served, ledger, asked, plan, changes, failures>>

\* Mutant of Tomorrow: dates that are over are kept.
TomorrowAndPast(S) == {<<c[1], c[2] - 1>> : c \in S}

\* What is known of a cell, a day closer to its date.
Tomorrow(S) == {<<c[1], c[2] - 1>> : c \in {d \in S : d[2] > 1}}
Closer(S) == {o - 1 : o \in S \ {1}}

\* Midnight: every stay date is one day closer and a new one is in sight.
NextDay ==
    /\ pc = "done" /\ slot + 1 = Slots
    /\ slot' = 0 /\ day' = (day + 1) % Week /\ pc' = "idle"
    /\ age' = [c \in Cells |-> IF c[2] = Horizon THEN Never
                               ELSE Older(age[<<c[1], c[2] + 1>>])]
    /\ sellable' = Closer(sellable) /\ newly' = Closer(newly)
    /\ served' = Tomorrow(served) /\ ledger' = Tomorrow(ledger)
    /\ asked' = Tomorrow(asked)
    /\ UNCHANGED <<plan, changes, failures>>

OfDate(S, o) == {c \in S : c[2] = o}

\* The manifest reports a winter date newly on sale: a new generation, whose
\* keys the ledger does not have and after which nothing was observed yet.
Detect(o) ==
    /\ pc = "idle" /\ changes < MaxChanges /\ o \in WinterLeads
    /\ sellable' = sellable \cup {o} /\ newly' = newly \cup {o}
    /\ served' = served \ OfDate(served, o)
    /\ ledger' = ledger \ OfDate(ledger, o)
    /\ asked' = asked \ OfDate(asked, o)
    /\ changes' = changes + 1
    /\ UNCHANGED <<clock, age, pc, plan, failures>>

\* It lists a date it did not list, of a generation known before: the date is
\* back on sale, or the manifest is readable and fresh again.
Restore(o) ==
    /\ pc = "idle" /\ changes < MaxChanges /\ o \in WinterLeads \ sellable
    /\ sellable' = sellable \cup {o} /\ newly' \in {newly, newly \cup {o}}
    /\ changes' = changes + 1
    /\ UNCHANGED <<clock, age, served, ledger, asked, pc, plan, failures>>

\* It no longer does, or is stale or unreadable: then no date is on sale.
Withdraw ==
    /\ pc = "idle" /\ changes < MaxChanges
    /\ \/ newly # {} /\ newly' = {} /\ UNCHANGED sellable
       \/ \E o \in sellable : sellable' = sellable \ {o} /\ newly' = newly \ {o}
       \/ sellable # {} /\ sellable' = {} /\ newly' = {}
    /\ changes' = changes + 1
    /\ UNCHANGED <<clock, age, served, ledger, asked, pc, plan, failures>>

Run == PlanWinterLane \/ BeginPlan \/ Select \/ Relax \/ EndPlan \/ Collect
Time == NextSlot \/ NextDay

Next == Run \/ LedgerTorn \/ Missed \/ Time \/ (\E o \in Leads : Detect(o) \/ Restore(o)) \/ Withdraw

Spec == Init /\ [][Next]_vars

\* The two steps that compute, as what pc shows of them.
Moves(from, to) == pc = from /\ pc' = to

\* The runs are scheduled, a run that began goes on, and time passes.
FairSpec ==
    /\ Spec
    /\ WF_pc(Moves("idle", "lane")) /\ WF_pc(Moves("lane", "plan"))
    /\ WF_vars(Select \/ Relax \/ EndPlan \/ Collect)
    /\ WF_vars(Time)
=============================================================================
