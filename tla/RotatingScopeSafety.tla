------------------------ MODULE RotatingScopeSafety -------------------------
(* What the rotating plans guarantee for every universe of properties, every *)
(* calendar, every score and every history: the types, that the cooldown of  *)
(* a cell is cut short once for each time its date was found newly on sale   *)
(* (as far back as the ledger was last lost), and that no page is left       *)
(* unused.  The second needs OverrideInv: a cell                             *)
(* was so visited only if it is in the ledger, and while a run plans, a cell *)
(* in cooldown can come into the plan only as a transition that is not in    *)
(* the ledger.  The third needs that the winter lane keeps within the cap of *)
(* Booking: its cells can be numbered into the pages of the scaled quotas,   *)
(* which add up to no more than the lane's budget.                           *)
EXTENDS RotatingScopeProps, FiniteSetTheorems, TLAPS

-----------------------------------------------------------------------------
(* What the operators of the planner pick, they pick from what is there.     *)

LEMMA PickedIsDue ==
    ASSUME NEW p
    PROVE  PickedOf(p) \subseteq DueOf(p)
  <1>. DEFINE urgent == {c \in DueOf(p) : LaneClass(c) # "WARM"}
              warm == DueOf(p) \ urgent
  <1>1. \A n : FirstOf(urgent, n, LaneOrder) \subseteq DueOf(p)
    BY DEF FirstOf
  <1>2. \A n : FirstOf(warm, n, LaneOrder) \subseteq DueOf(p)
    BY DEF FirstOf
  <1>. QED
    BY <1>1, <1>2 DEF PickedOf

LEMMA LaneInCells ==
    UNION {PickedOf(p) : p \in LaneProperties} \subseteq Cells
  <1>1. LaneProperties \subseteq Properties
    BY ScopeAssumption DEF LaneProperties, Properties
  <1>2. \A p \in Properties : DueOf(p) \subseteq Cells
    BY DEF DueOf, LaneLeads, WinterLeads, Cells
  <1>. QED
    BY <1>1, <1>2, PickedIsDue

LEMMA CandidatesInCells == Candidates \subseteq Cells
  BY DEF Candidates, AllCandidates, CandidateLeads, Cells

LEMMA QueueDomain == DOMAIN Queue = Entries
  BY Zenon DEF Queue

LEMMA OlderIsAge ==
    ASSUME NEW a \in Ages
    PROVE  Older(a) \in Ages
  <1>1. CASE a = Never
    BY <1>1 DEF Older, Ages
  <1>2. CASE a # Never
    <2>1. a \in 0..Oldest /\ Oldest \in Nat
      BY <1>2, ScopeAssumption DEF Ages
    <2>2. PICK m \in {Oldest, a + 1} : \A y \in {Oldest, a + 1} : m <= y
      BY <2>1
    <2>3. Min({Oldest, a + 1}) \in {Oldest, a + 1}
              /\ Min({Oldest, a + 1}) <= Oldest
      BY <2>1, <2>2 DEF Min
    <2>. QED
      BY <1>2, <2>1, <2>3 DEF Older, Ages
  <1>. QED
    BY <1>1, <1>2

LEMMA TomorrowInCells ==
    ASSUME NEW S \in SUBSET Cells
    PROVE  Tomorrow(S) \in SUBSET Cells
  BY ScopeAssumption DEF Tomorrow, Cells, Leads

-----------------------------------------------------------------------------
(* The variables keep their types.                                           *)

LEMMA TypeOKInit == Init => TypeOK
  BY ScopeAssumption DEF Init, TypeOK, Pc, Ages

LEMMA PlanWinterLaneType == TypeOK /\ PlanWinterLane => TypeOK'
  <1>. SUFFICES ASSUME TypeOK, PlanWinterLane
                PROVE  TypeOK'
    OBVIOUS
  <1>1. winter' = [c \in UNION {PickedOf(p) : p \in LaneProperties} |-> LaneClass(c)]
    BY DEF PlanWinterLane
  <1>2. \A c : LaneClass(c) \in Classes
    BY DEF LaneClass, Classes
  <1>3. DOMAIN winter' \in SUBSET Cells /\ \A c \in DOMAIN winter' : winter'[c] \in Classes
    BY <1>1, <1>2, LaneInCells
  <1>. QED
    BY <1>3 DEF PlanWinterLane, TypeOK, Pc, clock, manifest

LEMMA BeginPlanType == TypeOK /\ BeginPlan => TypeOK'
  <1>. SUFFICES ASSUME TypeOK, BeginPlan
                PROVE  TypeOK'
    OBVIOUS
  <1>1. LaneUrgent \subseteq Cells /\ LaneWarm \subseteq Cells
    BY DEF TypeOK, LaneUrgent, LaneWarm, LaneKept
  <1>2. DOMAIN queue' = Entries
    BY QueueDomain DEF BeginPlan
  <1>3. Entries \subseteq Entry
    <2>1. ASSUME NEW c \in Cells
          PROVE  [cell |-> c, warm |-> FALSE] \in Entry /\ [cell |-> c, warm |-> TRUE] \in Entry
      BY DEF Entry
    <2>. QED
      BY Zenon, <1>1, <2>1, CandidatesInCells DEF Entries
  <1>. QED
    BY <1>1, <1>2, <1>3 DEF BeginPlan, TypeOK, Pc, clock, manifest

LEMMA PlanStepType == TypeOK /\ (Select \/ Relax \/ EndPlan) => TypeOK'
  <1>. SUFFICES ASSUME TypeOK, Select \/ Relax \/ EndPlan
                PROVE  TypeOK'
    OBVIOUS
  <1>1. CASE Select
    <2>1. PICK e \in DOMAIN queue :
              IF e.warm THEN lane' = lane \cup {e.cell} /\ UNCHANGED chosen
              ELSE chosen' = chosen \cup {e.cell} /\ UNCHANGED lane
      BY <1>1 DEF Select
    <2>2. e.cell \in Cells
      BY DEF TypeOK, Entry
    <2>3. lane' \in SUBSET Cells /\ chosen' \in SUBSET Cells
      BY <2>1, <2>2 DEF TypeOK
    <2>. QED
      BY <1>1, <2>3 DEF Select, TypeOK, clock, manifest
  <1>2. CASE Relax
    BY <1>2 DEF Relax, LastPass, TypeOK, clock, manifest
  <1>3. CASE EndPlan
    BY <1>3 DEF EndPlan, TypeOK, Pc, clock, manifest, plan
  <1>. QED
    BY <1>1, <1>2, <1>3

LEMMA NoPlanType ==
    NoPlan => /\ DOMAIN winter' = {} /\ DOMAIN queue' = {}
              /\ pass' = 1 /\ lane' = {} /\ chosen' = {}
  BY DEF NoPlan

LEMMA CollectType == TypeOK /\ (Collect \/ Missed \/ LedgerTorn) => TypeOK'
  <1>. SUFFICES ASSUME TypeOK, Collect \/ Missed \/ LedgerTorn
                PROVE  TypeOK'
    OBVIOUS
  <1>1. failures' \in 0..MaxFailures
    <2>1. failures < MaxFailures => failures + 1 \in 0..MaxFailures
      BY ScopeAssumption DEF TypeOK
    <2>. QED
      BY <2>1 DEF Collect, Missed, LedgerTorn, TypeOK
  <1>2. CASE Collect
    <2>1. PICK rows \in SUBSET Targets :
              /\ age' = [c \in Cells |-> IF c \in rows THEN 0 ELSE age[c]]
              /\ served' = served \cup rows
      BY <1>2 DEF Collect
    <2>2. Targets \subseteq Cells
      BY DEF TypeOK, Targets
    <2>3. 0 \in Ages
      BY ScopeAssumption DEF Ages
    <2>4. age' \in [Cells -> Ages] /\ served' \in SUBSET Cells
      BY <2>1, <2>2, <2>3 DEF TypeOK
    <2>5. asked' \in SUBSET Cells
      BY <1>2, <2>2 DEF Collect, TypeOK
    <2>. QED
      BY <1>1, <1>2, <2>4, <2>5, NoPlanType DEF Collect, TypeOK, Pc, clock, manifest
  <1>3. CASE Missed
    BY <1>1, <1>3, NoPlanType DEF Missed, TypeOK, Pc, clock, manifest
  <1>4. CASE LedgerTorn
    BY <1>1, <1>4, NoPlanType DEF LedgerTorn, TypeOK, Pc, clock, manifest
  <1>. QED
    BY <1>2, <1>3, <1>4

LEMMA TimeType == TypeOK /\ Time => TypeOK'
  <1>. SUFFICES ASSUME TypeOK, Time
                PROVE  TypeOK'
    OBVIOUS
  <1>1. CASE NextSlot
    <2>1. age' \in [Cells -> Ages]
      BY <1>1, OlderIsAge DEF NextSlot, TypeOK
    <2>2. slot' \in 0..Slots - 1
      BY <1>1, ScopeAssumption DEF NextSlot, TypeOK
    <2>. QED
      BY <1>1, <2>1, <2>2 DEF NextSlot, TypeOK, Pc, manifest, plan
  <1>2. CASE NextDay
    <2>1. day' \in 0..Week - 1 /\ slot' \in 0..Slots - 1
      BY <1>2, ScopeAssumption DEF NextDay, TypeOK
    <2>2. age' \in [Cells -> Ages]
      <3>1. \A c \in Cells : c[2] # Horizon => <<c[1], c[2] + 1>> \in Cells
        BY ScopeAssumption DEF Cells, Leads
      <3>2. Never \in Ages
        BY DEF Ages
      <3>. QED
        BY <1>2, <3>1, <3>2, OlderIsAge DEF NextDay, TypeOK
    <2>3. sellable' \in SUBSET Leads /\ newly' \in SUBSET sellable'
      <3>1. \A S \in SUBSET Leads : Closer(S) \in SUBSET Leads
        BY ScopeAssumption DEF Closer, Leads
      <3>. QED
        BY <1>2, <3>1 DEF NextDay, TypeOK, Closer
    <2>4. /\ served' \in SUBSET Cells /\ ledger' \in SUBSET Cells
          /\ asked' \in SUBSET Cells
      BY <1>2, TomorrowInCells DEF NextDay, TypeOK
    <2>. QED
      BY <1>2, <2>1, <2>2, <2>3, <2>4 DEF NextDay, TypeOK, Pc, plan
  <1>. QED
    BY <1>1, <1>2 DEF Time

LEMMA ManifestType ==
    TypeOK /\ ((\E o \in Leads : Detect(o) \/ Restore(o)) \/ Withdraw) => TypeOK'
  <1>. SUFFICES ASSUME TypeOK, (\E o \in Leads : Detect(o) \/ Restore(o)) \/ Withdraw
                PROVE  TypeOK'
    OBVIOUS
  <1>1. changes' \in 0..MaxChanges
    BY ScopeAssumption DEF TypeOK, Detect, Restore, Withdraw
  <1>2. ASSUME NEW o \in Leads, Detect(o) PROVE TypeOK'
    BY <1>1, <1>2 DEF Detect, OfDate, TypeOK, clock, plan
  <1>3. ASSUME NEW o \in Leads, Restore(o) PROVE TypeOK'
    BY <1>1, <1>3 DEF Restore, TypeOK, clock, plan
  <1>4. CASE Withdraw
    <2>1. sellable' \in SUBSET Leads /\ newly' \in SUBSET sellable'
      BY <1>4 DEF Withdraw, TypeOK
    <2>. QED
      BY <1>1, <1>4, <2>1 DEF Withdraw, TypeOK, clock, plan
  <1>. QED
    BY <1>2, <1>3, <1>4

\* The variables of the rotating scope keep their types: every cell planned,
\* visited or remembered is a cell of the universe within the horizon
\* (buildRotatingPlan and the ledger of the runner).
THEOREM ScopeTypes == Spec => []TypeOK
  <1>1. TypeOK /\ [Next]_vars => TypeOK'
    <2>1. TypeOK /\ UNCHANGED vars => TypeOK'
      BY DEF TypeOK, vars, clock, manifest, plan
    <2>. QED
      BY <2>1, PlanWinterLaneType, BeginPlanType, PlanStepType, CollectType, TimeType,
         ManifestType DEF Next, Run
  <1>. QED
    BY TypeOKInit, <1>1, PTL DEF Spec

-----------------------------------------------------------------------------
(* The override of the cooldown.                                             *)

\* A visit within the cooldown since its finding is in the ledger.
AskedIsRecorded == asked \subseteq ledger

\* What the lane selected within the cooldown is an override not used yet.
Unused(c) == winter[c] = "TRANSITION" /\ c[1] \in Comparable /\ c \notin ledger
LaneOverrides ==
    pc \in {"lane", "plan"} => \A c \in DOMAIN winter : InCooldown(c) => Unused(c)

\* A plan takes cells in cooldown from the lane only.
PlanFromLane ==
    pc = "plan" =>
        /\ lane \subseteq DOMAIN winter
        /\ \A c \in chosen : ~InCooldown(c)
        /\ \A e \in DOMAIN queue : IF e.warm THEN e.cell \in DOMAIN winter
                                   ELSE ~InCooldown(e.cell)

\* When the visits begin, the overrides among them are in the ledger.
VisitsRecorded == pc = "collect" => \A c \in Targets : InCooldown(c) => c \in ledger

OverrideInv ==
    /\ AskedIsRecorded /\ LaneOverrides /\ PlanFromLane /\ VisitsRecorded
    /\ OverridesOnce

LEMMA OverrideInit == Init => OverrideInv
  BY DEF Init, OverrideInv, AskedIsRecorded, LaneOverrides, PlanFromLane,
         VisitsRecorded, OverridesOnce

\* A cell in cooldown is due only as a transition of a comparable property.
LEMMA DueInCooldown ==
    ASSUME NEW p, NEW c \in PickedOf(p), InCooldown(c)
    PROVE  LaneClass(c) = "TRANSITION" /\ c[1] \in Comparable /\ c \notin ledger
  <1>1. DueInLane(c)
    BY PickedIsDue DEF DueOf
  <1>2. Transition(c) /\ c[1] \in Comparable
    BY <1>1 DEF DueInLane
  <1>. QED
    BY <1>2 DEF LaneClass, Transition

LEMMA LaneStepOverride == OverrideInv /\ PlanWinterLane => OverrideInv'
  <1>. SUFFICES ASSUME OverrideInv, PlanWinterLane
                PROVE  OverrideInv'
    OBVIOUS
  <1>1. /\ winter' = [c \in UNION {PickedOf(p) : p \in LaneProperties} |-> LaneClass(c)]
        /\ pc' = "lane" /\ age' = age /\ ledger' = ledger /\ asked' = asked
    BY DEF PlanWinterLane
  <1>2. ASSUME NEW c \in DOMAIN winter', InCooldown(c)
        PROVE  winter'[c] = "TRANSITION" /\ c[1] \in Comparable /\ c \notin ledger
    <2>1. PICK p \in LaneProperties : c \in PickedOf(p)
      BY <1>1, <1>2
    <2>2. winter'[c] = LaneClass(c)
      BY <1>1, <2>1
    <2>. QED
      BY <1>2, <2>1, <2>2, DueInCooldown
  <1>3. LaneOverrides'
    BY <1>1, <1>2 DEF LaneOverrides, Unused, InCooldown
  <1>. QED
    BY <1>1, <1>3 DEF OverrideInv, AskedIsRecorded, PlanFromLane, VisitsRecorded,
                      OverridesOnce

LEMMA BeginPlanOverride == OverrideInv /\ BeginPlan => OverrideInv'
  <1>. SUFFICES ASSUME OverrideInv, BeginPlan
                PROVE  OverrideInv'
    OBVIOUS
  <1>1. /\ pc = "lane" /\ pc' = "plan" /\ lane' = LaneUrgent /\ chosen' = {}
        /\ DOMAIN queue' = Entries /\ winter' = winter
        /\ age' = age /\ ledger' = ledger /\ asked' = asked
    BY QueueDomain DEF BeginPlan
  <1>2. LaneUrgent \subseteq DOMAIN winter /\ LaneWarm \subseteq DOMAIN winter
    BY DEF LaneUrgent, LaneWarm, LaneKept
  <1>3. ASSUME NEW e \in Entries
        PROVE  IF e.warm THEN e.cell \in DOMAIN winter ELSE ~InCooldown(e.cell)
    <2>1. CASE \E c \in Candidates : e = [cell |-> c, warm |-> FALSE]
      BY <2>1 DEF Candidates
    <2>2. CASE \E c \in LaneWarm : e = [cell |-> c, warm |-> TRUE]
      BY <1>2, <2>2
    <2>. QED
      BY <2>1, <2>2 DEF Entries
  <1>4. PlanFromLane'
    BY <1>1, <1>2, <1>3 DEF PlanFromLane, InCooldown
  <1>. QED
    BY <1>1, <1>4 DEF OverrideInv, AskedIsRecorded, LaneOverrides, Unused, InCooldown,
                      VisitsRecorded, OverridesOnce

LEMMA SelectOverride == OverrideInv /\ (Select \/ Relax) => OverrideInv'
  <1>. SUFFICES ASSUME OverrideInv, Select \/ Relax
                PROVE  OverrideInv'
    OBVIOUS
  <1>1. /\ pc = "plan" /\ pc' = "plan" /\ winter' = winter /\ queue' = queue
        /\ age' = age /\ ledger' = ledger /\ asked' = asked
    BY DEF Select, Relax
  <1>2. lane' \subseteq DOMAIN winter /\ \A c \in chosen' : ~InCooldown(c)
    <2>1. CASE Select
      BY <1>1, <2>1 DEF Select, OverrideInv, PlanFromLane
    <2>2. CASE Relax
      BY <1>1, <2>2 DEF Relax, OverrideInv, PlanFromLane
    <2>. QED
      BY <2>1, <2>2
  <1>3. PlanFromLane'
    BY <1>1, <1>2 DEF OverrideInv, PlanFromLane, InCooldown
  <1>. QED
    BY <1>1, <1>3 DEF OverrideInv, AskedIsRecorded, LaneOverrides, Unused, InCooldown,
                      VisitsRecorded, OverridesOnce

\* The plan ends: what it takes from the lane in cooldown was not used, hence
\* not visited, before, and is recorded now.
LEMMA EndPlanOverride == OverrideInv /\ EndPlan => OverrideInv'
  <1>. SUFFICES ASSUME OverrideInv, EndPlan
                PROVE  OverrideInv'
    OBVIOUS
  <1>1. /\ pc = "plan" /\ pc' = "collect" /\ age' = age /\ asked' = asked
        /\ lane' = lane /\ chosen' = chosen
        /\ ledger' = ledger \cup {c \in lane : winter[c] = "TRANSITION"}
    BY DEF EndPlan, plan
  <1>2. ASSUME NEW c \in Targets, InCooldown(c)
        PROVE  c \in ledger' /\ c[1] \in Comparable /\ c \notin asked
    <2>1. c \in lane /\ c \in DOMAIN winter
      BY <1>1, <1>2 DEF OverrideInv, PlanFromLane, Targets
    <2>2. Unused(c)
      BY <1>1, <1>2, <2>1 DEF OverrideInv, LaneOverrides
    <2>. QED
      BY <1>1, <2>1, <2>2 DEF Unused, OverrideInv, AskedIsRecorded
  <1>3. VisitsRecorded' /\ OverridesOnce'
    BY <1>1, <1>2 DEF VisitsRecorded, OverridesOnce, Targets, InCooldown
  <1>. QED
    BY <1>1, <1>3 DEF OverrideInv, AskedIsRecorded, LaneOverrides, PlanFromLane

LEMMA CollectOverride ==
    OverrideInv /\ (Collect \/ Missed \/ LedgerTorn) => OverrideInv'
  <1>. SUFFICES ASSUME OverrideInv, Collect \/ Missed \/ LedgerTorn
                PROVE  OverrideInv'
    OBVIOUS
  <1>1. pc' = "done"
    BY DEF Collect, Missed, LedgerTorn
  <1>2. asked' \subseteq ledger'
    BY DEF Collect, Missed, LedgerTorn, OverrideInv, AskedIsRecorded, VisitsRecorded
  <1>. QED
    BY <1>1, <1>2 DEF OverrideInv, AskedIsRecorded, LaneOverrides, PlanFromLane,
                      VisitsRecorded, OverridesOnce

LEMMA OutsideOverride ==
    OverrideInv /\ (Time \/ (\E o \in Leads : Detect(o) \/ Restore(o)) \/ Withdraw)
        => OverrideInv'
  <1>. SUFFICES ASSUME OverrideInv,
                       Time \/ (\E o \in Leads : Detect(o) \/ Restore(o)) \/ Withdraw
                PROVE  OverrideInv'
    OBVIOUS
  <1>1. pc' = "idle"
    BY DEF Time, NextSlot, NextDay, Detect, Restore, Withdraw
  <1>2. asked' \subseteq ledger'
    BY DEF Time, NextSlot, NextDay, Tomorrow, Detect, OfDate, Restore, Withdraw,
           OverrideInv, AskedIsRecorded
  <1>. QED
    BY <1>1, <1>2 DEF OverrideInv, AskedIsRecorded, LaneOverrides, PlanFromLane,
                      VisitsRecorded, OverridesOnce

\* The cooldown of a cell is cut short at most once for each time its date was
\* found newly on sale, whichever runs die before, during or after their visits,
\* unless a run died while it wrote the ledger in between: the truncated file
\* reads as empty, and every date recorded in it may be overridden once more
\* (winter_transition_overrides.json is written in place, before the collection
\* it is about).
THEOREM OverridesTheorem == Spec => []OverridesOnce
  <1>1. OverrideInv /\ [Next]_vars => OverrideInv'
    <2>1. OverrideInv /\ UNCHANGED vars => OverrideInv'
      BY DEF vars, clock, manifest, plan, OverrideInv, AskedIsRecorded, LaneOverrides,
             Unused, PlanFromLane, VisitsRecorded, OverridesOnce, Targets, InCooldown
    <2>. QED
      BY <2>1, LaneStepOverride, BeginPlanOverride, SelectOverride, EndPlanOverride,
         CollectOverride, OutsideOverride DEF Next, Run
  <1>2. OverrideInv => OverridesOnce
    BY DEF OverrideInv
  <1>. QED
    BY OverrideInit, <1>1, <1>2, PTL DEF Spec

-----------------------------------------------------------------------------
(* Sums and ranks.                                                           *)

LEMMA MinOfTwo ==
    ASSUME NEW a \in Int, NEW b \in Int
    PROVE  Min({a, b}) = IF a <= b THEN a ELSE b
  <1>1. PICK m \in {a, b} : \A y \in {a, b} : m <= y
    OBVIOUS
  <1>2. Min({a, b}) \in {a, b} /\ \A y \in {a, b} : Min({a, b}) <= y
    BY <1>1 DEF Min
  <1>. QED
    BY <1>2

LEMMA MaxOfTwo ==
    ASSUME NEW a \in Int, NEW b \in Int
    PROVE  Max({a, b}) = IF a >= b THEN a ELSE b
  <1>1. PICK m \in {a, b} : \A y \in {a, b} : m >= y
    OBVIOUS
  <1>2. Max({a, b}) \in {a, b} /\ \A y \in {a, b} : Max({a, b}) >= y
    BY <1>1 DEF Max
  <1>. QED
    BY <1>2

LEMMA DivMod ==
    ASSUME NEW n \in Nat, NEW b \in Nat \ {0}
    PROVE  /\ n \div b \in Nat /\ n % b \in 0..b - 1
           /\ n = b * (n \div b) + (n % b)
           /\ b * (n \div b) <= n
  <1>1. n % b \in 0..b - 1 /\ n = b * (n \div b) + (n % b)
    OBVIOUS
  <1>2. n \div b \in Nat
    <2>1. n \div b \in Int
      OBVIOUS
    <2>2. CASE n \div b <= -1
      <3>1. b * (n \div b) <= b * (-1)
        BY <2>1, <2>2
      <3>. QED
        BY <1>1, <3>1
    <2>. QED
      BY <2>1, <2>2
  <1>. QED
    BY <1>1, <1>2

LEMMA SameQuotient ==
    ASSUME NEW n \in Nat, NEW m \in Nat, NEW b \in Nat \ {0},
           n \div b = m \div b, n % b = m % b
    PROVE  n = m
  <1>1. n = b * (n \div b) + (n % b)
    BY DivMod
  <1>2. m = b * (m \div b) + (m % b)
    BY DivMod
  <1>. QED
    BY <1>1, <1>2

LEMMA UnitsFinite ==
    ASSUME NEW D, IsFiniteSet(D), NEW f \in [D -> Nat]
    PROVE  IsFiniteSet(Units(f)) /\ Total(f) \in Nat
  <1>. DEFINE g == [x \in D |-> {x} \X (1..f[x])]
              T == {{x} \X (1..f[x]) : x \in D}
  <1>1. g \in Surjection(D, T)
    BY DEF Surjection
  <1>2. IsFiniteSet(T)
    BY <1>1, FS_Surjection
  <1>3. ASSUME NEW x \in D PROVE IsFiniteSet({x} \X (1..f[x]))
    <2>1. IsFiniteSet(1..f[x])
      BY <1>3, FS_Interval
    <2>. QED
      BY <2>1, FS_Singleton, FS_Product
  <1>4. IsFiniteSet(UNION T)
    BY <1>2, <1>3, FS_UNION
  <1>. QED
    BY <1>4, FS_CardinalityType DEF Units, Total

\* Shares in proportion, rounded down, never add up to more than there is.
LEMMA SharesFit ==
    ASSUME NEW D, IsFiniteSet(D), NEW raw \in [D -> Nat], NEW b \in Nat,
           Total(raw) > 0
    PROVE  LET whole == [x \in D |-> (raw[x] * b) \div Total(raw)] IN
           whole \in [D -> Nat] /\ Total(whole) <= b
  <1>. DEFINE sum == Total(raw)
              whole == [x \in D |-> (raw[x] * b) \div sum]
              A == Units(whole) \X (1..sum)
              B == Units(raw) \X (1..b)
  <1>1. sum \in Nat \ {0} /\ IsFiniteSet(Units(raw))
    BY UnitsFinite
  <1>. HIDE DEF sum
  <1>2. ASSUME NEW x \in D
        PROVE  whole[x] \in Nat /\ sum * whole[x] <= raw[x] * b
    <2>1. raw[x] * b \in Nat
      OBVIOUS
    <2>. QED
      BY <1>1, <2>1, DivMod
  <1>3. whole \in [D -> Nat]
    BY <1>2
  <1>. HIDE DEF whole
  <1>4. IsFiniteSet(Units(whole)) /\ Total(whole) \in Nat
    BY <1>3, UnitsFinite
  <1>5. ASSUME b = 0 PROVE Total(whole) <= b
    <2>1. ASSUME NEW x \in D PROVE whole[x] = 0
      <3>1. whole[x] \in Nat /\ sum * whole[x] <= 0
        BY <1>2, <1>5
      <3>. QED
        BY <1>1, <3>1
    <2>2. Units(whole) = {}
      BY <1>3, <2>1 DEF Units
    <2>. QED
      BY <1>5, <2>2, FS_EmptySet DEF Total
  <1>6. ASSUME b # 0 PROVE Total(whole) <= b
    <2>. DEFINE N(a) == (a[1][2] - 1) * sum + (a[2] - 1)
                h == [a \in A |-> <<<<a[1][1], N(a) \div b + 1>>, (N(a) % b) + 1>>]
    <2>1. ASSUME NEW a \in A
          PROVE  /\ a = <<<<a[1][1], a[1][2]>>, a[2]>>
                 /\ a[1][1] \in D /\ a[1][2] \in 1..whole[a[1][1]] /\ a[2] \in 1..sum
      BY <1>3, <2>1 DEF Units
    <2>2. ASSUME NEW a \in A
          PROVE  N(a) \in Nat /\ N(a) < raw[a[1][1]] * b
      <3>. DEFINE x == a[1][1]  k == a[1][2]  j == a[2]
      <3>1. x \in D /\ k \in 1..whole[x] /\ j \in 1..sum
        BY <2>1
      <3>2. whole[x] \in Nat /\ sum * whole[x] <= raw[x] * b /\ raw[x] * b \in Nat
        BY <1>2, <3>1
      <3>. HIDE DEF x, k, j
      <3>3. k - 1 \in Nat /\ j - 1 \in Nat /\ k - 1 <= whole[x] - 1 /\ j - 1 < sum
        BY <1>1, <3>1, <3>2
      <3>4. (k - 1) * sum \in Nat /\ (k - 1) * sum <= (whole[x] - 1) * sum
        BY <1>1, <3>2, <3>3
      <3>5. (whole[x] - 1) * sum = sum * whole[x] - sum
        BY <1>1, <3>2
      <3>6. /\ (k - 1) * sum + (j - 1) \in Nat
            /\ (k - 1) * sum + (j - 1) < raw[x] * b
        BY <1>1, <3>2, <3>3, <3>4, <3>5
      <3>. QED
        BY <3>6 DEF x, k, j
    <2>3. ASSUME NEW a \in A PROVE h[a] \in B
      <3>1. N(a) \in Nat /\ N(a) < raw[a[1][1]] * b /\ a[1][1] \in D
        BY <2>1, <2>2
      <3>. HIDE DEF N
      <3>2. /\ N(a) \div b \in Nat /\ N(a) % b \in 0..b - 1
            /\ b * (N(a) \div b) <= N(a)
        BY <1>6, <3>1, DivMod
      <3>3. N(a) \div b < raw[a[1][1]]
        <4>1. SUFFICES ASSUME N(a) \div b >= raw[a[1][1]] PROVE FALSE
          BY <3>1, <3>2
        <4>2. b * (N(a) \div b) >= b * raw[a[1][1]]
          BY <1>6, <3>1, <3>2, <4>1
        <4>. QED
          BY <3>1, <3>2, <4>2
      <3>4. <<a[1][1], N(a) \div b + 1>> \in Units(raw)
        <4>1. N(a) \div b + 1 \in 1..raw[a[1][1]]
          BY <3>1, <3>2, <3>3
        <4>. QED
          BY <3>1, <4>1 DEF Units
      <3>5. (N(a) % b) + 1 \in 1..b
        BY <3>2
      <3>. QED
        BY <2>3, <3>4, <3>5
    <2>4. ASSUME NEW a \in A, NEW c \in A, h[a] = h[c] PROVE a = c
      <3>1. a[1][1] = c[1][1] /\ N(a) \div b = N(c) \div b /\ N(a) % b = N(c) % b
        <4>1. ASSUME NEW d \in A
              PROVE  N(d) \div b \in Nat /\ N(d) % b \in 0..b - 1
          <5>1. N(d) \in Nat
            BY <2>2
          <5>. HIDE DEF N
          <5>. QED
            BY <1>6, <5>1, DivMod
        <4>2. /\ N(a) \div b \in Nat /\ N(c) \div b \in Nat
              /\ N(a) % b \in Nat /\ N(c) % b \in Nat
          BY <4>1
        <4>. HIDE DEF N
        <4>. QED
          BY <2>4, <4>2
      <3>2. N(a) = N(c)
        <4>1. N(a) \in Nat /\ N(c) \in Nat
          BY <2>2
        <4>. HIDE DEF N
        <4>. QED
          BY <1>6, <3>1, <4>1, SameQuotient
      <3>. DEFINE k == a[1][2]  j == a[2]  l == c[1][2]  i == c[2]
      <3>3. /\ k \in 1..whole[a[1][1]] /\ l \in 1..whole[c[1][1]]
            /\ j \in 1..sum /\ i \in 1..sum
            /\ whole[a[1][1]] \in Nat /\ whole[c[1][1]] \in Nat
        BY <1>3, <2>1
      <3>4. (k - 1) * sum + (j - 1) = (l - 1) * sum + (i - 1)
        BY <3>2
      <3>. HIDE DEF k, j, l, i
      <3>5. k = l /\ j = i
        <4>1. k \in Int /\ l \in Int /\ j \in Int /\ i \in Int
          BY <1>1, <3>3
        <4>2. (k - l) * sum = i - j
          BY <1>1, <3>4, <4>1
        <4>3. k - l < 1
          <5>1. SUFFICES ASSUME k - l >= 1 PROVE FALSE
            BY <4>1
          <5>2. (k - l) * sum >= sum
            BY <1>1, <4>1, <5>1
          <5>. QED
            BY <1>1, <3>3, <4>2, <5>2
        <4>4. k - l > -1
          <5>1. SUFFICES ASSUME k - l <= -1 PROVE FALSE
            BY <4>1
          <5>2. (k - l) * sum <= -sum
            BY <1>1, <4>1, <5>1
          <5>. QED
            BY <1>1, <3>3, <4>2, <5>2
        <4>5. k = l
          BY <4>1, <4>3, <4>4
        <4>. QED
          BY <1>1, <4>1, <4>2, <4>5
      <3>. QED
        BY <2>1, <3>1, <3>5 DEF k, j, l, i
    <2>5. h \in Injection(A, B)
      <3>1. h \in [A -> B]
        BY <2>3
      <3>2. \A a, c \in A : h[a] = h[c] => a = c
        BY <2>4
      <3>. HIDE DEF h, A, B
      <3>. QED
        BY <3>1, <3>2 DEF Injection, IsInjective
    <2>6. /\ IsFiniteSet(1..sum) /\ Cardinality(1..sum) = sum
          /\ IsFiniteSet(1..b) /\ Cardinality(1..b) = b
      BY <1>1, <1>6, FS_Interval
    <2>7. IsFiniteSet(B) /\ Cardinality(B) = sum * b
      <3>1. Cardinality(Units(raw)) = sum
        BY DEF sum, Total
      <3>2. IsFiniteSet(B) /\ Cardinality(B) = Cardinality(Units(raw)) * Cardinality(1..b)
        BY <1>1, <2>6, FS_Product
      <3>. QED
        BY <2>6, <3>1, <3>2
    <2>8. Cardinality(A) = Total(whole) * sum
      <3>1. Cardinality(Units(whole)) = Total(whole)
        BY DEF Total
      <3>2. Cardinality(A) = Cardinality(Units(whole)) * Cardinality(1..sum)
        BY <1>4, <2>6, FS_Product
      <3>. QED
        BY <2>6, <3>1, <3>2
    <2>9. Total(whole) * sum <= sum * b
      BY <2>5, <2>7, <2>8, FS_Injection
    <2>10. SUFFICES ASSUME Total(whole) >= b + 1 PROVE FALSE
      BY <1>4
    <2>11. Total(whole) * sum >= (b + 1) * sum
      BY <1>1, <1>4, <2>10
    <2>. QED
      BY <1>1, <1>4, <2>9, <2>11
  <1>. QED
    BY <1>3, <1>5, <1>6 DEF whole, sum

\* R orders S, no two elements alike.
Orders(R, S) ==
    \A x, y, z \in S :
        /\ <<x, x>> \notin R
        /\ <<x, y>> \in R /\ <<y, z>> \in R => <<x, z>> \in R
        /\ x # y => <<x, y>> \in R \/ <<y, x>> \in R

Rank(R, S, x) == Cardinality({y \in S : <<y, x>> \in R})

LEMMA RanksDiffer ==
    ASSUME NEW S, IsFiniteSet(S), NEW R, Orders(R, S), NEW x \in S, NEW y \in S
    PROVE  /\ Rank(R, S, x) \in Nat
           /\ Rank(R, S, x) = Rank(R, S, y) => x = y
  <1>. DEFINE Pre(v) == {w \in S : <<w, v>> \in R}
  <1>1. \A v : IsFiniteSet(Pre(v)) /\ Cardinality(Pre(v)) \in Nat
    BY FS_Subset, FS_CardinalityType
  <1>2. ASSUME NEW v \in S, NEW w \in S, <<v, w>> \in R
        PROVE  Cardinality(Pre(v)) # Cardinality(Pre(w))
    <2>1. Pre(v) \in SUBSET Pre(w) /\ v \in Pre(w) /\ v \notin Pre(v)
      BY <1>2 DEF Orders
    <2>. QED
      BY <1>1, <2>1, FS_Subset
  <1>3. x # y => <<x, y>> \in R \/ <<y, x>> \in R
    BY DEF Orders
  <1>. QED
    BY <1>1, <1>2, <1>3 DEF Rank

\* Of an order no more than n elements come first.
LEMMA FirstAtMost ==
    ASSUME NEW S, IsFiniteSet(S), NEW R, Orders(R, S), NEW n \in Nat
    PROVE  LET F == {x \in S : Rank(R, S, x) < n} IN
           IsFiniteSet(F) /\ Cardinality(F) <= n
  <1>. DEFINE F == {x \in S : Rank(R, S, x) < n}
              h == [x \in F |-> Rank(R, S, x)]
  <1>1. h \in [F -> 0..n - 1]
    BY RanksDiffer
  <1>2. \A x, y \in F : h[x] = h[y] => x = y
    BY RanksDiffer
  <1>3. h \in Injection(F, 0..n - 1)
    <2>. HIDE DEF h, F
    <2>. QED
      BY <1>1, <1>2 DEF Injection, IsInjective
  <1>4. IsFiniteSet(0..n - 1) /\ Cardinality(0..n - 1) = n
    BY FS_Interval
  <1>. QED
    BY <1>3, <1>4, FS_Injection

-----------------------------------------------------------------------------
(* Quotas.                                                                   *)

LEMMA CellsFinite == IsFiniteSet(Cells) /\ IsFiniteSet(Leads)
  <1>1. IsFiniteSet(Leads)
    BY ScopeAssumption, FS_Interval DEF Leads
  <1>. QED
    BY <1>1, ScopeAssumption, FS_Product DEF Cells

LEMMA TargetAgeType == \A o : TargetAge(o) \in Nat \ {0}
  BY ScopeAssumption DEF TargetAge

LEMMA NeededType ==
    ASSUME NEW S, S \subseteq Leads
    PROVE  Needed(S) \in Nat
  <1>. DEFINE f == [o \in S |-> (6 * Slots) \div TargetAge(o)]
  <1>1. IsFiniteSet(S)
    BY CellsFinite, FS_Subset
  <1>2. ASSUME NEW o \in S PROVE f[o] \in Nat
    <2>1. 6 * Slots \in Nat
      BY ScopeAssumption
    <2>. QED
      BY <2>1, TargetAgeType, DivMod
  <1>3. f \in [S -> Nat]
    BY <1>2
  <1>. HIDE DEF f
  <1>4. Total(f) \in Nat
    BY <1>1, <1>3, UnitsFinite
  <1>. QED
    BY <1>4 DEF Needed, f

LEMMA PerRunType ==
    ASSUME NEW n \in Nat
    PROVE  PerRun(n) \in Nat
  <1>1. 6 * Slots \in Nat \ {0} /\ n + 6 * Slots - 1 \in Nat
    BY ScopeAssumption
  <1>. QED
    BY <1>1, DivMod DEF PerRun, CeilDiv

LEMMA QuotaTypes ==
    \A p : /\ Needed(LaneLeads(p)) \in Nat /\ QuotaRaw(p) \in Nat
           /\ WarmNeeded(p) \in Nat /\ ActiveNeeded(p) \in Nat
  <1>1. \A p : LaneLeads(p) \subseteq Leads
    BY DEF LaneLeads, WinterLeads
  <1>. QED
    BY <1>1, NeededType, PerRunType DEF QuotaRaw, WarmNeeded, ActiveNeeded

LEMMA LaneIsBooking == LaneProperties \subseteq Booking /\ IsFiniteSet(LaneProperties)
  <1>1. LaneProperties \subseteq Booking /\ Booking \subseteq Properties
    BY ScopeAssumption DEF LaneProperties, Properties
  <1>. QED
    BY <1>1, ScopeAssumption, FS_Subset

\* scaleQuotas never gives out more than its budget.
LEMMA ScaledFits ==
    ASSUME NEW P, P \subseteq LaneProperties, NEW budget \in Nat
    PROVE  LET s == [p \in P |-> Scaled(p, P, budget)] IN
           s \in [P -> Nat] /\ IsFiniteSet(Units(s)) /\ Total(s) <= budget
  <1>. DEFINE s == [p \in P |-> Scaled(p, P, budget)]
              raw == [p \in P |-> QuotaRaw(p)]
              sum == RawSum(P)
  <1>1. IsFiniteSet(P) /\ P \subseteq Nat
    BY LaneIsBooking, ScopeAssumption, FS_Subset DEF Properties
  <1>2. raw \in [P -> Nat] /\ sum = Total(raw) /\ sum \in Nat
    BY <1>1, QuotaTypes, UnitsFinite DEF RawSum
  <1>3. CASE sum <= budget
    <2>1. s = raw
      BY <1>3 DEF Scaled
    <2>. QED
      BY <1>1, <1>2, <1>3, <2>1, UnitsFinite
  <1>4. CASE ~(sum <= budget)
    <2>. DEFINE whole == [p \in P |-> (QuotaRaw(p) * budget) \div sum]
                rest(p) == (QuotaRaw(p) * budget) % sum
                spare == budget - Total(whole)
                R == {x \in P \X P : \/ rest(x[1]) > rest(x[2])
                                     \/ rest(x[1]) = rest(x[2]) /\ x[1] < x[2]}
                E == {p \in P : Rank(R, P, p) < spare}
                more == {<<p, whole[p] + 1>> : p \in E}
    <2>1. whole \in [P -> Nat] /\ Total(whole) <= budget
          /\ IsFiniteSet(Units(whole)) /\ Total(whole) \in Nat
      <3>1. sum > 0
        BY <1>2, <1>4
      <3>2. whole = [p \in P |-> (raw[p] * budget) \div Total(raw)]
        BY <1>2
      <3>3. whole \in [P -> Nat] /\ Total(whole) <= budget
        <4>. HIDE DEF whole, raw, sum
        <4>1. LET w == [x \in P |-> (raw[x] * budget) \div Total(raw)] IN
              w \in [P -> Nat] /\ Total(w) <= budget
          BY <1>1, <1>2, <3>1, SharesFit
        <4>. QED
          BY <3>2, <4>1
      <3>. HIDE DEF whole
      <3>. QED
        BY <1>1, <3>3, UnitsFinite
    <2>2. Orders(R, P)
      <3>1. \A p \in P : rest(p) \in Nat
        <4>1. sum \in Nat \ {0} /\ \A p \in P : QuotaRaw(p) * budget \in Nat
          BY <1>2, <1>4, QuotaTypes
        <4>. HIDE DEF sum
        <4>. QED
          BY <4>1, DivMod
      <3>. HIDE DEF rest
      <3>. QED
        BY <1>1, <3>1 DEF Orders
    <2>3. spare \in Nat
      BY <2>1
    <2>4. IsFiniteSet(E) /\ Cardinality(E) <= spare /\ Cardinality(E) \in Nat
      <3>. HIDE DEF spare, R
      <3>. QED
        BY <1>1, <2>2, <2>3, FirstAtMost, FS_CardinalityType
    <2>5. ASSUME NEW p \in P
          PROVE  s[p] = whole[p] + IF p \in E THEN 1 ELSE 0
      <3>1. \A q \in P : {y \in P : <<y, q>> \in R} =
                {y \in P : rest(y) > rest(q) \/ (rest(y) = rest(q) /\ y < q)}
        OBVIOUS
      <3>. QED
        BY <1>4, <3>1 DEF Scaled, FirstOf, Rank
    <2>. HIDE DEF whole, E
    <2>6. s \in [P -> Nat]
      BY <2>1, <2>5
    <2>7. Units(s) = Units(whole) \cup more
      <3>1. ASSUME NEW p \in P
            PROVE  1..s[p] = (1..whole[p]) \cup IF p \in E THEN {whole[p] + 1} ELSE {}
        BY <2>1, <2>5
      <3>2. E \subseteq P
        BY DEF E
      <3>. HIDE DEF s
      <3>3. DOMAIN s = P /\ DOMAIN whole = P
        BY <2>1, <2>6
      <3>4. ASSUME NEW u \in Units(s) PROVE u \in Units(whole) \cup more
        <4>1. PICK p \in P : u \in {p} \X (1..s[p])
          BY <3>3, <3>4 DEF Units
        <4>. QED
          BY <3>1, <3>3, <4>1 DEF Units
      <3>5. ASSUME NEW u \in Units(whole) PROVE u \in Units(s)
        <4>1. PICK p \in P : u \in {p} \X (1..whole[p])
          BY <3>3, <3>5 DEF Units
        <4>. QED
          BY <3>1, <3>3, <4>1 DEF Units
      <3>6. ASSUME NEW p \in E PROVE <<p, whole[p] + 1>> \in Units(s)
        BY <3>1, <3>2, <3>3, <3>6 DEF Units
      <3>. QED
        BY <3>4, <3>5, <3>6
    <2>8. IsFiniteSet(more) /\ Cardinality(more) <= Cardinality(E)
      <3>. DEFINE g == [p \in E |-> <<p, whole[p] + 1>>]
      <3>1. g \in Surjection(E, more)
        BY DEF Surjection
      <3>. QED
        BY <2>4, <3>1, FS_Surjection
    <2>9. /\ IsFiniteSet(Units(whole) \cup more)
          /\ Cardinality(Units(whole) \cup more) <= Total(whole) + Cardinality(more)
      <3>1. /\ IsFiniteSet(Units(whole) \cup more)
            /\ Cardinality(Units(whole) \cup more) =
                   Cardinality(Units(whole)) + Cardinality(more)
                     - Cardinality(Units(whole) \cap more)
        BY <2>1, <2>8, FS_Union
      <3>2. /\ Cardinality(Units(whole) \cap more) \in Nat
            /\ Cardinality(more) \in Nat /\ Cardinality(Units(whole)) = Total(whole)
        BY <2>8, FS_Intersection, FS_CardinalityType DEF Total
      <3>. QED
        BY <2>1, <3>1, <3>2
    <2>10. Total(s) <= budget
      <3>1. Cardinality(more) \in Nat /\ Total(s) = Cardinality(Units(whole) \cup more)
        BY <2>7, <2>8, FS_CardinalityType DEF Total
      <3>2. Total(s) \in Nat
        BY <2>9, <3>1, FS_CardinalityType
      <3>. QED
        BY <2>1, <2>3, <2>4, <2>8, <2>9, <3>1, <3>2
    <2>. QED
      BY <2>6, <2>7, <2>9, <2>10
  <1>. QED
    BY <1>3, <1>4

\* The quotas of all properties fit in the lane's budget.
LEMMA QuotasFit ==
    LET quota == [p \in LaneProperties |-> Quota(p)] IN
    /\ quota \in [LaneProperties -> Nat]
    /\ IsFiniteSet(Units(quota)) /\ Total(quota) <= BookingCap
  <1>. DEFINE quota == [p \in LaneProperties |-> Quota(p)]
              own == LaneProperties \cap Kiraku
              rest == LaneProperties \ Kiraku
              a == [p \in own |-> Scaled(p, own, OwnBudget)]
              b == [p \in rest |-> Scaled(p, rest, LaneBudget - OwnBudget)]
  <1>1. LaneBudget \in Nat /\ LaneBudget <= BookingCap /\ BookingCap \in Nat
    BY ScopeAssumption DEF LaneBudget
  <1>2. CASE ~ActiveRefresh
    <2>1. quota = [p \in LaneProperties |-> Scaled(p, LaneProperties, LaneBudget)]
      BY <1>2 DEF Quota
    <2>2. LET s == [p \in LaneProperties |-> Scaled(p, LaneProperties, LaneBudget)] IN
          s \in [LaneProperties -> Nat] /\ IsFiniteSet(Units(s)) /\ Total(s) <= LaneBudget
      BY <1>1, ScaledFits
    <2>. HIDE DEF quota
    <2>3. quota \in [LaneProperties -> Nat] /\ IsFiniteSet(Units(quota))
          /\ Total(quota) <= LaneBudget /\ Total(quota) \in Nat
      BY <2>1, <2>2, FS_CardinalityType DEF Total
    <2>. QED
      BY <1>1, <2>3 DEF quota
  <1>3. CASE ActiveRefresh
    <2>1. OwnBudget \in Nat /\ LaneBudget - OwnBudget \in Nat
      <3>1. RawSum(own) \in Nat
        <4>. DEFINE raw == [p \in own |-> QuotaRaw(p)]
        <4>1. IsFiniteSet(own) /\ raw \in [own -> Nat]
          BY QuotaTypes, LaneIsBooking, FS_Subset
        <4>. HIDE DEF own, raw
        <4>2. Total(raw) \in Nat
          BY <4>1, UnitsFinite
        <4>. QED
          BY <4>2 DEF RawSum, raw
      <3>2. OwnBudget = IF LaneBudget <= RawSum(own) THEN LaneBudget ELSE RawSum(own)
        <4>1. LaneBudget \in Int /\ RawSum(own) \in Int
          BY <1>1, <3>1
        <4>2. OwnBudget = Min({LaneBudget, RawSum(own)})
          BY DEF OwnBudget
        <4>. HIDE DEF own
        <4>3. Min({LaneBudget, RawSum(own)}) =
                  IF LaneBudget <= RawSum(own) THEN LaneBudget ELSE RawSum(own)
          BY <4>1, MinOfTwo
        <4>. QED
          BY <4>2, <4>3
      <3>. QED
        BY <1>1, <3>1, <3>2
    <2>2. a \in [own -> Nat] /\ IsFiniteSet(Units(a)) /\ Total(a) <= OwnBudget
      <3>1. own \subseteq LaneProperties
        OBVIOUS
      <3>. HIDE DEF own
      <3>. QED
        BY <2>1, <3>1, ScaledFits
    <2>3. /\ b \in [rest -> Nat] /\ IsFiniteSet(Units(b))
          /\ Total(b) <= LaneBudget - OwnBudget
      <3>1. rest \subseteq LaneProperties
        OBVIOUS
      <3>. HIDE DEF rest
      <3>. QED
        BY <2>1, <3>1, ScaledFits
    <2>4. \A p \in LaneProperties :
              quota[p] = IF p \in own THEN a[p] ELSE b[p]
      BY <1>3 DEF Quota
    <2>5. own \cup rest = LaneProperties
      OBVIOUS
    <2>6. DOMAIN quota = LaneProperties
      OBVIOUS
    <2>. HIDE DEF a, b, own, rest
    <2>7. quota \in [LaneProperties -> Nat]
      BY <2>2, <2>3, <2>4, <2>5
    <2>. HIDE DEF quota
    <2>8. Units(quota) \in SUBSET (Units(a) \cup Units(b))
      <3>1. SUFFICES ASSUME NEW u \in Units(quota) PROVE u \in Units(a) \cup Units(b)
        OBVIOUS
      <3>2. PICK p \in LaneProperties : u \in {p} \X (1..quota[p])
        BY <2>6, <3>1 DEF Units
      <3>3. CASE p \in own
        <4>1. u \in {p} \X (1..a[p]) /\ p \in DOMAIN a
          BY <2>2, <2>4, <3>2, <3>3
        <4>. QED
          BY <4>1 DEF Units
      <3>4. CASE p \notin own
        <4>1. u \in {p} \X (1..b[p]) /\ p \in DOMAIN b
          BY <2>3, <2>4, <2>5, <3>2, <3>4
        <4>. QED
          BY <4>1 DEF Units
      <3>. QED
        BY <3>3, <3>4
    <2>9. /\ IsFiniteSet(Units(a) \cup Units(b))
          /\ Cardinality(Units(a) \cup Units(b)) =
                 Total(a) + Total(b) - Cardinality(Units(a) \cap Units(b))
          /\ Cardinality(Units(a) \cap Units(b)) \in Nat
          /\ Total(a) \in Nat /\ Total(b) \in Nat
      BY <2>2, <2>3, FS_Union, FS_Intersection, FS_CardinalityType DEF Total
    <2>10. /\ IsFiniteSet(Units(quota)) /\ Total(quota) \in Nat
           /\ Total(quota) <= Cardinality(Units(a) \cup Units(b))
      BY <2>8, <2>9, FS_Subset, FS_CardinalityType DEF Total
    <2>11. Total(quota) <= BookingCap
      BY <1>1, <2>1, <2>2, <2>3, <2>9, <2>10
    <2>. QED
      BY <2>7, <2>10, <2>11 DEF quota
  <1>. QED
    BY <1>2, <1>3

-----------------------------------------------------------------------------
(* The order of the lane.                                                    *)

\* a / s >= b / t >= c / u, and strictly so if one of them is strict.
LEMMA RatiosCompare ==
    ASSUME NEW a \in Nat, NEW b \in Nat, NEW c \in Nat,
           NEW s \in Nat \ {0}, NEW t \in Nat \ {0}, NEW u \in Nat \ {0},
           a * t >= b * s, b * u >= c * t
    PROVE  /\ a * u >= c * s
           /\ a * t > b * s \/ b * u > c * t => a * u > c * s
  <1>1. (a * t) * u >= (b * s) * u /\ (b * u) * s >= (c * t) * s
    OBVIOUS
  <1>2. /\ a * t > b * s => (a * t) * u > (b * s) * u
        /\ b * u > c * t => (b * u) * s > (c * t) * s
    OBVIOUS
  <1>3. /\ (a * t) * u = (a * u) * t /\ (b * s) * u = (b * u) * s
        /\ (c * t) * s = (c * s) * t
    OBVIOUS
  <1>4. a * u \in Nat /\ c * s \in Nat
    OBVIOUS
  <1>5. (a * u) * t >= (c * s) * t
    BY <1>1, <1>3
  <1>6. a * t > b * s \/ b * u > c * t => (a * u) * t > (c * s) * t
    BY <1>1, <1>2, <1>3
  <1>7. ASSUME NEW x \in Nat, NEW y \in Nat
        PROVE  (x * t >= y * t => x >= y) /\ (x * t > y * t => x > y)
    <2>1. CASE x < y
      <3>1. x * t < y * t
        BY <2>1
      <3>. QED
        BY <2>1, <3>1
    <2>2. CASE x = y
      BY <2>2
    <2>3. CASE x > y
      BY <2>3
    <2>. QED
      BY <1>7, <2>1, <2>2, <2>3
  <1>. QED
    BY <1>4, <1>5, <1>6, <1>7

\* x was observed longer ago than y, in terms of its target.
OlderInLane(x, y) ==
    /\ LaneClass(x) # "TRANSITION" /\ age[y] # Never
    /\ \/ age[x] = Never
       \/ age[x] * TargetAge(y[2]) > age[y] * TargetAge(x[2])

LEMMA LaneOrderIs ==
    \A c, d : LaneOrder(c, d) <=>
        LET cf == LaneClass(c) = "TRANSITION"
            df == LaneClass(d) = "TRANSITION" IN
        \/ cf /\ ~df
        \/ /\ cf = df
           /\ OlderInLane(c, d) \/ (~OlderInLane(d, c) /\ c[2] < d[2])
  BY DEF LaneOrder, OlderInLane

\* OlderInLane ranks the cells that are no transitions: it compares ratios.
LEMMA OlderRanks ==
    ASSUME TypeOK, NEW x \in Cells, NEW y \in Cells, NEW z \in Cells,
           LaneClass(x) # "TRANSITION", LaneClass(y) # "TRANSITION",
           LaneClass(z) # "TRANSITION",
           ~OlderInLane(y, x), ~OlderInLane(z, y)
    PROVE  /\ ~OlderInLane(z, x)
           /\ OlderInLane(x, y) \/ OlderInLane(y, z) => OlderInLane(x, z)
  <1>. DEFINE a == age[x]  b == age[y]  c == age[z]
              s == TargetAge(x[2])  t == TargetAge(y[2])  u == TargetAge(z[2])
  <1>1. /\ a \in Nat \cup {Never} /\ b \in Nat \cup {Never} /\ c \in Nat \cup {Never}
        /\ Never \notin Nat
    BY ScopeAssumption DEF TypeOK, Ages
  <1>2. s \in Nat \ {0} /\ t \in Nat \ {0} /\ u \in Nat \ {0}
    BY TargetAgeType
  <1>3. /\ OlderInLane(x, y) <=> b # Never /\ (a = Never \/ a * t > b * s)
        /\ OlderInLane(y, x) <=> a # Never /\ (b = Never \/ b * s > a * t)
        /\ OlderInLane(y, z) <=> c # Never /\ (b = Never \/ b * u > c * t)
        /\ OlderInLane(z, y) <=> b # Never /\ (c = Never \/ c * t > b * u)
        /\ OlderInLane(x, z) <=> c # Never /\ (a = Never \/ a * u > c * s)
        /\ OlderInLane(z, x) <=> a # Never /\ (c = Never \/ c * s > a * u)
    BY DEF OlderInLane
  <1>. HIDE DEF a, b, c, s, t, u
  <1>4. CASE a \in Nat /\ b \in Nat /\ c \in Nat
    <2>1. /\ a * t \in Int /\ b * s \in Int /\ b * u \in Int /\ c * t \in Int
          /\ a * u \in Int /\ c * s \in Int
      BY <1>2, <1>4
    <2>2. a * t >= b * s /\ b * u >= c * t
      BY <1>1, <1>3, <1>4, <2>1
    <2>3. /\ a * u >= c * s
          /\ a * t > b * s \/ b * u > c * t => a * u > c * s
      BY <1>2, <1>4, <2>2, RatiosCompare
    <2>. QED
      BY <1>1, <1>3, <1>4, <2>1, <2>3
  <1>5. CASE a = Never \/ b = Never \/ c = Never
    BY <1>1, <1>3, <1>5
  <1>. QED
    BY <1>1, <1>4, <1>5

\* The lane's order has no ties among the cells of one property.
LEMMA LaneOrders ==
    ASSUME TypeOK, NEW p, NEW S, S \subseteq {p} \X Leads, S \subseteq Cells
    PROVE  Orders({x \in S \X S : LaneOrder(x[1], x[2])}, S)
  <1>. DEFINE R == {x \in S \X S : LaneOrder(x[1], x[2])}
              first(x) == LaneClass(x) = "TRANSITION"
  <1>1. ASSUME NEW x \in S, NEW y \in S
        PROVE  <<x, y>> \in R <=> LaneOrder(x, y)
    OBVIOUS
  <1>2. \A x \in S : x[2] \in Int
    BY DEF Leads
  <1>3. \A x, y \in S : x # y => x[2] # y[2]
    OBVIOUS
  <1>4. ASSUME NEW x \in S PROVE ~OlderInLane(x, x)
    <2>1. CASE age[x] = Never
      BY <2>1 DEF OlderInLane
    <2>2. CASE age[x] # Never
      <3>1. age[x] \in Nat /\ TargetAge(x[2]) \in Nat
        BY <2>2, TargetAgeType DEF TypeOK, Ages
      <3>2. age[x] * TargetAge(x[2]) \in Nat
        BY <3>1
      <3>. QED
        BY <2>2, <3>2 DEF OlderInLane
    <2>. QED
      BY <2>1, <2>2
  <1>5. ASSUME NEW x \in S PROVE ~LaneOrder(x, x)
    <2>1. x[2] \in Int /\ ~(x[2] < x[2])
      BY <1>2
    <2>. QED
      BY <1>4, <2>1, LaneOrderIs
  <1>6. ASSUME NEW x \in S, NEW y \in S, x # y
        PROVE  LaneOrder(x, y) \/ LaneOrder(y, x)
    <2>1. x[2] < y[2] \/ y[2] < x[2]
      BY <1>6, <1>2, <1>3
    <2>. QED
      BY <2>1, LaneOrderIs
  <1>7. ASSUME NEW x \in S, NEW y \in S, ~first(x), ~first(y), OlderInLane(x, y)
        PROVE  ~OlderInLane(y, x)
    <2>1. ~OlderInLane(x, x)
      BY <1>4
    <2>2. SUFFICES ASSUME OlderInLane(y, x) PROVE FALSE
      OBVIOUS
    <2>3. /\ age[x] # Never /\ age[y] # Never
          /\ age[x] * TargetAge(y[2]) > age[y] * TargetAge(x[2])
          /\ age[y] * TargetAge(x[2]) > age[x] * TargetAge(y[2])
      BY <1>7, <2>2 DEF OlderInLane
    <2>4. age[x] \in Nat /\ age[y] \in Nat
      BY <2>3 DEF TypeOK, Ages
    <2>5. age[x] * TargetAge(y[2]) \in Int /\ age[y] * TargetAge(x[2]) \in Int
      BY <2>4, TargetAgeType
    <2>. QED
      BY <2>3, <2>5
  <1>8. ASSUME NEW x \in S, NEW y \in S, NEW z \in S, LaneOrder(x, y), LaneOrder(y, z)
        PROVE  LaneOrder(x, z)
    <2>1. \A v, w : first(v) => ~OlderInLane(v, w)
      BY DEF OlderInLane
    <2>2. CASE first(x) /\ ~first(z)
      BY <2>2, LaneOrderIs
    <2>3. CASE first(x) /\ first(y) /\ first(z)
      <3>1. x[2] < y[2] /\ y[2] < z[2]
        BY <1>8, <2>1, <2>3, LaneOrderIs
      <3>2. x[2] < z[2]
        BY <1>2, <3>1
      <3>. QED
        BY <2>1, <2>3, <3>2, LaneOrderIs
    <2>4. CASE ~first(x) /\ ~first(y) /\ ~first(z)
      <3>1. /\ OlderInLane(x, y) \/ (~OlderInLane(y, x) /\ x[2] < y[2])
            /\ OlderInLane(y, z) \/ (~OlderInLane(z, y) /\ y[2] < z[2])
        BY <1>8, <2>4, LaneOrderIs
      <3>2. ~OlderInLane(y, x) /\ ~OlderInLane(z, y)
        BY <1>7, <2>4, <3>1
      <3>3. /\ ~OlderInLane(z, x)
            /\ OlderInLane(x, y) \/ OlderInLane(y, z) => OlderInLane(x, z)
        BY <2>4, <3>2, OlderRanks
      <3>4. OlderInLane(x, z) \/ (~OlderInLane(z, x) /\ x[2] < z[2])
        BY <1>2, <3>1, <3>3
      <3>. QED
        BY <2>4, <3>4, LaneOrderIs
    <2>5. (first(y) => first(x)) /\ (first(z) => first(y))
      BY <1>8, LaneOrderIs
    <2>. QED
      BY <2>2, <2>3, <2>4, <2>5
  <1>. QED
    BY <1>1, <1>5, <1>6, <1>8 DEF Orders

-----------------------------------------------------------------------------
(* The lane keeps within the cap.                                            *)

LEMMA FirstRanked ==
    ASSUME TypeOK, NEW p, NEW S, S \subseteq {p} \X Leads, S \subseteq Cells,
           NEW n \in Int
    PROVE  \E r \in [FirstOf(S, n, LaneOrder) -> 1..n] :
               \A x, y \in DOMAIN r : r[x] = r[y] => x = y
  <1>. DEFINE R == {x \in S \X S : LaneOrder(x[1], x[2])}
              F == FirstOf(S, n, LaneOrder)
              r == [x \in F |-> Rank(R, S, x) + 1]
  <1>1. IsFiniteSet(S) /\ Orders(R, S)
    BY LaneOrders, CellsFinite, FS_Subset
  <1>2. ASSUME NEW x \in S
        PROVE  {y \in S : <<y, x>> \in R} = {y \in S : LaneOrder(y, x)}
    OBVIOUS
  <1>. HIDE DEF R
  <1>3. ASSUME NEW x \in S, NEW y \in S
        PROVE  /\ Rank(R, S, x) \in Nat
               /\ Rank(R, S, x) = Rank(R, S, y) => x = y
    BY <1>1, RanksDiffer
  <1>4. F \subseteq S /\ \A x \in F : Rank(R, S, x) < n
    BY <1>2 DEF FirstOf, Rank
  <1>. HIDE DEF F
  <1>5. r \in [F -> 1..n]
    <2>1. ASSUME NEW x \in F PROVE Rank(R, S, x) + 1 \in 1..n
      BY <1>3, <1>4, <2>1
    <2>. QED
      BY <2>1
  <1>6. \A x, y \in DOMAIN r : r[x] = r[y] => x = y
    BY <1>3, <1>4
  <1>. HIDE DEF r
  <1>. QED
    BY <1>5, <1>6 DEF F

\* The cells picked for a property can be numbered within its quota.
LEMMA PickedRanked ==
    ASSUME TypeOK, NEW p \in LaneProperties, Quota(p) \in Nat
    PROVE  \E r \in [PickedOf(p) -> 1..Quota(p)] :
               \A x, y \in DOMAIN r : r[x] = r[y] => x = y
  <1>. DEFINE urgent == {c \in DueOf(p) : LaneClass(c) # "WARM"}
              warm == DueOf(p) \ urgent
              q == Quota(p)
              share == (WarmNeeded(p) + 3 * Slots) \div (6 * Slots)
              room == Max({0, q - PerRun(ActiveNeeded(p))})
              kept == IF WarmNeeded(p) = 0 THEN 0
                      ELSE Max({Min({Max({1, share}), room}), IF q >= 2 THEN 1 ELSE 0})
              u == Min({Cardinality(urgent), q - Min({Cardinality(warm), kept})})
  <1>1. PickedOf(p) = FirstOf(urgent, u, LaneOrder) \cup FirstOf(warm, q - u, LaneOrder)
    BY DEF PickedOf
  <1>2. DueOf(p) \subseteq {p} \X Leads /\ DueOf(p) \subseteq Cells
    BY LaneIsBooking DEF DueOf, LaneLeads, WinterLeads, Cells, Properties
  <1>3. urgent \subseteq DueOf(p) /\ warm \subseteq DueOf(p) /\ urgent \cap warm = {}
    OBVIOUS
  <1>4. Cardinality(urgent) \in Nat /\ Cardinality(warm) \in Nat
    BY <1>2, <1>3, CellsFinite, FS_Subset, FS_CardinalityType
  <1>5. share \in Int
    <2>1. WarmNeeded(p) + 3 * Slots \in Nat /\ 6 * Slots \in Nat \ {0}
      BY QuotaTypes, ScopeAssumption
    <2>. QED
      <3>. DEFINE n == WarmNeeded(p) + 3 * Slots
                  b == 6 * Slots
      <3>. HIDE DEF n, b
      <3>1. n \in Nat /\ b \in Nat \ {0} => n \div b \in Nat
        BY DivMod
      <3>. QED
        BY <2>1, <3>1 DEF n, b
  <1>6. room \in Nat /\ room <= q
    <2>1. PerRun(ActiveNeeded(p)) \in Nat
      BY QuotaTypes, PerRunType
    <2>. QED
      BY <2>1, MaxOfTwo
  <1>. HIDE DEF urgent, warm, q, share, room
  <1>7. q \in Nat
    BY DEF q
  <1>8. kept \in Nat /\ kept <= q
    <2>1. Max({1, share}) \in Nat
      BY <1>5, MaxOfTwo
    <2>2. Min({Max({1, share}), room}) \in Nat /\ Min({Max({1, share}), room}) <= room
      <3>. DEFINE x == Max({1, share})
      <3>. HIDE DEF x
      <3>1. x \in Nat => Min({x, room}) \in Nat /\ Min({x, room}) <= room
        BY <1>6, MinOfTwo
      <3>. QED
        BY <2>1, <3>1 DEF x
    <2>. DEFINE y == Min({Max({1, share}), room})
    <2>3. y \in Nat /\ y <= q
      BY <1>6, <1>7, <2>2
    <2>. HIDE DEF y
    <2>4. Max({y, IF q >= 2 THEN 1 ELSE 0}) \in {y, IF q >= 2 THEN 1 ELSE 0}
      BY <2>3, MaxOfTwo
    <2>. QED
      BY <1>7, <2>3, <2>4 DEF y
  <1>. HIDE DEF kept
  <1>9. u \in Nat /\ u <= q
    <2>1. /\ Min({Cardinality(warm), kept}) \in Nat
          /\ Min({Cardinality(warm), kept}) <= kept
      <3>. DEFINE x == Cardinality(warm)
      <3>. HIDE DEF x
      <3>1. x \in Nat => Min({x, kept}) \in Nat /\ Min({x, kept}) <= kept
        BY <1>8, MinOfTwo
      <3>. QED
        BY <1>4, <3>1 DEF x
    <2>. DEFINE m == Min({Cardinality(warm), kept})
                x == Cardinality(urgent)
    <2>2. m \in Nat /\ m <= q /\ x \in Nat
      BY <1>4, <1>7, <1>8, <2>1
    <2>. HIDE DEF m, x
    <2>3. Min({x, q - m}) \in {x, q - m} /\ Min({x, q - m}) <= q - m
      BY <1>7, <2>2, MinOfTwo
    <2>4. Min({x, q - m}) \in Nat /\ Min({x, q - m}) <= q
      BY <1>7, <2>2, <2>3
    <2>. QED
      BY <2>4 DEF m, x
  <1>. HIDE DEF u
  <1>. DEFINE U == FirstOf(urgent, u, LaneOrder)
              W == FirstOf(warm, q - u, LaneOrder)
  <1>10. PICK a \in [U -> 1..u] : \A x, y \in DOMAIN a : a[x] = a[y] => x = y
    <2>1. u \in Int /\ urgent \subseteq {p} \X Leads /\ urgent \subseteq Cells
      BY <1>2, <1>3, <1>9
    <2>. QED
      BY <2>1, FirstRanked
  <1>11. PICK b \in [W -> 1..q - u] : \A x, y \in DOMAIN b : b[x] = b[y] => x = y
    <2>1. q - u \in Int
      BY <1>7, <1>9
    <2>. QED
      BY <1>2, <1>3, <2>1, FirstRanked
  <1>12. PickedOf(p) = U \cup W /\ U \cap W = {}
    BY <1>1, <1>3 DEF FirstOf
  <1>. HIDE DEF U, W
  <1>. DEFINE r == [x \in PickedOf(p) |-> IF x \in U THEN a[x] ELSE u + b[x]]
  <1>13. r \in [PickedOf(p) -> 1..q]
    <2>1. ASSUME NEW x \in PickedOf(p) PROVE r[x] \in 1..q
      <3>1. CASE x \in U
        BY <1>7, <1>9, <1>10, <3>1
      <3>2. CASE x \in W
        <4>1. b[x] \in 1..q - u /\ x \notin U
          BY <1>11, <1>12, <3>2
        <4>. QED
          BY <1>7, <1>9, <2>1, <4>1
      <3>. QED
        BY <1>12, <2>1, <3>1, <3>2
    <2>. QED
      BY <2>1
  <1>14. ASSUME NEW x \in PickedOf(p), NEW y \in PickedOf(p), r[x] = r[y]
         PROVE  x = y
    <2>1. \A z \in U : r[z] = a[z] /\ a[z] \in 1..u
      BY <1>10, <1>12
    <2>2. \A z \in W : r[z] = u + b[z] /\ b[z] \in 1..q - u
      BY <1>11, <1>12
    <2>. HIDE DEF r
    <2>3. CASE x \in U /\ y \in U
      BY <1>10, <1>14, <2>1, <2>3
    <2>4. CASE x \in W /\ y \in W
      <3>1. b[x] = b[y]
        BY <1>7, <1>9, <1>14, <2>2, <2>4
      <3>. QED
        BY <1>11, <2>4, <3>1
    <2>5. CASE (x \in U /\ y \in W) \/ (x \in W /\ y \in U)
      BY <1>7, <1>9, <1>14, <2>1, <2>2, <2>5
    <2>. QED
      BY <1>12, <2>3, <2>4, <2>5
  <1>. HIDE DEF r
  <1>. QED
    BY <1>13, <1>14 DEF q

\* The lane is numbered into the pages of its quotas.
LEMMA LaneWithinCap ==
    ASSUME TypeOK
    PROVE  LET L == UNION {PickedOf(p) : p \in LaneProperties} IN
           /\ \A c \in L : c[1] \in Booking
           /\ Cardinality(L) <= BookingCap
  <1>. DEFINE L == UNION {PickedOf(p) : p \in LaneProperties}
              quota == [p \in LaneProperties |-> Quota(p)]
              Ranks(p) == {r \in [PickedOf(p) -> 1..Quota(p)] :
                               \A x, y \in DOMAIN r : r[x] = r[y] => x = y}
              rank == [p \in LaneProperties |-> CHOOSE r \in Ranks(p) : TRUE]
              h == [c \in L |-> <<c[1], rank[c[1]][c]>>]
  <1>1. ASSUME NEW p \in LaneProperties, NEW c \in PickedOf(p) PROVE c[1] = p
    BY PickedIsDue DEF DueOf
  <1>2. ASSUME NEW c \in L
        PROVE  c[1] \in LaneProperties /\ c \in PickedOf(c[1])
    <2>1. PICK p \in LaneProperties : c \in PickedOf(p)
      OBVIOUS
    <2>. QED
      BY <1>1, <2>1
  <1>3. \A p \in LaneProperties : Quota(p) \in Nat
    BY QuotasFit
  <1>4. ASSUME NEW p \in LaneProperties
        PROVE  /\ rank[p] \in [PickedOf(p) -> 1..Quota(p)]
               /\ \A x, y \in PickedOf(p) : rank[p][x] = rank[p][y] => x = y
    <2>1. Ranks(p) # {}
      BY <1>3, PickedRanked
    <2>2. rank[p] \in Ranks(p)
      BY <2>1
    <2>. HIDE DEF rank
    <2>. QED
      BY <2>2
  <1>. HIDE DEF rank
  <1>5. h \in [L -> Units(quota)]
    <2>1. ASSUME NEW c \in L PROVE <<c[1], rank[c[1]][c]>> \in Units(quota)
      <3>1. rank[c[1]][c] \in 1..quota[c[1]] /\ c[1] \in DOMAIN quota
        BY <1>2, <1>4
      <3>. HIDE DEF quota
      <3>. QED
        BY <3>1 DEF Units
    <2>. QED
      BY <2>1
  <1>6. ASSUME NEW c \in L, NEW d \in L, h[c] = h[d] PROVE c = d
    <2>1. c[1] = d[1] /\ rank[c[1]][c] = rank[d[1]][d]
      BY <1>6
    <2>. QED
      BY <1>2, <1>4, <2>1
  <1>7. h \in Injection(L, Units(quota))
    <2>. HIDE DEF h, L, quota
    <2>. QED
      BY <1>5, <1>6 DEF Injection, IsInjective
  <1>8. IsFiniteSet(Units(quota)) /\ Total(quota) <= BookingCap
    BY QuotasFit
  <1>9. IsFiniteSet(L) /\ Cardinality(L) <= Total(quota)
    BY <1>7, <1>8, FS_Injection DEF Total
  <1>10. Cardinality(L) <= BookingCap
    <2>1. Cardinality(L) \in Nat /\ Total(quota) \in Nat /\ BookingCap \in Nat
      BY <1>8, <1>9, FS_CardinalityType, ScopeAssumption DEF Total
    <2>. QED
      BY <1>8, <1>9, <2>1
  <1>. QED
    BY <1>2, <1>10, LaneIsBooking

-----------------------------------------------------------------------------
(* Plans that use their pages.                                               *)

\* The winter lane asks for no more pages than the Booking cap: its budget is
\* two fifths of it.
LaneFits ==
    pc \in {"lane", "plan"} =>
        /\ \A c \in DOMAIN winter : c[1] \in Booking
        /\ Cardinality(DOMAIN winter) <= BookingCap

\* While a plan is made every candidate is queued, and no source has more
\* targets than pages.
PlanFits ==
    pc = "plan" =>
        /\ \A c \in Candidates : [cell |-> c, warm |-> FALSE] \in DOMAIN queue
        /\ Cardinality(TargetsOf(Booking)) <= BookingCap
        /\ Cardinality(TargetsOf(Jalan)) <= JalanCap

FullInv == LaneFits /\ PlanFits /\ FullPlans

LEMMA TargetsFinite ==
    ASSUME TypeOK
    PROVE  /\ Targets \subseteq Cells /\ IsFiniteSet(Targets)
           /\ \A S : IsFiniteSet(TargetsOf(S)) /\ Cardinality(TargetsOf(S)) \in Nat
  <1>1. Targets \subseteq Cells
    BY DEF TypeOK, Targets
  <1>2. \A S : TargetsOf(S) \subseteq Cells
    BY <1>1 DEF TargetsOf
  <1>. QED
    BY <1>1, <1>2, CellsFinite, FS_Subset, FS_CardinalityType

LEMMA FullInit == Init => FullInv
  BY DEF Init, FullInv, LaneFits, PlanFits, FullPlans

\* A step that selects stays within the pages of the source it selects from.
LEMMA SelectFits ==
    ASSUME TypeOK, TypeOK', FullInv, Select
    PROVE  FullInv'
  <1>1. PICK e \in DOMAIN queue :
            /\ Eligible(e, pass)
            /\ Targets' = Targets \cup {e.cell}
    BY DEF Select, Targets
  <1>2. /\ pc = "plan" /\ pc' = "plan" /\ queue' = queue /\ winter' = winter
        /\ age' = age /\ day' = day
    BY DEF Select, clock
  <1>3. Candidates' = Candidates
    BY <1>2 DEF Candidates, AllCandidates, CandidateLeads, TransitionLeads, DateAt,
                InCooldown
  <1>. DEFINE c == e.cell
  <1>4. c \in Cells /\ c \notin Targets
        /\ IF c[1] \in Booking THEN Cardinality(TargetsOf(Booking)) < BookingCap
           ELSE Cardinality(TargetsOf(Jalan)) < JalanCap
    BY <1>1 DEF Eligible, TypeOK, Entry
  <1>5. c[1] \in Booking \cup Jalan /\ Booking \cap Jalan = {}
    BY <1>4, ScopeAssumption DEF Cells, Properties
  <1>6. \A S : TargetsOf(S)' = IF c[1] \in S THEN TargetsOf(S) \cup {c}
                               ELSE TargetsOf(S)
    BY <1>1 DEF TargetsOf
  <1>7. \A S : Cardinality(TargetsOf(S))' =
               IF c[1] \in S THEN Cardinality(TargetsOf(S)) + 1
               ELSE Cardinality(TargetsOf(S))
    <2>1. \A S : c \notin TargetsOf(S) /\ IsFiniteSet(TargetsOf(S))
      BY <1>4, TargetsFinite DEF TargetsOf
    <2>. QED
      BY <1>6, <2>1, FS_AddElement
  <1>8. /\ Cardinality(TargetsOf(Booking))' <= BookingCap
        /\ Cardinality(TargetsOf(Jalan))' <= JalanCap
    <2>1. /\ Cardinality(TargetsOf(Booking)) <= BookingCap
          /\ Cardinality(TargetsOf(Jalan)) <= JalanCap
      BY <1>2 DEF FullInv, PlanFits
    <2>2. /\ Cardinality(TargetsOf(Booking)) \in Nat /\ BookingCap \in Nat
          /\ Cardinality(TargetsOf(Jalan)) \in Nat /\ JalanCap \in Nat
      BY TargetsFinite, ScopeAssumption
    <2>. QED
      BY <1>4, <1>5, <1>7, <2>1, <2>2
  <1>. QED
    BY <1>2, <1>3, <1>8 DEF FullInv, LaneFits, PlanFits, FullPlans

LEMMA RelaxFits == FullInv /\ Relax => FullInv'
  BY DEF Relax, FullInv, LaneFits, PlanFits, FullPlans, Targets, TargetsOf, clock,
         Candidates, AllCandidates, CandidateLeads, TransitionLeads, DateAt, InCooldown

\* The plan ends with every page used, or after the last pass, when a candidate
\* left over meets a source without pages.
LEMMA EndPlanFits ==
    ASSUME TypeOK, FullInv, EndPlan
    PROVE  FullInv'
  <1>1. /\ pc = "plan" /\ pc' = "collect" /\ (Full \/ (Exhausted /\ pass = 4))
        /\ lane' = lane /\ chosen' = chosen /\ winter' = winter
        /\ age' = age /\ day' = day
    BY DEF EndPlan, plan, clock, LastPass
  <1>2. \A S : TargetsOf(S)' = TargetsOf(S)
    BY <1>1 DEF TargetsOf, Targets
  <1>3. \A S : CandidatesOf(S)' = CandidatesOf(S)
    BY <1>1 DEF CandidatesOf, Candidates, AllCandidates, CandidateLeads,
                TransitionLeads, DateAt, InCooldown
  <1>4. /\ \A d \in Candidates : [cell |-> d, warm |-> FALSE] \in DOMAIN queue
        /\ Cardinality(TargetsOf(Booking)) <= BookingCap
        /\ Cardinality(TargetsOf(Jalan)) <= JalanCap
    BY <1>1 DEF FullInv, PlanFits
  <1>5. /\ Cardinality(TargetsOf(Booking)) \in Nat /\ BookingCap \in Nat
        /\ Cardinality(TargetsOf(Jalan)) \in Nat /\ JalanCap \in Nat
    BY TargetsFinite, ScopeAssumption
  <1>6. CASE Full
    <2>1. Targets = TargetsOf(Booking) \cup TargetsOf(Jalan)
      BY TargetsFinite DEF TargetsOf, Cells, Properties
    <2>2. TargetsOf(Booking) \cap TargetsOf(Jalan) = {}
      BY ScopeAssumption DEF TargetsOf
    <2>3. Cardinality(Targets) =
              Cardinality(TargetsOf(Booking)) + Cardinality(TargetsOf(Jalan))
      BY <1>5, <2>1, <2>2, TargetsFinite, FS_Union, FS_EmptySet
    <2>4. /\ Cardinality(TargetsOf(Booking)) = BookingCap
          /\ Cardinality(TargetsOf(Jalan)) = JalanCap
      BY <1>4, <1>5, <1>6, <2>3 DEF Full
    <2>. QED
      BY <1>1, <1>2, <2>4 DEF FullInv, LaneFits, PlanFits, FullPlans
  <1>7. CASE Exhausted /\ pass = 4
    <2>1. ASSUME NEW d \in Candidates \ Targets
          PROVE  IF d[1] \in Booking THEN Cardinality(TargetsOf(Booking)) >= BookingCap
                 ELSE Cardinality(TargetsOf(Jalan)) >= JalanCap
      <3>. DEFINE e == [cell |-> d, warm |-> FALSE]
      <3>1. ~Eligible(e, 4)
        BY <1>4, <1>7, <2>1 DEF Exhausted
      <3>2. ~(IF d[1] \in Booking THEN Cardinality(TargetsOf(Booking)) < BookingCap
              ELSE Cardinality(TargetsOf(Jalan)) < JalanCap)
        BY <2>1, <3>1 DEF Eligible
      <3>. QED
        BY <1>5, <3>2
    <2>2. \/ Cardinality(TargetsOf(Booking)) = BookingCap
          \/ CandidatesOf(Booking) \subseteq Targets
      BY <1>4, <1>5, <2>1 DEF CandidatesOf
    <2>3. \/ Cardinality(TargetsOf(Jalan)) = JalanCap
          \/ CandidatesOf(Jalan) \subseteq Targets
      BY <1>4, <1>5, <2>1, ScopeAssumption DEF CandidatesOf
    <2>4. Targets' = Targets
      BY <1>1 DEF Targets
    <2>. QED
      BY <1>1, <1>2, <1>3, <2>2, <2>3, <2>4 DEF FullInv, LaneFits, PlanFits, FullPlans
  <1>. QED
    BY <1>1, <1>6, <1>7

\* The plan begins with the urgent cells of the lane.
LEMMA BeginPlanFits ==
    ASSUME TypeOK, TypeOK', FullInv, BeginPlan
    PROVE  FullInv'
  <1>1. /\ pc = "lane" /\ pc' = "plan" /\ Targets' = LaneUrgent
        /\ DOMAIN queue' = Entries /\ winter' = winter /\ age' = age /\ day' = day
    BY QueueDomain DEF BeginPlan, clock, Targets
  <1>2. Candidates' = Candidates
    BY <1>1 DEF Candidates, AllCandidates, CandidateLeads, TransitionLeads, DateAt,
                InCooldown
  <1>3. \A c \in Candidates : [cell |-> c, warm |-> FALSE] \in Entries
    BY DEF Entries
  <1>4. /\ \A c \in DOMAIN winter : c[1] \in Booking
        /\ Cardinality(DOMAIN winter) <= BookingCap
    BY <1>1 DEF FullInv, LaneFits
  <1>5. LaneUrgent \subseteq DOMAIN winter
    BY DEF LaneUrgent, LaneKept
  <1>6. IsFiniteSet(DOMAIN winter)
    BY CellsFinite, FS_Subset DEF TypeOK
  <1>7. Cardinality(TargetsOf(Booking))' <= BookingCap
    <2>1. TargetsOf(Booking)' \in SUBSET DOMAIN winter
      BY <1>1, <1>5 DEF TargetsOf
    <2>2. Cardinality(TargetsOf(Booking)') <= Cardinality(DOMAIN winter)
      BY <1>6, <2>1, FS_Subset
    <2>3. /\ Cardinality(TargetsOf(Booking)') \in Nat
          /\ Cardinality(DOMAIN winter) \in Nat /\ BookingCap \in Nat
      BY <1>6, <2>1, FS_Subset, FS_CardinalityType, ScopeAssumption
    <2>. QED
      BY <1>4, <2>2, <2>3
  <1>8. Cardinality(TargetsOf(Jalan))' <= JalanCap
    <2>1. TargetsOf(Jalan)' = {}
      BY <1>1, <1>4, <1>5, ScopeAssumption DEF TargetsOf
    <2>. QED
      BY <2>1, FS_EmptySet, ScopeAssumption
  <1>. QED
    BY <1>1, <1>2, <1>3, <1>4, <1>7, <1>8 DEF FullInv, LaneFits, PlanFits, FullPlans

LEMMA LaneStepFits ==
    ASSUME TypeOK, FullInv, PlanWinterLane
    PROVE  FullInv'
  <1>1. /\ pc' = "lane" /\ DOMAIN winter' = UNION {PickedOf(p) : p \in LaneProperties}
    BY DEF PlanWinterLane
  <1>. QED
    BY <1>1, LaneWithinCap DEF FullInv, LaneFits, PlanFits, FullPlans

LEMMA OutsideFits ==
    ASSUME FullInv, \/ Collect \/ Missed \/ LedgerTorn \/ Time \/ Withdraw
                    \/ \E o \in Leads : Detect(o) \/ Restore(o)
    PROVE  FullInv'
  <1>1. pc' \in {"done", "idle"}
    BY DEF Collect, Missed, LedgerTorn, Time, NextSlot, NextDay, Withdraw, Detect, Restore
  <1>. QED
    BY <1>1 DEF FullInv, LaneFits, PlanFits, FullPlans

\* A plan wastes no page: it has as many targets of each source as pages are
\* allowed or every candidate of the source, whatever the winter lane took, the
\* backpressure gave back and the limits of the first passes held back
\* (buildRotatingPlan, its four passes).
THEOREM PlansAreFull == Spec => []FullPlans
  <1>1. ASSUME TypeOK, TypeOK', FullInv, [Next]_vars PROVE FullInv'
    <2>1. CASE UNCHANGED vars
      BY <1>1, <2>1 DEF vars, clock, manifest, plan, FullInv, LaneFits, PlanFits, FullPlans,
         Targets, TargetsOf, CandidatesOf, Candidates, AllCandidates, CandidateLeads,
         TransitionLeads, DateAt, InCooldown
    <2>2. CASE Next
      BY <1>1, <2>2, LaneStepFits, BeginPlanFits, SelectFits, RelaxFits, EndPlanFits,
         OutsideFits DEF Next, Run
    <2>. QED
      BY <1>1, <2>1, <2>2
  <1>2. FullInv => FullPlans
    BY DEF FullInv
  <1>. QED
    BY FullInit, ScopeTypes, <1>1, <1>2, PTL DEF Spec
=============================================================================
