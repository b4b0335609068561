------------------------------- MODULE Budget -------------------------------
(***************************************************************************)
(* The wall-clock budget of a deep run (budget/,                           *)
(* commands/deep_research_budget.rs): what the run may take in seconds on  *)
(* this host, and whether --global-timeout allows for it. Pure: no state.  *)
(* Saturation at 64 bits is left out: the values stay far below.           *)
(***************************************************************************)
EXTENDS Concurrency, FiniteSetsExt

MAX_GLOBAL_TIMEOUT_SECONDS == 3600

\* What a configuration key or a profile may set; contention in Chromes and %.
Knobs == [serp |-> 8, fetchSeconds |-> 5, margin |-> 10,
          low |-> 20, high |-> 40, mid |-> 200, top |-> 250]

\* apply_budget_profile
ApplyBudgetProfile(knobs, profile) ==
    CASE profile = "desktop_contended" ->
           [serp |-> Max({knobs.serp, 10}), fetchSeconds |-> Max({knobs.fetchSeconds, 6}),
            margin |-> Max({knobs.margin, 15}), low |-> 12, high |-> 28, mid |-> 220, top |-> 280]
      [] profile = "thin" ->
           [serp |-> 5, fetchSeconds |-> 3, margin |-> 10,
            low |-> 30, high |-> 50, mid |-> 150, top |-> 200]
      [] profile = "lab" ->
           [Knobs EXCEPT !.serp = knobs.serp, !.fetchSeconds = knobs.fetchSeconds,
                         !.margin = knobs.margin]
      [] OTHER -> knobs

\* apply_xdg_budget_overrides: "keys" is a function on the knobs that are set.
Overridden(knobs, keys) ==
    [k \in DOMAIN knobs |-> IF k \in DOMAIN keys THEN keys[k] ELSE knobs[k]]

\* Fault: the profile has the last word.
ProfileLast(plan) == ApplyBudgetProfile(Overridden(Knobs, plan.keys), plan.profile)

\* resolve_budget_input: keys, then the profile, then the keys again.
ResolvedKnobs(plan) ==
    IF plan.profile = "none" THEN Overridden(Knobs, plan.keys)
    ELSE Overridden(ApplyBudgetProfile(Overridden(Knobs, plan.keys), plan.profile), plan.keys)

\* The multiprocess dual search of web and news, and the permits a query pays.
DualMultiproc(plan, news) ==
    news /\ PreferDualVerticalChrome(plan.parallel, "Auto", plan.shared)
SlotsPerQuery(plan, news) == ChromeSlotsPerQuery(TRUE, news, DualMultiproc(plan, news))

----------------------------------------------------------------------------
CeilPercent(n, percent) == (n * percent + 99) \div 100

\* Fault: the factor of a crowded host is taken as it is set.
FactorAsSet(plan) ==
    LET k == ResolvedKnobs(plan)
    IN  IF plan.chromes < k.low THEN 100 ELSE IF plan.chromes < k.high THEN k.mid ELSE k.top

\* contention_factor_percent: never below 100, never falling with more Chromes.
ContentionFactor(plan) ==
    LET k == ResolvedKnobs(plan)
        high == Max({k.high, k.low + 1})
    IN  IF plan.chromes < k.low THEN 100
        ELSE IF plan.chromes < high THEN Max({k.mid, 100})
        ELSE Max({k.top, k.mid, 100})

\* Seconds one sub-query takes when its verticals run "abreast" times over.
PerSubQuery(plan, abreast) ==
    LET k == ResolvedKnobs(plan)
    IN  abreast * (k.serp + (IF plan.fetch THEN Max({plan.cap, 1}) * k.fetchSeconds ELSE 0))

WallSeconds(plan, news) ==
    PerSubQuery(plan, IF news /\ ~DualMultiproc(plan, news) THEN 2 ELSE 1)
WorkSeconds(plan, news) == PerSubQuery(plan, IF news THEN 2 ELSE 1)

\* Every depth round counts for up to four sub-queries, one after the other.
DepthExtra(r, unit) == r.depth * Min({Max({r.max, 1}), 4}) * unit

WorkEstimate(r) ==
    LET unit == WorkSeconds(r.plan, r.news) IN Max({r.max, 1}) * unit + DepthExtra(r, unit)

\* wall_estimate_seconds: the waves of the fan-out and the depth rounds; on a
\* crowded host no less than all the work in a single file.
WallEstimate(r) ==
    LET factor == ContentionFactor(r.plan)
        unit == CeilPercent(WallSeconds(r.plan, r.news), factor)
        abreast == Max({ChromeProcessBudget(r.plan.parallel) \div SlotsPerQuery(r.plan, r.news), 1})
        waves == (Max({r.max, 1}) + abreast - 1) \div abreast
        wall == waves * unit + DepthExtra(r, unit)
    IN  IF factor > 100 THEN Max({wall, CeilPercent(WorkEstimate(r), factor)}) ELSE wall

\* gated_estimate, which is also suggested_global_timeout
GatedEstimate(r) ==
    CeilPercent(WallEstimate(r), 100 + Min({ResolvedKnobs(r.plan).margin, 100}))

\* validate_deep_research_budget_ex: the global timeout the run gets, or 0 where
\* it is refused.
EffectiveTimeout(r, timeout) ==
    IF r.plan.autoContention /\ timeout < GatedEstimate(r) THEN GatedEstimate(r)
    ELSE IF timeout < GatedEstimate(r) /\ ~r.plan.allowUnder THEN 0
    ELSE timeout

\* print_budget_payload: whether the timeout would do as it was given.
BudgetOk(r) == r.plan.timeout >= GatedEstimate(r) \/ r.plan.allowUnder
=============================================================================
