---------------------------- MODULE ContentFetch ----------------------------
(***************************************************************************)
(* --fetch-content (content_fetch/enrich.rs): a pool of Chrome processes,  *)
(* one task per result page, three gates in a fixed order (the global      *)
(* semaphore, the circuit breaker of the page's host, the semaphore of the *)
(* host), the free-list of browsers, and the parallel shutdown of the pool *)
(* when every page task is joined.                                         *)
(*                                                                         *)
(* Which waiter a semaphore serves and which browser the free-list hands   *)
(* out is left open: nothing below depends on either order.                *)
(***************************************************************************)
EXTENDS Concurrency, FiniteSets

CONSTANTS Pages,         \* pages of the result list, up to the fetch cap
          Promo,         \* those of them that are promo news URLs
          Hosts,
          HostOf,        \* the host of every page
          Parallel,      \* --parallel
          Nested,        \* called from a multi-query task
          PerHostLimit,  \* --per-host-limit
          PanicUnwinds,  \* FALSE in release builds, where a panic aborts
          MaxTime        \* bound on the clock

\* Consecutive failures that open a breaker, and how long it stays open, the
\* clock counting in units of the cooldown (30 s).
CB_FAILURE_THRESHOLD == 3
CB_COOLDOWN == 1

ASSUME PagesAssumption == IsFiniteSet(Pages) /\ Promo \subseteq Pages
ASSUME HostAssumption == HostOf \in [Pages -> Hosts]
ASSUME LimitsAssumption ==
    /\ Parallel \in Nat /\ PerHostLimit \in Nat \ {0} /\ MaxTime \in Nat
    /\ Nested \in BOOLEAN /\ PanicUnwinds \in BOOLEAN

PoolTarget == ChromePoolSize(Parallel, Cardinality(Pages), Nested)
Browsers == 1 .. PoolTarget
NoBrowser == 0

VARIABLES phase,      \* launching, fetching, closing, done or unavailable
          cancelled,  \* the shared cancellation token
          chrome,     \* state of every pool member's process
          free,       \* the free-list
          admit,      \* permits the global semaphore was created with
          gate,       \* free permits of the global semaphore
          hostGate,   \* free permits of every host's semaphore
          stage,      \* where each page's task is
          using,      \* the browser a page's task has popped
          verdict,    \* what the extraction returned, until it is recorded
          failures,   \* breaker: consecutive failures of a host
          openUntil,  \* breaker: end of the cooldown, 0 while Closed
          now,        \* the clock
          overshoot,  \* fetches begun on a host while its breaker was open
          counters    \* successes and failures reported in the metadata

poolVars == <<chrome, free>>
breakerVars == <<failures, openUntil>>
vars == <<phase, cancelled, chrome, free, admit, gate, hostGate, stage, using,
          verdict, failures, openUntil, now, overshoot, counters>>

Stages == {"unspawned", "waiting", "checked", "hosted", "fetching",
           "recording", "ended", "fetched", "panicked"}
\* Stages in which a task holds a permit of the global gate, and of its host.
HoldsGlobal == {"checked", "hosted", "fetching", "recording"}
HoldsHost == {"hosted", "fetching", "recording"}
TaskOver == {"ended", "fetched", "panicked"}

Open(h) == openUntil[h] # 0 /\ now < openUntil[h]

Init ==
    /\ phase = "launching" /\ cancelled \in BOOLEAN
    /\ chrome = [b \in Browsers |-> "none"]
    /\ free = {} /\ admit = 0 /\ gate = 0
    /\ hostGate = [h \in Hosts |-> PerHostLimit]
    /\ stage = [p \in Pages |-> "unspawned"]
    /\ using = [p \in Pages |-> NoBrowser]
    /\ verdict = [p \in Pages |-> "none"]
    /\ failures = [h \in Hosts |-> 0]
    /\ openUntil = [h \in Hosts |-> 0]
    /\ now = 0
    /\ overshoot = [h \in Hosts |-> 0]
    /\ counters = [successes |-> 0, failures |-> 0]

-----------------------------------------------------------------------------
(* Launching the pool: all members at once, the set joined to the end.     *)

LaunchMember(b) ==
    /\ phase = "launching" /\ chrome[b] = "none"
    /\ chrome' = [chrome EXCEPT ![b] = "live"]
    /\ free' = free \cup {b}
    /\ UNCHANGED <<phase, cancelled, admit, gate, hostGate, stage, using,
                   verdict, breakerVars, now, overshoot, counters>>

\* The launch failed, or the token was already set when its turn came.
LaunchMemberFails(b) ==
    /\ phase = "launching" /\ chrome[b] = "none"
    /\ chrome' = [chrome EXCEPT ![b] = "failed"]
    /\ UNCHANGED <<phase, cancelled, free, admit, gate, hostGate, stage, using,
                   verdict, breakerVars, now, overshoot, counters>>

\* No member came up: every page counts as a failure and the output carries
\* error = chrome_not_found.
PoolUnavailable ==
    /\ phase = "launching"
    /\ \A b \in Browsers : chrome[b] = "failed"
    /\ phase' = "unavailable"
    /\ counters' = [counters EXCEPT !.failures = Cardinality(Pages)]
    /\ UNCHANGED <<cancelled, poolVars, admit, gate, hostGate, stage, using,
                   verdict, breakerVars, now, overshoot>>

\* Fault: the gate is as wide as the pool that was asked for.
SpawnPagesForTarget ==
    /\ phase = "launching" /\ free # {}
    /\ \A b \in Browsers : chrome[b] # "none"
    /\ stage' = [p \in Pages |-> IF p \in Promo THEN "unspawned" ELSE "waiting"]
    /\ admit' = PoolTarget /\ gate' = PoolTarget
    /\ phase' = "fetching"
    /\ UNCHANGED <<cancelled, poolVars, hostGate, using, verdict, breakerVars,
                   now, overshoot, counters>>

\* The gate is as wide as the pool that came up, not as the pool that was asked
\* for. Promo pages get no task, though the pool was sized with them, and the
\* spawn loop stops at the first page for which it sees the token.
SpawnPages ==
    /\ phase = "launching" /\ free # {}
    /\ \A b \in Browsers : chrome[b] # "none"
    /\ \E spawned \in SUBSET (Pages \ Promo) :
         /\ spawned = Pages \ Promo \/ cancelled
         /\ stage' = [p \in Pages |->
                         IF p \in spawned THEN "waiting" ELSE "unspawned"]
    /\ admit' = Cardinality(free) /\ gate' = Cardinality(free)
    /\ phase' = "fetching"
    /\ UNCHANGED <<cancelled, poolVars, hostGate, using, verdict, breakerVars,
                   now, overshoot, counters>>

-----------------------------------------------------------------------------
(* The page task.                                                          *)

\* CircuitBreakerMap::check. An elapsed cooldown closes the breaker and forgets
\* the failures, for this request and for everyone after it.
CheckCloses(h) == openUntil[h] # 0 /\ now >= openUntil[h]

\* Fault: the breaker is not asked.
AdmitPageUnbroken(p) ==
    /\ stage[p] = "waiting" /\ gate > 0 /\ ~cancelled
    /\ gate' = gate - 1 /\ stage' = [stage EXCEPT ![p] = "checked"]
    /\ UNCHANGED <<phase, cancelled, poolVars, admit, hostGate, using, verdict,
                   breakerVars, now, overshoot, counters>>

\* Fault: the global gate is not waited for.
AdmitPageUngated(p) ==
    /\ stage[p] = "waiting" /\ ~cancelled /\ ~Open(HostOf[p])
    /\ gate' = gate - 1 /\ stage' = [stage EXCEPT ![p] = "checked"]
    /\ UNCHANGED <<phase, cancelled, poolVars, admit, hostGate, using, verdict,
                   breakerVars, now, overshoot, counters>>

\* Admitted by the global gate: look at the token, then at the breaker.
AdmitPage(p) ==
    /\ stage[p] = "waiting" /\ gate > 0 /\ ~cancelled /\ ~Open(HostOf[p])
    /\ gate' = gate - 1
    /\ stage' = [stage EXCEPT ![p] = "checked"]
    /\ IF CheckCloses(HostOf[p])
       THEN /\ openUntil' = [openUntil EXCEPT ![HostOf[p]] = 0]
            /\ failures' = [failures EXCEPT ![HostOf[p]] = 0]
            /\ overshoot' = [overshoot EXCEPT ![HostOf[p]] = 0]
       ELSE UNCHANGED <<breakerVars, overshoot>>
    /\ UNCHANGED <<phase, cancelled, poolVars, admit, hostGate, using, verdict,
                   now, counters>>

\* Admitted, and turned away at once: cancelled or short-circuited. The permit
\* is back before anyone can tell.
TurnAwayPage(p) ==
    /\ stage[p] = "waiting" /\ gate > 0 /\ (cancelled \/ Open(HostOf[p]))
    /\ stage' = [stage EXCEPT ![p] = "ended"]
    /\ UNCHANGED <<phase, cancelled, poolVars, admit, gate, hostGate, using,
                   verdict, breakerVars, now, overshoot, counters>>

\* Fault: the permit of the host is bound to _.
EnterHostDropsPermit(p) ==
    /\ stage[p] = "checked" /\ hostGate[HostOf[p]] > 0 /\ ~cancelled
    /\ stage' = [stage EXCEPT ![p] = "hosted"]
    /\ UNCHANGED <<phase, cancelled, poolVars, admit, gate, hostGate, using,
                   verdict, breakerVars, now, overshoot, counters>>

\* The host's semaphore let the page in; the breaker is not asked again.
EnterHost(p) ==
    /\ stage[p] = "checked" /\ hostGate[HostOf[p]] > 0 /\ ~cancelled
    /\ hostGate' = [hostGate EXCEPT ![HostOf[p]] = @ - 1]
    /\ stage' = [stage EXCEPT ![p] = "hosted"]
    /\ UNCHANGED <<phase, cancelled, poolVars, admit, gate, using, verdict,
                   breakerVars, now, overshoot, counters>>

\* Fault: the early return keeps the global permit.
EnterHostCancelledLeaks(p) ==
    /\ stage[p] = "checked" /\ hostGate[HostOf[p]] > 0 /\ cancelled
    /\ stage' = [stage EXCEPT ![p] = "ended"]
    /\ UNCHANGED <<phase, cancelled, poolVars, admit, gate, hostGate, using,
                   verdict, breakerVars, now, overshoot, counters>>

EnterHostCancelled(p) ==
    /\ stage[p] = "checked" /\ hostGate[HostOf[p]] > 0 /\ cancelled
    /\ stage' = [stage EXCEPT ![p] = "ended"]
    /\ gate' = gate + 1
    /\ UNCHANGED <<phase, cancelled, poolVars, admit, hostGate, using, verdict,
                   breakerVars, now, overshoot, counters>>

\* Give both permits back, the host's first.
Leave(p, s) ==
    /\ stage' = [stage EXCEPT ![p] = s]
    /\ hostGate' = [hostGate EXCEPT ![HostOf[p]] = @ + 1]
    /\ gate' = gate + 1

\* The address the page's name resolves to now is not one to connect to.
RejectAddress(p) ==
    /\ stage[p] = "hosted"
    /\ Leave(p, "ended")
    /\ UNCHANGED <<phase, cancelled, poolVars, admit, using, verdict,
                   breakerVars, now, overshoot, counters>>

\* Fault: the free-list is peeked at and not popped.
PeekBrowser(p) ==
    /\ stage[p] = "hosted"
    /\ \E b \in free : using' = [using EXCEPT ![p] = b]
    /\ stage' = [stage EXCEPT ![p] = "fetching"]
    /\ UNCHANGED <<phase, cancelled, poolVars, admit, gate, hostGate, verdict,
                   breakerVars, now, overshoot, counters>>

PopBrowser(p) ==
    /\ stage[p] = "hosted"
    /\ \E b \in free :
         /\ free' = free \ {b}
         /\ using' = [using EXCEPT ![p] = b]
    /\ stage' = [stage EXCEPT ![p] = "fetching"]
    /\ overshoot' = IF Open(HostOf[p])
                    THEN [overshoot EXCEPT ![HostOf[p]] = @ + 1] ELSE overshoot
    /\ UNCHANGED <<phase, cancelled, chrome, admit, gate, hostGate, verdict,
                   breakerVars, now, counters>>

\* CircuitBreakerMap::record_failure: the third failure opens the breaker, each
\* later one opens it again from now on.
RecordFailure(h) ==
    /\ failures' = [failures EXCEPT ![h] = @ + 1]
    /\ openUntil' = IF failures[h] + 1 >= CB_FAILURE_THRESHOLD
                    THEN [openUntil EXCEPT ![h] = now + CB_COOLDOWN]
                    ELSE openUntil

\* CircuitBreakerMap::record_success closes the breaker, open or not.
RecordSuccess(h) ==
    /\ failures' = [failures EXCEPT ![h] = 0]
    /\ openUntil' = [openUntil EXCEPT ![h] = 0]

\* The free-list is empty although the gate admitted the page.
PopNothing(p) ==
    /\ stage[p] = "hosted" /\ free = {}
    /\ RecordFailure(HostOf[p])
    /\ Leave(p, "ended")
    /\ UNCHANGED <<phase, cancelled, poolVars, admit, using, verdict, now,
                   overshoot, counters>>

\* The extraction returned (text, no text, an error or its timeout). The browser
\* goes back to the free-list before any permit is given back.
ReturnBrowser(p, v) ==
    /\ stage[p] = "fetching" /\ v \in {"text", "failure"}
    /\ free' = free \cup {using[p]}
    /\ using' = [using EXCEPT ![p] = NoBrowser]
    /\ verdict' = [verdict EXCEPT ![p] = v]
    /\ stage' = [stage EXCEPT ![p] = "recording"]
    /\ UNCHANGED <<phase, cancelled, chrome, admit, gate, hostGate, breakerVars,
                   now, overshoot, counters>>

RecordPage(p) ==
    /\ stage[p] = "recording"
    /\ verdict' = [verdict EXCEPT ![p] = "none"]
    /\ \/ /\ verdict[p] = "text"
          /\ RecordSuccess(HostOf[p])
          /\ Leave(p, "fetched")
          /\ overshoot' = [overshoot EXCEPT ![HostOf[p]] = 0]
       \/ /\ verdict[p] = "failure"
          /\ RecordFailure(HostOf[p])
          /\ Leave(p, "ended")
          /\ UNCHANGED overshoot
    /\ UNCHANGED <<phase, cancelled, poolVars, admit, using, now, counters>>

\* Fault: dropping a browser does not kill its process.
PanicLeavesChrome(p) ==
    /\ PanicUnwinds /\ stage[p] = "fetching"
    /\ using' = [using EXCEPT ![p] = NoBrowser]
    /\ Leave(p, "panicked")
    /\ UNCHANGED <<phase, cancelled, poolVars, admit, verdict, breakerVars, now,
                   overshoot, counters>>

\* A panic under the extraction drops the browser, which kills its process,
\* and the permits. The free-list never sees the browser again.
PanicPage(p) ==
    /\ PanicUnwinds /\ stage[p] = "fetching"
    /\ chrome' = [chrome EXCEPT ![using[p]] = "closed"]
    /\ using' = [using EXCEPT ![p] = NoBrowser]
    /\ Leave(p, "panicked")
    /\ UNCHANGED <<phase, cancelled, free, admit, verdict, breakerVars, now,
                   overshoot, counters>>

-----------------------------------------------------------------------------
(* Joining the tasks and shutting the pool down.                           *)

JoinPages ==
    /\ phase = "fetching"
    /\ \A p \in Pages : stage[p] \in TaskOver \cup {"unspawned"}
    /\ counters' = [successes |-> Cardinality({p \in Pages : stage[p] = "fetched"}),
                    failures |-> Cardinality({p \in Pages :
                                     stage[p] \in {"ended", "panicked"}})]
    /\ phase' = "closing"
    /\ UNCHANGED <<cancelled, poolVars, admit, gate, hostGate, stage, using,
                   verdict, breakerVars, now, overshoot>>

\* Only what is on the free-list is shut down.
CloseMember(b) ==
    /\ phase = "closing" /\ b \in free
    /\ chrome' = [chrome EXCEPT ![b] = "closed"]
    /\ free' = free \ {b}
    /\ UNCHANGED <<phase, cancelled, admit, gate, hostGate, stage, using,
                   verdict, breakerVars, now, overshoot, counters>>

Finish ==
    /\ phase = "closing" /\ free = {}
    /\ phase' = "done"
    /\ UNCHANGED <<cancelled, poolVars, admit, gate, hostGate, stage, using,
                   verdict, breakerVars, now, overshoot, counters>>

-----------------------------------------------------------------------------

Cancel ==
    /\ ~cancelled
    /\ cancelled' = TRUE
    /\ UNCHANGED <<phase, poolVars, admit, gate, hostGate, stage, using,
                   verdict, breakerVars, now, overshoot, counters>>

Tick ==
    /\ phase = "fetching" /\ now < MaxTime
    /\ now' = now + 1
    /\ UNCHANGED <<phase, cancelled, poolVars, admit, gate, hostGate, stage,
                   using, verdict, breakerVars, overshoot, counters>>

Stopped == phase \in {"done", "unavailable"}
Done == Stopped /\ UNCHANGED vars

PageStep(p) ==
    \/ AdmitPage(p) \/ TurnAwayPage(p) \/ EnterHost(p) \/ EnterHostCancelled(p)
    \/ RejectAddress(p) \/ PopBrowser(p) \/ PopNothing(p)
    \/ \E v \in {"text", "failure"} : ReturnBrowser(p, v)
    \/ RecordPage(p)

PoolStep ==
    \/ \E b \in Browsers :
         LaunchMember(b) \/ LaunchMemberFails(b) \/ CloseMember(b)
    \/ PoolUnavailable \/ SpawnPages \/ JoinPages \/ Finish

Next ==
    \/ PoolStep \/ \E p \in Pages : PageStep(p) \/ PanicPage(p)
    \/ Cancel \/ Tick \/ Done

\* Launches, extractions and shutdowns are bounded by timeouts, and the runtime
\* keeps polling what is ready. No step of these can be undone.
Progress == PoolStep \/ \E p \in Pages : PageStep(p)

Spec == Init /\ [][Next]_vars /\ WF_vars(Progress)

-----------------------------------------------------------------------------

TypeOK ==
    /\ phase \in {"launching", "fetching", "closing", "done", "unavailable"}
    /\ cancelled \in BOOLEAN
    /\ chrome \in [Browsers -> {"none", "live", "failed", "closed"}]
    /\ free \in SUBSET Browsers
    /\ admit \in Nat /\ gate \in Nat
    /\ hostGate \in [Hosts -> Nat]
    /\ stage \in [Pages -> Stages]
    /\ using \in [Pages -> Browsers \cup {NoBrowser}]
    /\ verdict \in [Pages -> {"none", "text", "failure"}]
    /\ failures \in [Hosts -> Nat]
    /\ openUntil \in [Hosts -> Nat]
    /\ now \in 0 .. MaxTime
    /\ overshoot \in [Hosts -> Nat]
    /\ counters \in [successes : Nat, failures : Nat]

\* A browser serves one page at a time: the ones in use differ from page to page
\* and none of them is on the free-list; every live one is in one place or the
\* other. A page that is through the gates finds one: enrich.rs calls the other case
\* "Chrome pool empty under admission gate - unexpected". A panicked page takes its
\* browser along, so that claim is made while there is none.
BrowsersAccountedFor ==
    /\ \A p, q \in Pages : using[p] = using[q] /\ using[p] # NoBrowser => p = q
    /\ \A p \in Pages : using[p] \notin free
    /\ \A b \in Browsers :
         chrome[b] = "live" <=> b \in free \/ \E p \in Pages : using[p] = b
    /\ \A p \in Pages :
         stage[p] = "hosted" /\ (\A q \in Pages : stage[q] # "panicked") => free # {}

\* --per-host-limit: however wide the global gate, a host never serves more
\* pages at a time than its own limit.
PerHostPoliteness ==
    \A h \in Hosts :
        Cardinality({p \in Pages : HostOf[p] = h /\ stage[p] = "fetching"})
            <= PerHostLimit

\* The breaker is asked before the host's semaphore, so pages that wait there
\* are fetched although the breaker has opened meanwhile. Their number is
\* bounded: every one of them held a permit of the global gate beside the page
\* that opened the breaker.
OvershootBounded ==
    \A h \in Hosts : Open(h) => overshoot[h] <= admit - 1

\* When the enrichment returns, every Chrome it launched is gone.
PoolClosed == Stopped => \A b \in Browsers : chrome[b] # "live"

\* The enrichment returns: no page waits for ever at one of its gates, with the
\* run cancelled, hosts failing or browsers lost.
EnrichmentReturns == <>Stopped

\* circuit.rs: "during cooldown, requests are rejected without a network
\* round-trip", that is, no page of a host is navigated to while the breaker of
\* the host is open.
OpenBreakerShortCircuits ==
    [][\A p \in Pages :
          stage[p] # "fetching" /\ stage'[p] = "fetching" => ~Open(HostOf[p])]_vars
=============================================================================
