----------------------------- MODULE Aggregate -----------------------------
(***************************************************************************)
(* How a run becomes summary.json.  The scenario launches subscribers      *)
(* along the schedule; they, the I/O engine and the listener emit events;  *)
(* the collector gives each event to the shard of its subscriber, whose    *)
(* shardAggregation.observe folds it, or drops it when the channel is      *)
(* full; Aggregate reduces the shards to a Summary, and the API's          *)
(* latency-histogram endpoint derives its buckets from it.                 *)
(*                                                                         *)
(* Stop may cut the run anywhere, so the Summary is looked at in every     *)
(* state.  Subscriber ids start at 0, and events that belong to no         *)
(* subscriber (the listener's, the runner's) carry id 0 as well.           *)
(***************************************************************************)
EXTENDS Integers, Sequences, SequencesExt, FiniteSets, FiniteSetsExt, Schedule

CONSTANTS
  Count,          \* subscribers.count
  ShardCount,     \* Opts.ShardCount
  CurveBucketMs,  \* width of a curve bucket, in ticks
  Configs, Draws, \* scenario blocks, and values of the Gaussian draws
  EndOfTime,      \* bound: ticks
  MaxExtras       \* bound: retransmissions, inbound requests and drops together

ASSUME AggregateAssumption ==
  /\ Count \in Nat /\ ShardCount \in Nat \ {0} /\ CurveBucketMs \in Nat \ {0}
  /\ EndOfTime \in Nat /\ MaxExtras \in Nat

\* The numbers of a scenario block are whole ticks, and draws whole sigmas.
ASSUME ScheduleAssumption ==
  /\ Draws \subseteq Int
  /\ \A c \in Configs : c.block =>
       /\ c.type = "cold_start" => c.mu \in Int /\ c.sigma \in Int /\ c.k \in Int
       /\ c.type = "uniform" => c.duration \in Int
       /\ c.type = "pessimal" => c.burst \in Int

Subs   == 0 .. Count - 1
Shards == 0 .. ShardCount - 1
NA     == -1    \* events.NotApplicableMs: no entry in the map
Finals == {"established", "auth_failed", "acct_failed", "terminated"}

VARIABLES
  scenario, plan,   \* the scenario block and BuildSchedule's result
  now,              \* ticks since T0
  state,            \* each subscriber, as its Run knows it
  activatedAt, endedAt, retransmits, \* what happened to each subscriber
  inbound, drops,   \* how many inbound events, and dropped events, there were
  aggs,             \* the shards' shardAggregations
  single            \* history: one aggregation that observed the same events

runVars == <<scenario, plan>>
subVars == <<state, activatedAt, endedAt, retransmits, inbound>>
vars == <<runVars, now, subVars, drops, aggs, single>>

-----------------------------------------------------------------------------
(* shardAggregation.                                                       *)

newShardAggregation ==
  [seenSubs |-> {}, activated |-> [s \in Subs |-> NA],
   established |-> [s \in Subs |-> NA], terminal |-> [s \in Subs |-> "none"],
   auth |-> [s \in Subs |-> 0], acct |-> [s \in Subs |-> 0],
   counts |-> [retransmitted |-> 0, received |-> 0, answered |-> 0], latencies |-> <<>>]

Event(s, kind, value) == [sub |-> s, kind |-> kind, value |-> value, at |-> now]

\* Fault: an event without a subscriber counts as one of subscriber 0.
SeenAlways(a, e) == a.seenSubs \cup {e.sub}

\* Id 0 is not remembered.
Seen(a, e) == IF e.sub # 0 THEN a.seenSubs \cup {e.sub} ELSE a.seenSubs

\* Only the first offset of a subscriber is kept.
Earliest(f, e) == IF f[e.sub] = NA THEN [f EXCEPT ![e.sub] = e.at] ELSE f

\* observe: fold one event.  Every other kind of event is only seen.
observe(a, e) ==
  LET b == [a EXCEPT !.seenSubs = Seen(a, e)] IN
  CASE e.kind = "activated" -> [b EXCEPT !.activated = Earliest(@, e)]
    [] e.kind = "terminal" ->
         [b EXCEPT !.terminal[e.sub] = e.value,
                   !.established = IF e.value = "established" THEN Earliest(@, e) ELSE @]
    [] e.kind = "retransmitted" ->
         [b EXCEPT !.counts.retransmitted = @ + 1,
                   !.auth[e.sub] = IF e.value = "auth" THEN @ + 1 ELSE @,
                   !.acct[e.sub] = IF e.value = "acct" THEN @ + 1 ELSE @]
    [] e.kind = "received" -> [b EXCEPT !.counts.received = @ + 1]
    [] e.kind = "answered" ->
         [b EXCEPT !.counts.answered = @ + 1,
                   !.latencies = IF e.value > 0 THEN Append(@, e.value) ELSE @]
    [] OTHER -> b

\* Running sums of f[0], f[1], ...: point k adds up the first k of n values.
Sums(f, n) ==
  LET sum[k \in 0 .. n] == IF k = 0 THEN 0 ELSE sum[k - 1] + f[k - 1] IN sum

\* The sum of f over its domain, which is 0 .. n - 1.
Total(f) == LET n == Cardinality(DOMAIN f) IN Sums(f, n)[n]

\* Submit's choice of a shard.
ShardOf(e) == e.sub % ShardCount

extras == Total(retransmits) + inbound + drops

\* Submit: the shard folds the event, or the channel is full and it is lost.
Submit(e) ==
  \/ /\ aggs' = [aggs EXCEPT ![ShardOf(e)] = observe(@, e)]
     /\ single' = observe(single, e)
     /\ UNCHANGED drops
  \/ /\ extras < MaxExtras /\ drops' = drops + 1
     /\ UNCHANGED <<aggs, single>>

-----------------------------------------------------------------------------
(* The run.                                                                *)

Init ==
  /\ scenario \in Configs
  /\ \E draws \in [1 .. Count -> Draws] : plan = BuildSchedule(Count, scenario, draws)
  /\ now = 0
  /\ state = [s \in Subs |-> "idle"]
  /\ activatedAt = [s \in Subs |-> NA] /\ endedAt = [s \in Subs |-> NA]
  /\ retransmits = [s \in Subs |-> 0] /\ inbound = 0 /\ drops = 0
  /\ aggs = [k \in Shards |-> newShardAggregation]
  /\ single = newShardAggregation

Tick ==
  /\ now < EndOfTime /\ now' = now + 1
  /\ UNCHANGED <<runVars, subVars, drops, aggs, single>>

\* ramp launches every subscriber that is due, in order; their goroutines
\* report activated in any order, and at any later time.
Activate(s) ==
  /\ state[s] = "idle"
  /\ s < Len(plan.offsets) /\ plan.offsets[s + 1] <= now
  /\ state' = [state EXCEPT ![s] = "active"]
  /\ activatedAt' = [activatedAt EXCEPT ![s] = now]
  /\ Submit(Event(s, "activated", "idle"))
  /\ UNCHANGED <<runVars, now, endedAt, retransmits, inbound>>

\* The engine retransmits a request of the subscriber.
Retransmit(s, code) ==
  /\ state[s] = "active"
  /\ extras < MaxExtras
  /\ retransmits' = [retransmits EXCEPT ![s] = @ + 1]
  /\ Submit(Event(s, "retransmitted", code))
  /\ UNCHANGED <<runVars, now, state, activatedAt, endedAt, inbound>>

\* Any other event of a subscriber under way: state_changed, request_sent, ...
Other(s) ==
  /\ state[s] = "active"
  /\ Submit(Event(s, "other", "none"))
  /\ UNCHANGED <<runVars, now, subVars>>

\* Run ends: terminate reports the final state.
Terminal(s, final) ==
  /\ state[s] = "active"
  /\ state' = [state EXCEPT ![s] = final]
  /\ endedAt' = [endedAt EXCEPT ![s] = now]
  /\ Submit(Event(s, "terminal", final))
  /\ UNCHANGED <<runVars, now, activatedAt, retransmits, inbound>>

\* The listener reports a request it received or answered, under id 0, and a
\* subscriber's handler one it was handed, under its own.
Inbound(s, kind, latency) ==
  /\ extras < MaxExtras /\ inbound' = inbound + 1
  /\ s = 0 \/ (kind = "received" /\ state[s] # "idle")
  /\ Submit(Event(s, kind, latency))
  /\ UNCHANGED <<runVars, now, state, activatedAt, endedAt, retransmits>>

\* New refuses a scenario without a schedule: there is no run.
Next ==
  /\ ~plan.err
  /\ \/ Tick
     \/ \E s \in Subs :
          \/ Activate(s) \/ Other(s)
          \/ \E code \in {"auth", "acct"} : Retransmit(s, code)
          \/ \E final \in Finals \ {"terminated"} : Terminal(s, final)
          \/ \E kind \in {"received", "answered"}, latency \in {0, 7} : Inbound(s, kind, latency)

Spec == Init /\ [][Next]_vars

-----------------------------------------------------------------------------
(* Aggregate.  A is a function from shard numbers to aggregations.         *)

\* Fault: a shard without an entry clears what earlier shards held.
EntryOfLastShard(f, absent) == f[Max(DOMAIN f)]

\* One entry of a map that every shard has: a later shard's replaces an earlier's.
Entry(f, absent) ==
  LET has == {k \in DOMAIN f : f[k] # absent} IN
  IF has = {} THEN absent ELSE f[Max(has)]

\* A subscriber's merged record (subAgg).
subAgg(A, s) ==
  [activated   |-> Entry([k \in DOMAIN A |-> A[k].activated[s]], NA),
   established |-> Entry([k \in DOMAIN A |-> A[k].established[s]], NA),
   retransmits |-> Entry([k \in DOMAIN A |-> A[k].auth[s]], 0)
                   + Entry([k \in DOMAIN A |-> A[k].acct[s]], 0)]

\* The records of every subscriber with an entry in some map of some shard.
merged(A) ==
  LET known(a, s) == \/ a.activated[s] # NA \/ a.established[s] # NA
                     \/ a.terminal[s] # "none" \/ a.auth[s] > 0 \/ a.acct[s] > 0
                     \/ s \in a.seenSubs
  IN [s \in {t \in Subs : \E k \in DOMAIN A : known(A[k], t)} |-> subAgg(A, s)]

terminalCounts(A, final) ==
  Cardinality({p \in (DOMAIN A) \X Subs : A[p[1]].terminal[p[2]] = final})

\* Fault: the rank is rounded down.
rankDown(n, permille) ==
  LET r == (permille * n) \div 1000 IN
  CASE r < 1 -> 1 [] r > n -> n [] OTHER -> r

\* percentile's rank: q * N rounded up, clamped to the slice.
rank(n, permille) ==
  LET r == (permille * n + 999) \div 1000 IN
  CASE r < 1 -> 1 [] r > n -> n [] OTHER -> r

percentile(sorted, permille) ==
  IF sorted = <<>> THEN 0 ELSE sorted[rank(Len(sorted), permille)]

computeDistribution(samples) ==
  LET cp == Sorted(samples) IN
  [p50 |-> percentile(cp, 500), p95 |-> percentile(cp, 950),
   p99 |-> percentile(cp, 990), p999 |-> percentile(cp, 999),
   min |-> IF cp = <<>> THEN 0 ELSE cp[1], max |-> IF cp = <<>> THEN 0 ELSE cp[Len(cp)]]

\* The values of a map, as a slice in some order.
Values(f) == LET order == SetToSeq(DOMAIN f) IN [i \in DOMAIN order |-> f[order[i]]]

\* Fault: an offset on the last bucket's edge falls off the curve.
bucketsTight(off) ==
  LET top == Max({off[s] : s \in DOMAIN off} \cup {0})
  IN  Max({(top + CurveBucketMs - 1) \div CurveBucketMs, 1})

\* How many buckets the largest offset needs.
buckets(off) ==
  Max({off[s] : s \in DOMAIN off} \cup {0}) \div CurveBucketMs + 1

\* Running sums of the offsets in each bucket, from 0 on.
cumulative(off, n) ==
  LET delta(b) == Cardinality({s \in DOMAIN off : off[s] >= 0 /\ off[s] \div CurveBucketMs = b})
  IN  Sums([b \in 0 .. n - 1 |-> delta(b)], n)

\* Curve points, point b at offset b * CurveBucketMs.
buildEstablishmentCurve(subs) ==
  LET act == [s \in DOMAIN subs |-> subs[s].activated]
      est == [s \in DOMAIN subs |-> subs[s].established]
      n   == Max({buckets(act), buckets(est)})
      cumAct == cumulative(act, n)
      cumEst == cumulative(est, n)
  IN  [b \in 0 .. (IF DOMAIN subs = {} THEN 0 ELSE n) |->
        [activated |-> cumAct[b], established |-> cumEst[b],
         inFlight |-> cumAct[b] - cumEst[b]]]

ByState(final) ==
  final.established + final.auth_failed + final.acct_failed + final.terminated

Summary(A) ==
  LET subs  == merged(A)
      lat   == {s \in DOMAIN subs : subs[s].activated >= 0 /\ subs[s].established >= 0}
      est   == {subs[s].established : s \in DOMAIN subs} \ {NA}
      final == [f \in Finals |-> terminalCounts(A, f)]
      total == Cardinality(DOMAIN subs)
      left  == total - ByState(final)
  IN [total |-> total, final |-> final,
      stillInFlight |-> IF left < 0 THEN 0 ELSE left,
      timeToFirst |-> IF est = {} THEN 0 ELSE Min(est),
      timeToFull |-> IF est = {} THEN 0 ELSE Max(est),
      latency |-> computeDistribution(
                    Values([s \in lat |-> subs[s].established - subs[s].activated])),
      retransmits |-> computeDistribution(
                        Values([s \in DOMAIN subs |-> subs[s].retransmits])),
      withRetransmit |-> Cardinality({s \in DOMAIN subs : subs[s].retransmits > 0}),
      curve |-> buildEstablishmentCurve(subs),
      retransmitted |-> Total([k \in DOMAIN A |-> A[k].counts.retransmitted]),
      received |-> Total([k \in DOMAIN A |-> A[k].counts.received]),
      answered |-> Total([k \in DOMAIN A |-> A[k].counts.answered]),
      response |-> computeDistribution(
                     FlattenSeq([i \in 1 .. Cardinality(DOMAIN A) |-> A[i - 1].latencies]))]

\* Fault: the buckets are scaled by all subscribers.
extractHistogramOfTotal(sum) ==
  LET bucket(le, permille) == [le |-> le, count |-> (sum.total * permille) \div 1000]
  IN IF sum.total = 0 THEN <<>>
     ELSE <<bucket(sum.latency.p50, 500), bucket(sum.latency.p95, 950),
            bucket(sum.latency.p99, 990), bucket(sum.latency.max, 1000)>>

\* extractHistogram: how many established within each percentile's latency.
extractHistogram(sum) ==
  LET n == IF sum.final.established = 0 THEN sum.total ELSE sum.final.established
      bucket(le, permille) == [le |-> le, count |-> (n * permille) \div 1000]
  IN IF n = 0 THEN <<>>
     ELSE <<bucket(sum.latency.p50, 500), bucket(sum.latency.p95, 950),
            bucket(sum.latency.p99, 990), bucket(sum.latency.max, 1000)>>

-----------------------------------------------------------------------------
(* Properties.                                                             *)

Activated     == {s \in Subs : state[s] # "idle"}
Ended(final)  == {s \in Subs : state[s] = final}
Latency(s)    == endedAt[s] - activatedAt[s]
Within(v)     == Cardinality({s \in Ended("established") : Latency(s) <= v})

\* A schedule that was accepted is sorted, as ramp's loop needs, has an offset
\* for every subscriber (coa_storm: for none), and keeps to the window its
\* block describes: the truncated Gaussian's, the duration, or the burst.
ScheduleSound ==
  LET c == scenario IN
  ~plan.err =>
    /\ Len(plan.offsets) = IF c.type = "coa_storm" THEN 0 ELSE Count
    /\ \A i \in DOMAIN plan.offsets :
         /\ i > 1 => plan.offsets[i - 1] <= plan.offsets[i]
         /\ CASE c.type = "cold_start" ->
                   /\ plan.offsets[i] >= c.mu - TruncateSigma(c) * c.sigma
                   /\ plan.offsets[i] \in 0 .. c.mu + TruncateSigma(c) * c.sigma
              [] c.type = "uniform" -> plan.offsets[i] \in 0 .. c.duration - 1
              [] c.type = "pessimal" -> c.block => plan.offsets[i] \in 0 .. c.burst

\* The subscribers section adds up.  If nothing was dropped it is what
\* happened, whatever else was emitted under id 0; with drops it never counts
\* more than happened.
TotalsMatch ==
  LET sum == Summary(aggs) IN
  /\ sum.total = sum.stillInFlight + ByState(sum.final)
  /\ sum.total <= Cardinality(Activated)
  /\ \A f \in Finals : sum.final[f] <= Cardinality(Ended(f))
  /\ drops = 0 =>
       /\ sum.total = Cardinality(Activated)
       /\ sum.stillInFlight = Cardinality(Ended("active"))
       /\ \A f \in Finals : sum.final[f] = Cardinality(Ended(f))
       /\ sum.retransmitted = Total(retransmits)
       /\ sum.withRetransmit = Cardinality({s \in Subs : retransmits[s] > 0})

\* If nothing was dropped, a point of the establishment curve counts exactly
\* the activations and establishments before its offset, none is beyond the
\* last point, and in_flight is never negative.
CurveMatches ==
  drops = 0 =>
    LET curve == Summary(aggs).curve
        last  == curve[Max(DOMAIN curve)]
        Before(at, S, t) == Cardinality({s \in S : at[s] # NA /\ at[s] < t})
    IN /\ \A b \in DOMAIN curve :
            /\ curve[b].activated = Before(activatedAt, Subs, b * CurveBucketMs)
            /\ curve[b].established = Before(endedAt, Ended("established"), b * CurveBucketMs)
            /\ curve[b].inFlight >= 0
       /\ last.activated = Cardinality(Activated)
       /\ last.established = Cardinality(Ended("established"))

\* How many shards there are cannot be told from the summary.
ShardingInvisible ==
  Summary(aggs) = Summary([k \in {0} |-> single])

\* Every latency percentile is the least latency that enough subscribers keep
\* (nearest rank), if nothing was dropped.
LatencyIsNearestRank ==
  LET lat == Summary(aggs).latency
      n   == Cardinality(Ended("established"))
      IsRank(v, permille) ==
        /\ 1000 * Within(v) >= permille * n
        /\ 1000 * Within(v - 1) < permille * n
  IN drops = 0 /\ n > 0 =>
       /\ IsRank(lat.p50, 500) /\ IsRank(lat.p95, 950)
       /\ IsRank(lat.p99, 990) /\ IsRank(lat.p999, 999) /\ IsRank(lat.max, 1000)

\* The histogram never claims that more subscribers established within a
\* latency than did, and its last bucket holds all of them, if any did and
\* nothing was dropped.
HistogramSound ==
  LET hist == extractHistogram(Summary(aggs)) IN
  drops = 0 /\ Ended("established") # {} =>
    /\ \A i \in DOMAIN hist : hist[i].count <= Within(hist[i].le)
    /\ hist[4].count = Within(hist[4].le)

=============================================================================
