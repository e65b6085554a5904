------------------------------- MODULE Fleet --------------------------------
(***************************************************************************)
(* The fleet-anomaly engine: per cohort a ring of buckets over a trailing  *)
(* window, baselines learned from the buckets that left it, the verdict on *)
(* a surge, least-recently-used eviction and the shared snapshot of all    *)
(* anomalies.  Time is counted in epochs of one bucket; rates and EWMAs    *)
(* are exact fractions.  One shard, one watched signal.                    *)
(***************************************************************************)
EXTENDS Integers, Sequences, FiniteSets, FiniteSetsExt, SequencesExt, Functions

CONSTANTS None,
          Cohorts,     \* <<tenant, app>>, as numbers
          Buckets, PerShard, MinSamples,
          ColdVolume, MinVolume,
          TTL,         \* life of a snapshot, in epochs
          MaxEpoch, MaxObserved, MaxReaders

VARIABLES epoch,    \* the clock
          lru,      \* cohorts tracked, the most recently used first
          scope,    \* cohort -> ring and baselines
          late,     \* a call that waits for the shard: cohort, epoch, bit (None to assess only)
          snap,     \* when the published snapshot was computed, or None
          waiting,  \* readers that found it stale and wait for snapMu
          seen,     \* cohort -> observations since it was created (history)
          folded,   \* cohort -> epochs folded into the baselines (history)
          observed, \* observations so far
          verdict   \* assessment that a call returned just now, and what it was of, or None

vars == <<epoch, lru, scope, late, snap, waiting, seen, folded, observed, verdict>>

Tenant(k) == k[1]
Before(a, b) == a[1] < b[1] \/ (a[1] = b[1] /\ a[2] < b[2])

\* Fractions, and the settings as fractions.
Geq(x, y) == x[1] * y[2] >= y[1] * x[2]
Times(x, y) == <<x[1] * y[1], x[2] * y[2]>>
Alpha == <<1, 2>>
SurgeFactor == <<3, 2>>
AbsoluteFloor == <<1, 4>>
ColdStartFloor == <<1, 2>>
VelocityFactor == <<2, 1>>

Empty == [epoch |-> 0, total |-> 0, count |-> 0]
Unseeded == [seeded |-> FALSE, value |-> <<0, 1>>]
NewScope == [ring |-> [i \in 0..(Buckets - 1) |-> Empty], baseline |-> Unseeded, vol |-> Unseeded]

Init ==
    /\ epoch = 1 /\ lru = <<>> /\ scope = [k \in Cohorts |-> NewScope] /\ late = None
    /\ snap = None /\ waiting = 0
    /\ seen = [k \in Cohorts |-> <<>>] /\ folded = [k \in Cohorts |-> {}]
    /\ observed = 0 /\ verdict = None

More == observed < MaxObserved /\ observed' = observed + 1

-----------------------------------------------------------------------------
(* Observing.                                                              *)

\* alpha * sample + (1 - alpha) * value.
foldEWMA(bl, sample) ==
    IF ~bl.seeded THEN [seeded |-> TRUE, value |-> sample]
    ELSE [bl EXCEPT !.value = <<Alpha[1] * sample[1] * bl.value[2] + (Alpha[2] - Alpha[1]) * bl.value[1] * sample[2],
                                Alpha[2] * sample[2] * bl.value[2]>>]

foldBaseline(sc, b) ==
    [sc EXCEPT !.baseline = foldEWMA(@, <<b.count, b.total>>), !.vol = foldEWMA(@, <<b.total, 1>>)]

\* Mutant: the ring is used one bucket short.
SlotShort(ep) == ep % (Buckets - 1)

Slot(ep) == ep % Buckets

Recycled(sc, ep) == LET b == sc.ring[Slot(ep)] IN b.epoch # ep /\ b.epoch # 0 /\ b.total > 0

\* A bucket that comes round again is folded into the baselines if it held
\* anything, emptied, and then counts.
observeLocked(sc, ep, bit) ==
    LET i == Slot(ep)
        b == sc.ring[i]
        kept == IF b.epoch = ep THEN b ELSE Empty
    IN  [(IF Recycled(sc, ep) THEN foldBaseline(sc, b) ELSE sc) EXCEPT
            !.ring[i] = [epoch |-> ep, total |-> kept.total + 1, count |-> kept.count + bit]]

\* The order of use after k was used: past the cap the last one is dropped.
getOrCreateLocked(k) ==
    LET front == <<k>> \o SelectSeq(lru, LAMBDA j : j # k)
    IN  SubSeq(front, 1, Min({PerShard, Len(front)}))

\* What an observation under the shard's lock does.
Observe(k, ep, bit) ==
    LET known == Contains(lru, k)
        sc == IF known THEN scope[k] ELSE NewScope
        b == sc.ring[Slot(ep)]
    IN  /\ lru' = getOrCreateLocked(k)
        /\ scope' = [j \in Cohorts |-> IF j = k THEN observeLocked(sc, ep, bit)
                                      ELSE IF Contains(lru', j) THEN scope[j] ELSE NewScope]
        /\ seen' = [j \in Cohorts |-> IF j = k THEN Append(IF known THEN seen[k] ELSE <<>>, <<ep, bit>>)
                                     ELSE IF Contains(lru', j) THEN seen[j] ELSE <<>>]
        /\ folded' = [j \in Cohorts |-> IF j = k THEN (IF known THEN folded[k] ELSE {}) \cup
                                                     (IF Recycled(sc, ep) THEN {b.epoch} ELSE {})
                                       ELSE IF Contains(lru', j) THEN folded[j] ELSE {}]

\* The wait for the lock is shorter than the window.
Tick ==
    /\ epoch < MaxEpoch /\ (late # None => epoch + 1 < late.epoch + Buckets)
    /\ epoch' = epoch + 1 /\ verdict' = None
    /\ UNCHANGED <<lru, scope, late, snap, waiting, seen, folded, observed>>

-----------------------------------------------------------------------------
(* Assessing.                                                              *)

InWindow(b, ep) == b.epoch >= ep - (Buckets - 1) /\ b.epoch <= ep

assessLocked(sc, ep) ==
    LET live == {i \in DOMAIN sc.ring : InWindow(sc.ring[i], ep)}
        total == FoldSet(LAMBDA i, n : n + sc.ring[i].total, 0, live)
        count == FoldSet(LAMBDA i, n : n + sc.ring[i].count, 0, live)
        cur == <<count, total>>
        surge == /\ total >= MinSamples
                 /\ IF ~sc.baseline.seeded THEN Geq(cur, ColdStartFloor)
                    ELSE Geq(cur, AbsoluteFloor) /\ Geq(cur, Times(sc.baseline.value, SurgeFactor))
        velocity == IF sc.vol.seeded
                    THEN /\ total >= MinVolume
                         /\ Geq(<<total, 1>>, Times(Times(sc.vol.value, <<Buckets, 1>>), VelocityFactor))
                    ELSE total >= ColdVolume
    IN  [anomalous |-> surge \/ velocity, signal |-> surge, velocity |-> velocity, observed |-> total, counted |-> count]

\* What a call returns: the cohort is judged by the window that ends at ep.
Judge(k, ep) == verdict' = [cohort |-> k, epoch |-> ep, of |-> seen'[k], result |-> assessLocked(scope'[k], ep)]

\* One lock for both, and the epoch of the call for both.
ObserveAndAssessNow(k, ep, bit) == Observe(k, ep, bit) /\ Judge(k, ep)

\* An unknown cohort is clean; asking counts as use.
Assess(k, ep) ==
    /\ UNCHANGED <<scope, seen, folded>>
    /\ IF Contains(lru, k) THEN lru' = getOrCreateLocked(k) /\ Judge(k, ep)
       ELSE verdict' = None /\ UNCHANGED lru

\* A call that finds the shard free.
CallNow(k) ==
    /\ \/ \E bit \in {0, 1} : More /\ ObserveAndAssessNow(k, epoch, bit)
       \/ Assess(k, epoch) /\ UNCHANGED observed
    /\ UNCHANGED <<epoch, late, snap, waiting>>

\* The epoch is read before the shard's lock is taken,
AwaitShard(k, bit) ==
    /\ late = None /\ IF bit = None THEN UNCHANGED observed ELSE More
    /\ late' = [cohort |-> k, epoch |-> epoch, bit |-> bit] /\ verdict' = None
    /\ UNCHANGED <<epoch, lru, scope, snap, waiting, seen, folded>>

\* and is used under it.
CallLate ==
    /\ late # None /\ late' = None
    /\ IF late.bit = None THEN Assess(late.cohort, late.epoch)
       ELSE ObserveAndAssessNow(late.cohort, late.epoch, late.bit)
    /\ UNCHANGED <<epoch, snap, waiting, observed>>

\* The anomalous cohorts in their order.
computeSnapshot == SelectSeq(SetToSortSeq(Cohorts, Before),
                             LAMBDA k : Contains(lru, k) /\ assessLocked(scope[k], epoch).anomalous)

snapshotFresh == snap # None /\ epoch >= snap /\ epoch - snap < TTL

\* A fresh snapshot is served without a lock.
Load ==
    /\ waiting < MaxReaders /\ ~snapshotFresh
    /\ waiting' = waiting + 1 /\ verdict' = None
    /\ UNCHANGED <<epoch, lru, scope, late, snap, seen, folded, observed>>

\* Under the lock the cache is looked at again with the clock read again; the
\* scan, computeSnapshot, is published with its time.
Snapshot ==
    /\ waiting > 0 /\ waiting' = waiting - 1
    /\ snap' = IF snapshotFresh THEN snap ELSE epoch
    /\ verdict' = None
    /\ UNCHANGED <<epoch, lru, scope, late, seen, folded, observed>>

\* The tenant's run in the sorted snapshot, found by two binary searches.
TenantSnapshot(all, t) ==
    LET lo == Cardinality({i \in DOMAIN all : Tenant(all[i]) < t})
        hi == Cardinality({i \in DOMAIN all : Tenant(all[i]) <= t})
    IN  IF lo >= hi THEN <<>> ELSE SubSeq(all, lo + 1, hi)

-----------------------------------------------------------------------------

Next ==
    \/ \E k \in Cohorts : CallNow(k) \/ \E bit \in {0, 1, None} : AwaitShard(k, bit)
    \/ CallLate \/ Tick
    \/ Load \/ Snapshot

Spec == Init /\ [][Next]_vars

-----------------------------------------------------------------------------

\* Of the observations of a cohort, those of the window that ends at ep which no
\* later one has taken the bucket of.
Counted(of, ep) ==
    SelectSeq(of, LAMBDA o : /\ o[1] \in (ep - Buckets + 1)..ep
                             /\ \A later \in Range(of) : later[1] # o[1] + Buckets)

\* A cohort is judged by exactly the observations of the trailing window that it
\* made since it was created, though buckets are reused in place and a call may
\* enter the ring late: when it waited for the lock while newer calls went ahead, it
\* is judged by the window of its own epoch, less the buckets that those took over.
WindowExact == verdict # None =>
    LET counted == Counted(verdict.of, verdict.epoch)
        a == verdict.result
    IN  /\ a.observed = Len(counted) /\ a.counted = FoldSeq(LAMBDA o, n : n + o[2], 0, counted)
        /\ verdict.epoch = epoch => counted = SelectSeq(verdict.of, LAMBDA o : o[1] > epoch - Buckets)
        /\ \A o \in Range(counted) : o[1] \notin folded[verdict.cohort]

\* A baseline is learned only from buckets that left the window: what is
\* being judged is never part of what it is judged against.
BaselineIsPast == \A k \in Cohorts : \A ep \in folded[k] : ep <= epoch - Buckets

\* A tenant is shown all of its anomalous cohorts and no other tenant's.
TenantSeesItsOwn ==
    LET anomalies == computeSnapshot
    IN  \A t \in {Tenant(k) : k \in Cohorts} :
            TenantSnapshot(anomalies, t) = SelectSeq(anomalies, LAMBDA k : Tenant(k) = t)

=============================================================================
