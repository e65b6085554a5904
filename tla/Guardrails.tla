----------------------------- MODULE Guardrails -----------------------------
(***************************************************************************)
(* The guardrail detector: block rates and false positives of modules per  *)
(* scope over a ring of buckets, the sample that the canary controller     *)
(* reads, the alerts, and the pruning of scopes without traffic.  Every    *)
(* operation holds the mutex; time is counted in epochs of one bucket.     *)
(***************************************************************************)
EXTENDS Integers, Sequences, FiniteSets, FiniteSetsExt, SequencesExt

CONSTANTS None, Scopes, BucketCount,
          Threshold,   \* a fraction <<n, d>>
          MinSamples, MaxEpoch, MaxRecords

VARIABLES epoch, scopes, \* scope -> ring of buckets, or None
          alerts,        \* what the last Evaluate returned
          recorded       \* scope -> <<kind, epoch, flag>> (history)

vars == <<epoch, scopes, alerts, recorded>>

Empty == [epoch |-> 0, total |-> 0, blocked |-> 0, flagged |-> 0, falsePositive |-> 0]
NewCounts == [i \in 0..(BucketCount - 1) |-> Empty]

Init == epoch = 1 /\ scopes = [k \in Scopes |-> None] /\ alerts = {} /\ recorded = [k \in Scopes |-> <<>>]

Records == FoldSet(LAMBDA k, n : n + Len(recorded[k]), 0, Scopes)

\* The bucket of the current epoch, emptied if it held another's.
liveBucket(c) == LET b == c[epoch % BucketCount]
                 IN  IF b.epoch # epoch THEN [Empty EXCEPT !.epoch = epoch] ELSE b

Live(c) == {i \in DOMAIN c : c[i].epoch >= epoch - (BucketCount - 1) /\ c[i].epoch <= epoch}

aggregate(c) ==
    LET Total(n(_)) == FoldSet(LAMBDA i, acc : acc + n(c[i]), 0, Live(c))
    IN  [total |-> Total(LAMBDA b : b.total), blocked |-> Total(LAMBDA b : b.blocked),
         flagged |-> Total(LAMBDA b : b.flagged), falsePositive |-> Total(LAMBDA b : b.falsePositive)]

hasTraffic(c) == \E i \in Live(c) : c[i].total > 0

Counts(k) == IF scopes[k] = None THEN NewCounts ELSE scopes[k]

Put(k, b) == scopes' = [scopes EXCEPT ![k] = [Counts(k) EXCEPT ![epoch % BucketCount] = b]]
Note(k, kind, flag) == recorded' = [recorded EXCEPT ![k] = Append(@, <<kind, epoch, flag>>)]

RecordDecision(k, blocked) ==
    LET b == liveBucket(Counts(k))
    IN  /\ Records < MaxRecords
        /\ Put(k, [b EXCEPT !.total = @ + 1, !.blocked = @ + blocked]) /\ Note(k, "decision", blocked)
        /\ UNCHANGED <<epoch, alerts>>

RecordModule(k, falsePositive) ==
    LET b == liveBucket(Counts(k))
    IN  /\ Records < MaxRecords
        /\ Put(k, [b EXCEPT !.flagged = @ + 1, !.falsePositive = @ + falsePositive]) /\ Note(k, "module", falsePositive)
        /\ UNCHANGED <<epoch, alerts>>

\* Blocked and total decisions of the window; none for an unknown scope.
Sample(k) == IF scopes[k] = None THEN <<0, 0>>
             ELSE LET a == aggregate(scopes[k]) IN <<a.blocked, a.total>>

ModuleFalsePositiveRate(k) == IF scopes[k] = None THEN <<0, 0>>
                              ELSE LET a == aggregate(scopes[k]) IN <<a.falsePositive, a.flagged>>

\* Scopes without traffic are dropped; those over the threshold alert.
Evaluate ==
    LET known == {k \in Scopes : scopes[k] # None}
        busy == {k \in known : hasTraffic(scopes[k])}
    IN  /\ scopes' = [k \in Scopes |-> IF k \in busy THEN scopes[k] ELSE None]
        /\ alerts' = {k \in busy : /\ Sample(k)[2] >= MinSamples
                                   /\ Sample(k)[1] * Threshold[2] > Threshold[1] * Sample(k)[2]}
        /\ UNCHANGED <<epoch, recorded>>

Tick == epoch < MaxEpoch /\ epoch' = epoch + 1 /\ UNCHANGED <<scopes, alerts, recorded>>

Next ==
    \/ \E k \in Scopes, flag \in {0, 1} : RecordDecision(k, flag) \/ RecordModule(k, flag)
    \/ Evaluate \/ Tick

Spec == Init /\ [][Next]_vars

-----------------------------------------------------------------------------

InLast(k, kind) == SelectSeq(recorded[k], LAMBDA o : o[1] = kind /\ o[2] > epoch - BucketCount)
Flags(s) == FoldSeq(LAMBDA o, n : n + o[3], 0, s)

\* The sample that decides on a rollback is exact: the decisions of the
\* trailing window, all of them and only they, through reuse of buckets and
\* through pruning.
SampleExact == \A k \in Scopes : Sample(k) = <<Flags(InLast(k, "decision")), Len(InLast(k, "decision"))>>

=============================================================================
