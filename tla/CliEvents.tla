------------------------------ MODULE CliEvents ------------------------------
(***************************************************************************)
(* The two event readers of the CLI (cmd/kseal-cli/internal/cli): events   *)
(* tail, which polls the newest page and prints what it has not printed    *)
(* yet (events.go, tailEvents), and the collector of policy simulate, which*)
(* pages through the store up to a maximum (policy.go, collectRiskBits).   *)
(*                                                                         *)
(* Events arrive in any order of their times; the server lists newest      *)
(* first, by time and then by id (see Analytics), and expires the oldest.  *)
(***************************************************************************)
EXTENDS Integers, Sequences, FiniteSets

CONSTANTS
    None,
    Ids, Times,     \* an event is <<time, id>>
    PageSize,       \* events a tail fetches per poll
    MaxSeen,        \* size at which the seen-set is pruned
    ServerPage,     \* page size the collector asks for at most
    MaxEvents,      \* events to replay at most
    MaxFaults

VARIABLES
    stored,     \* events the server holds
    arrived,    \* ids used
    seen, printed, tail,    \* the tail: ids, lines, running or why it stopped
    shown,      \* the page of the last poll
    bits, cursor, collector, had,   \* the collector; had: stored when it began
    faults

vars == <<stored, arrived, seen, printed, tail, shown, bits, cursor, collector, had, faults>>
tailVars == <<seen, printed, tail, shown>>
collectVars == <<bits, cursor, collector, had>>

Less(a, b) == a[1] < b[1] \/ (a[1] = b[1] /\ a[2] < b[2])

\* ListEvents: the n newest below the cursor, newest first.
ListEvents(n, after) ==
    LET rows == {e \in stored : after = None \/ Less(e, after)}
        page == {e \in rows : Cardinality({x \in rows : Less(e, x)}) < n}
    IN  [events |-> [i \in 1 .. Cardinality(page) |->
                        CHOOSE e \in page : Cardinality({x \in page : Less(e, x)}) = i - 1],
         more |-> page # rows]

Init ==
    /\ stored = {} /\ arrived = {}
    /\ seen = {} /\ printed = <<>> /\ shown = {}
    /\ bits = <<>> /\ cursor = None /\ had = {}
    \* The two readers share nothing: a behaviour has one of them.
    /\ \/ tail = "running" /\ collector = "off"
       \/ tail = "off" /\ collector = "idle"
    /\ faults = 0

Fault == faults < MaxFaults /\ faults' = faults + 1

Arrive(id, time) ==
    /\ id \notin arrived
    /\ arrived' = arrived \cup {id} /\ stored' = stored \cup {<<time, id>>}
    /\ UNCHANGED <<tailVars, collectVars, faults>>

Expire ==
    /\ stored # {} /\ Fault
    /\ stored' = {e \in stored : \E x \in stored : Less(x, e)}
    /\ UNCHANGED <<arrived, tailVars, collectVars>>

----------------------------------------------------------------------------

\* Mutant: a large seen-set is emptied.
pruneSeenAll(ids, recent) == IF Cardinality(ids) <= MaxSeen THEN ids ELSE {}

\* A large seen-set keeps the ids of the most recent page.
pruneSeen(ids, recent) == IF Cardinality(ids) <= MaxSeen THEN ids ELSE ids \cap recent

Reverse(s) == [i \in DOMAIN s |-> s[Len(s) + 1 - i]]

\* Events not seen before, oldest first.
poll ==
    LET page == Reverse(ListEvents(PageSize, None).events)
        ids == {page[i][2] : i \in DOMAIN page}
    IN  /\ printed' = printed \o SelectSeq(page, LAMBDA e : e[2] \notin seen)
        /\ seen' = pruneSeen(seen \cup ids, ids)
        /\ shown' = ids

isTransientError(code) == code \in {"unavailable", "deadline_exceeded", "resource_exhausted"}

\* A transient error waits for the next tick, another one ends the tail, and
\* so does the interrupt.
pollOnce ==
    /\ tail = "running"
    /\ \/ poll /\ UNCHANGED <<tail, faults>>
       \/ /\ Fault /\ UNCHANGED <<seen, printed, shown>>
          /\ \E code \in {"unavailable", "permission_denied", "interrupted"} :
                tail' = IF isTransientError(code) THEN "running" ELSE code
    /\ UNCHANGED <<stored, arrived, collectVars>>

----------------------------------------------------------------------------

StartCollect ==
    /\ collector = "idle"
    /\ collector' = "paging" /\ had' = stored
    /\ UNCHANGED <<stored, arrived, tailVars, bits, cursor, faults>>

pageSize == IF MaxEvents - Len(bits) < ServerPage THEN MaxEvents - Len(bits) ELSE ServerPage

\* One page; the loop ends at the maximum or after the last page.
collectRiskBits ==
    /\ collector = "paging"
    /\ LET page == ListEvents(pageSize, cursor)
           n == Len(page.events)
       IN  \/ Fault /\ collector' = "failed" /\ UNCHANGED <<bits, cursor>>
           \/ /\ bits' = bits \o page.events
              /\ cursor' = IF page.more THEN page.events[n] ELSE None
              /\ collector' = IF ~page.more \/ n = 0 \/ Len(bits') >= MaxEvents THEN "done" ELSE "paging"
              /\ UNCHANGED faults
    /\ UNCHANGED <<stored, arrived, tailVars, had>>

Next ==
    \/ \E id \in Ids, time \in Times : Arrive(id, time)
    \/ Expire \/ pollOnce \/ StartCollect \/ collectRiskBits

Spec == Init /\ [][Next]_vars

----------------------------------------------------------------------------

\* tail "emits only events not seen before" (events.go), with the seen-set cut
\* down to the last page: no event is printed twice, and a poll leaves no
\* event of its page unprinted.
PrintedOnce ==
    /\ \A i, j \in DOMAIN printed : printed[i][2] = printed[j][2] => i = j
    /\ shown \subseteq {printed[i][2] : i \in DOMAIN printed}

\* The replay is "bounded by maxEvents" (policy.go) and takes no event twice,
\* while events arrive and expire between pages; one that ended below the
\* maximum has every event that was there all along.
ReplayExact ==
    /\ Len(bits) <= MaxEvents
    /\ \A i, j \in DOMAIN bits : bits[i] = bits[j] => i = j
    /\ collector = "done" /\ Len(bits) < MaxEvents =>
            had \cap stored \subseteq {bits[i] : i \in DOMAIN bits}
=============================================================================
