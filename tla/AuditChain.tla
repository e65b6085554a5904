----------------------------- MODULE AuditChain -----------------------------
(***************************************************************************)
(* The hash chain of a tenant's audit events.  An entry is the record      *)
(* [action, resource, actor, meta]; SHA-256 over the length-prefixed       *)
(* preimage is modelled as the preimage itself, which is injective.        *)
(***************************************************************************)
EXTENDS Integers, Sequences

CONSTANT NoId

NoHash == <<>>

hashAuditEvent(tenant, seq, entry, at, prev) == <<tenant, seq, entry, at, prev>>

Event(tenant, seq, entry, at, prev) ==
    [tenant |-> tenant, seq |-> seq, entry |-> entry, at |-> at, prev |-> prev,
     hash |-> hashAuditEvent(tenant, seq, entry, at, prev)]

validateEntry(entry) == entry.action # NoId

\* 0 or a negative bound of the time range leaves it open.
matchAuditFilter(ev, action, from, to) ==
    /\ action \in {NoId, ev.entry.action}
    /\ from > 0 => ev.at >= from
    /\ to > 0 => ev.at <= to

\* The events that verify, counted from the first; the next one is broken.
recompute(tenant, events) ==
    LET Link(i) == /\ events[i].seq = i
                   /\ events[i].prev = IF i = 1 THEN NoHash ELSE events[i - 1].hash
                   /\ events[i].hash = hashAuditEvent(tenant, events[i].seq, events[i].entry, events[i].at,
                                                      events[i].prev)
        Good(n) == \A i \in 1..n : Link(i)
        verified == CHOOSE n \in 0..Len(events) : Good(n) /\ (n < Len(events) => ~Link(n + 1))
    IN  [intact |-> verified = Len(events), count |-> verified,
         broken |-> IF verified = Len(events) THEN 0 ELSE events[verified + 1].seq,
         head |-> IF verified = 0 THEN NoHash ELSE events[verified].hash]
=============================================================================
