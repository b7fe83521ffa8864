----------------------------- MODULE LedgerReplay -----------------------------
(***************************************************************************)
(* The pure part of runtime/idempotency.ts: what one journal event, and a  *)
(* whole journal over a snapshot, make of a ledger.                        *)
(***************************************************************************)
EXTENDS Naturals, Sequences

CONSTANT Fingerprints   \* sha256 digests of write intents

Kinds == {"pending", "executed", "ambiguous"}
Statuses == Kinds \cup {"none"}
Ledger == [Fingerprints -> Statuses]
Event == [kind : Kinds, fp : Fingerprints]
EmptyLedger == [f \in Fingerprints |-> "none"]

\* Mutant: ambiguous outcomes are journalled but not applied in memory.
ApplyEventMutant(ledger, e) ==
    IF e.kind = "pending" \/ (e.kind = "executed" /\ ledger[e.fp] # "none")
    THEN [ledger EXCEPT ![e.fp] = e.kind]
    ELSE ledger

ApplyEvent(ledger, e) ==
    IF e.kind = "pending" \/ ledger[e.fp] # "none"
    THEN [ledger EXCEPT ![e.fp] = e.kind]
    ELSE ledger

\* The kind of the last event about f: one element, none if there is no event.
LastKind(events, f) ==
    {k \in Kinds : \E i \in DOMAIN events :
        /\ events[i].fp = f
        /\ events[i].kind = k
        /\ \A j \in DOMAIN events : events[j].fp = f => j <= i}

IsKnown(base, events, f) ==
    \/ base[f] # "none"
    \/ \E i \in DOMAIN events : events[i].fp = f /\ events[i].kind = "pending"

\* Mutant: an outcome of an unknown fingerprint makes an entry.
ReplayMutant(base, events) ==
    [f \in Fingerprints |->
        IF LastKind(events, f) # {}
        THEN CHOOSE k \in Kinds : k \in LastKind(events, f)
        ELSE base[f]]

\* Folding ApplyEvent over the journal, in closed form (MCAlgorithms checks
\* that it is that fold).
Replay(base, events) ==
    [f \in Fingerprints |->
        IF IsKnown(base, events, f) /\ LastKind(events, f) # {}
        THEN CHOOSE k \in Kinds : k \in LastKind(events, f)
        ELSE base[f]]
================================================================================
