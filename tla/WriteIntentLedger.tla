--------------------------- MODULE WriteIntentLedger ---------------------------
(***************************************************************************)
(* What runtime/idempotency.ts promises its callers: one shared table that *)
(* remembers every write intent ever admitted, and admits each fingerprint *)
(* to execution at most once.  No lock file, no journal, no snapshot, no   *)
(* process: those belong to IdempotencyLedger, which implements this.      *)
(***************************************************************************)
CONSTANT Fingerprints

VARIABLES
    entries,  \* fingerprint -> status of its ledger entry
    claims    \* fingerprint -> how many callers were told "claimed"

Kinds == {"pending", "executed", "ambiguous"}
Statuses == Kinds \cup {"none"}

aVars == <<entries, claims>>

AInit ==
    /\ entries = [f \in Fingerprints |-> "none"]
    /\ claims = [f \in Fingerprints |-> 0]

\* A claim becomes durable.  Its caller has not been told yet, and never will
\* be if it dies first: the entry then stays pending with no grant.
ARecord(f) ==
    /\ entries[f] = "none"
    /\ entries' = [entries EXCEPT ![f] = "pending"]
    /\ UNCHANGED claims

\* The caller whose claim was recorded is told "claimed" and may submit.
AGrant(f) ==
    /\ entries[f] # "none"
    /\ claims[f] = 0
    /\ claims' = [claims EXCEPT ![f] = 1]
    /\ UNCHANGED entries

\* The outcome of an admitted intent is recorded; an entry is never dropped.
AMark(f, kind) ==
    /\ entries[f] # "none"
    /\ entries' = [entries EXCEPT ![f] = kind]
    /\ UNCHANGED claims

ANext ==
    \E f \in Fingerprints :
        \/ ARecord(f)
        \/ AGrant(f)
        \/ \E kind \in {"executed", "ambiguous"} : AMark(f, kind)

ASpec == AInit /\ [][ANext]_aVars
================================================================================
