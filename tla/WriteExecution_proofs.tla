------------------------- MODULE WriteExecution_proofs -------------------------
(***************************************************************************)
(* Proofs about WriteExecution, for any bundle, any number of processes    *)
(* and any exchange: no write is submitted twice, no leg goes out on top   *)
(* of an unsettled one, and every order is in the ledger.                  *)
(*                                                                         *)
(* The inductive invariant says, per write, that requests never outnumber  *)
(* grants nor grants one, and, per process, what its place in the loop     *)
(* tells of the write it is at: claimed and not yet granted, granted and   *)
(* not yet sent, or answered; and that everything it has passed is         *)
(* settled.                                                                *)
(***************************************************************************)
EXTENDS WriteExecution, SequenceTheorems, TLAPS

Looping == {"gate", "step", "claimed", "send", "sent", "markExecuted", "markAmbiguous"}

\* The part of TypeOK the argument needs.
TypeInv ==
    /\ entries \in [Fingerprints -> Statuses]
    /\ claims \in [Fingerprints -> Nat]
    /\ inflight \subseteq Fingerprints /\ orders \subseteq Fingerprints
    /\ sent \in [Fingerprints -> Nat]
    /\ settled \subseteq Fingerprints
    /\ pc \in [Procs -> Stages]
    /\ cmd \in [Procs -> Commands \cup {NoCmd}]
    /\ work \in [Procs -> SUBSET Intents]

WriteOK(f) ==
    /\ claims[f] <= 1
    /\ sent[f] <= claims[f]
    /\ entries[f] = "none" => claims[f] = 0
    /\ f \in inflight \cup orders => claims[f] = 1
    /\ entries[f] = "executed" => f \in settled

\* Only an apply claims, sends under a claim and marks.
RoleOK(p) ==
    /\ pc[p] \in Looping \ {"step", "sent"} => cmd[p].kind = "apply"
    /\ pc[p] \in {"step", "sent"} /\ cmd[p].kind # "apply" => work[p] \subseteq Reads

\* An apply that goes on has only settled writes behind it.
PassedOK(p) ==
    pc[p] \in Looping /\ cmd[p].kind = "apply" /\ work[p] # {} =>
        \A f \in Fingerprints \ work[p] : f \in settled

HeadOK(p, f) ==
    Current(p, f) =>
        /\ pc[p] = "claimed" => entries[f] # "none" /\ claims[f] = 0
        /\ pc[p] = "send" => claims[f] = 1 /\ sent[f] = 0
        /\ pc[p] = "markExecuted" => f \in settled

Unique ==
    \A p, q \in Procs : \A f \in Fingerprints :
        /\ pc[p] \in {"claimed", "send"} /\ Current(p, f)
        /\ pc[q] \in {"claimed", "send"} /\ Current(q, f)
        => p = q

Inv ==
    /\ TypeInv
    /\ \A f \in Fingerprints : WriteOK(f)
    /\ \A p \in Procs : RoleOK(p) /\ PassedOK(p)
    /\ \A p \in Procs : \A f \in Fingerprints : HeadOK(p, f)
    /\ Unique
    /\ LegsInOrder

LEMMA InitInv == Init => Inv
<1> SUFFICES ASSUME Init PROVE Inv
  OBVIOUS
<1> USE DEF Init, AInit
<1>1. TypeInv
  BY DEF TypeInv, Stages, Statuses, Kinds, Intents
<1>2. \A f \in Fingerprints : WriteOK(f)
  <2> SUFFICES ASSUME NEW f \in Fingerprints PROVE WriteOK(f)
    OBVIOUS
  <2>1. entries[f] = "none" /\ claims[f] = 0 /\ sent[f] = 0 /\ inflight = {} /\ orders = {}
    OBVIOUS
  <2> QED
    BY ONLY <2>1 DEF WriteOK
<1>3. \A p \in Procs : RoleOK(p) /\ PassedOK(p)
  BY DEF RoleOK, PassedOK, Looping
<1>4. \A p \in Procs : \A f \in Fingerprints : HeadOK(p, f)
  BY DEF HeadOK
<1>5. Unique
  BY DEF Unique
<1>6. LegsInOrder
  BY DEF LegsInOrder
<1> QED
  BY <1>1, <1>2, <1>3, <1>4, <1>5, <1>6 DEF Inv

-----------------------------------------------------------------------------
(* Steps that send nothing and claim nothing.                              *)

Others(p) ==
    \A q \in Procs \ {p} : pc'[q] = pc[q] /\ cmd'[q] = cmd[q] /\ work'[q] = work[q]

\* Entries may get another status, but none comes or goes, and what becomes
\* executed is settled.
Recorded ==
    \A f \in Fingerprints :
        /\ entries[f] = "none" <=> entries'[f] = "none"
        /\ entries'[f] = "executed" => f \in settled'

\* Such a step of p keeps the invariant when p ends up where it may be.
LEMMA Quiet ==
    ASSUME Inv, NEW p \in Procs, TypeInv', Others(p), Recorded,
           settled \subseteq settled', UNCHANGED <<claims, sent>>,
           inflight' \cup orders' \subseteq inflight \cup orders,
           pc'[p] \notin {"claimed", "send"},
           pc'[p] = "markExecuted" =>
               \A f \in Fingerprints : Current(p, f)' => f \in settled',
           RoleOK(p)', PassedOK(p)'
    PROVE  Inv'
<1>1. \A f \in Fingerprints : WriteOK(f)'
  BY DEF Inv, WriteOK, Recorded
<1>2. \A q \in Procs : RoleOK(q)' /\ PassedOK(q)'
  BY DEF Inv, RoleOK, PassedOK, Others
<1>3. \A q \in Procs : \A f \in Fingerprints : HeadOK(q, f)'
  <2> SUFFICES ASSUME NEW q \in Procs, NEW f \in Fingerprints PROVE HeadOK(q, f)'
    OBVIOUS
  <2>1. CASE q = p
    BY <2>1 DEF HeadOK
  <2>2. CASE q # p
    BY <2>2 DEF Inv, HeadOK, Others, Recorded, Current
  <2> QED
    BY <2>1, <2>2
<1>4. Unique'
  BY DEF Inv, Unique, Others, Current
<1>5. LegsInOrder'
  BY DEF Inv, LegsInOrder
<1> QED
  BY <1>1, <1>2, <1>3, <1>4, <1>5 DEF Inv

\* The same for steps that do not touch the ledger and the exchange either.
LEMMA Local ==
    ASSUME Inv, NEW p \in Procs, Others(p),
           UNCHANGED <<ledgerVars, exchangeVars>>,
           pc' \in [Procs -> Stages], cmd' \in [Procs -> Commands \cup {NoCmd}],
           work' \in [Procs -> SUBSET Intents],
           pc'[p] \notin {"claimed", "send", "markExecuted"},
           RoleOK(p)', PassedOK(p)'
    PROVE  Inv'
<1>1. TypeInv'
  BY DEF Inv, TypeInv, ledgerVars, exchangeVars
<1>2. Recorded
  BY DEF Inv, WriteOK, Recorded, ledgerVars
<1> QED
  BY <1>1, <1>2, Quiet DEF ledgerVars, exchangeVars

-----------------------------------------------------------------------------
(* Commands begin and end.                                                 *)

LEMMA StartInv ==
    ASSUME Inv, NEW p \in Procs, Apply(p) \/ Preview(p) \/ Retry(p) \/ Reconcile(p)
    PROVE  Inv'
<1> USE DEF Inv, TypeInv, Start, Goto, Others, Stages
<1>1. CASE Apply(p)
  <2>1. PICK v \in Verifies : Start(p, [kind |-> "apply", verify |-> v], Intents)
    BY <1>1 DEF Apply
  <2>2. RoleOK(p)' /\ PassedOK(p)'
    BY <1>1, <2>1 DEF Apply, RoleOK, PassedOK, Intents, Looping
  <2> QED
    BY <1>1, <2>1, <2>2, Local DEF Apply, Commands
<1>2. CASE Retry(p)
  <2>1. Retryable(record.executions) \subseteq Reads
    BY DEF Retryable
  <2>2. RoleOK(p)' /\ PassedOK(p)'
    BY <1>2, <2>1 DEF Retry, RoleOK, PassedOK, Looping
  <2> QED
    BY <1>2, <2>1, <2>2, Local DEF Retry, Commands, Intents
<1>3. CASE Reconcile(p)
  <2>1. PICK s \in Sources :
            Start(p, [kind |-> "reconcile", source |-> s], ReceiptsOf(Latest(record.executions)))
    BY <1>3 DEF Reconcile
  <2>2. RoleOK(p)' /\ PassedOK(p)'
    BY <1>3, <2>1 DEF Reconcile, RoleOK, PassedOK, Looping
  <2> QED
    BY <1>3, <2>1, <2>2, Local DEF Reconcile, Commands, Intents, ReceiptsOf
<1>4. CASE Preview(p)
  <2>1. PICK kind \in {"dry-run", "replay"} : Start(p, [kind |-> kind], {})
    BY <1>4, ExchangeAssumption DEF Preview
  <2>2. RoleOK(p)' /\ PassedOK(p)'
    BY <1>4, <2>1 DEF Preview, RoleOK, PassedOK, Looping
  <2> QED
    BY <1>4, <2>1, <2>2, Local DEF Preview, Commands
<1> QED
  BY <1>1, <1>2, <1>3, <1>4

LEMMA LeaveInv ==
    ASSUME Inv, NEW p \in Procs, Abandon(p) \/ Save(p)
    PROVE  Inv'
<1>1. Leave(p) /\ UNCHANGED <<ledgerVars, exchangeVars>>
  BY DEF Abandon, Save
<1>2. /\ pc' = [pc EXCEPT ![p] = "idle"]
      /\ cmd' = [cmd EXCEPT ![p] = NoCmd]
      /\ work' = [work EXCEPT ![p] = {}]
  BY <1>1 DEF Leave, Goto
<1>3. RoleOK(p)' /\ PassedOK(p)' /\ Others(p)
  BY <1>2 DEF Inv, TypeInv, RoleOK, PassedOK, Looping, Others
<1> QED
  BY <1>1, <1>2, <1>3, Local DEF Inv, TypeInv, Stages

-----------------------------------------------------------------------------
(* The apply loop.                                                         *)

\* The end of the loop leaves nothing to pass.
LEMMA AbortInv ==
    ASSUME Inv, NEW p \in Procs, NEW x \in Intents, NEW outcome, Abort(p, x, outcome),
           UNCHANGED <<cmd, inflight, orders, sent, claims>>, TypeInv', Recorded,
           settled \subseteq settled'
    PROVE  Inv'
<1>1. /\ pc' = [pc EXCEPT ![p] = "step"] /\ work' = [work EXCEPT ![p] = {}]
  BY DEF Abort, Goto
<1>2. RoleOK(p)' /\ PassedOK(p)' /\ Others(p)
  BY <1>1 DEF Inv, TypeInv, RoleOK, PassedOK, Others
<1>3. pc'[p] = "step"
  BY <1>1 DEF Inv, TypeInv
<1> QED
  BY <1>2, <1>3, Quiet

\* Nothing recorded, nothing settled: the trivial case of Recorded.
LEMMA Unrecorded ==
    ASSUME Inv, UNCHANGED <<entries, claims, settled>>
    PROVE  Recorded
  BY DEF Inv, WriteOK, Recorded

LEMMA GateInv ==
    ASSUME Inv, NEW p \in Procs, GatePasses(p) \/ GateBlocks(p)
    PROVE  Inv'
<1>1. CASE GatePasses(p)
  <2>1. pc' = [pc EXCEPT ![p] = "step"] /\ UNCHANGED <<cmd, work, settled>>
    BY <1>1 DEF GatePasses, Goto, ledgerVars
  <2>2. RoleOK(p)' /\ PassedOK(p)' /\ Others(p)
    BY <1>1, <2>1 DEF GatePasses, Inv, TypeInv, RoleOK, PassedOK, Looping, Others
  <2> QED
    BY <1>1, <2>1, <2>2, Local DEF GatePasses, Inv, TypeInv, Stages
<1>2. CASE GateBlocks(p)
  <2>1. PICK x \in work[p] : Abort(p, x, "skipped")
    BY <1>2 DEF GateBlocks
  <2>2. x \in Intents /\ UNCHANGED <<cmd, ledgerVars, exchangeVars>>
    BY <1>2 DEF GateBlocks, Inv, TypeInv
  <2>3. TypeInv'
    BY <2>1, <2>2 DEF Inv, TypeInv, Abort, Goto, Stages, ledgerVars, exchangeVars
  <2> QED
    BY <2>1, <2>2, <2>3, AbortInv, Unrecorded DEF ledgerVars, exchangeVars
<1> QED
  BY <1>1, <1>2

LEMMA ClaimRecordedInv ==
    ASSUME Inv, NEW p \in Procs, NEW f \in Fingerprints, ClaimRecorded(p, f)
    PROVE  Inv'
<1> USE DEF ClaimRecorded, Claiming, ARecord, Goto, exchangeVars
<1>1. /\ pc[p] = "step" /\ cmd[p].kind = "apply" /\ entries[f] = "none"
      /\ entries' = [entries EXCEPT ![f] = "pending"]
      /\ pc' = [pc EXCEPT ![p] = "claimed"]
      /\ UNCHANGED <<claims, settled, inflight, orders, sent, cmd, work>>
      /\ Current(p, f)
  OBVIOUS
<1> HIDE DEF ClaimRecorded, Claiming, ARecord, Goto, exchangeVars
<1>2. TypeInv'
  BY <1>1 DEF Inv, TypeInv, Stages, Statuses, Kinds
<1>3. \A g \in Fingerprints : WriteOK(g)'
  BY <1>1 DEF Inv, TypeInv, WriteOK
<1>4. \A q \in Procs : RoleOK(q)' /\ PassedOK(q)'
  BY <1>1 DEF Inv, TypeInv, RoleOK, PassedOK, Looping
<1>5. claims[f] = 0
  BY <1>1 DEF Inv, WriteOK
<1>6. \A q \in Procs : \A g \in Fingerprints : HeadOK(q, g)'
  <2> SUFFICES ASSUME NEW q \in Procs, NEW g \in Fingerprints, Current(q, g)'
               PROVE  HeadOK(q, g)'
    BY DEF HeadOK
  <2>1. Current(q, g)
    BY <1>1 DEF Current
  <2>2. CASE q = p
    <3>1. g = f
      BY <1>1, <2>1, <2>2, BundleAssumption DEF Current, Intents
    <3> QED
      BY <1>1, <1>5, <2>2, <3>1 DEF HeadOK, Inv, TypeInv
  <2>3. CASE q # p
    BY <1>1, <2>1, <2>3 DEF HeadOK, Inv, TypeInv
  <2> QED
    BY <2>2, <2>3
<1>7. Unique'
  \* Whoever is at f with a claim has seen its entry.
  <2>1. \A q \in Procs : ~(pc[q] \in {"claimed", "send"} /\ Current(q, f))
    BY <1>1, <1>5 DEF Inv, HeadOK
  <2>2. \A g \in Fingerprints : Current(p, g) => g = f
    BY <1>1, BundleAssumption DEF Current, Intents
  <2> QED
    BY <1>1, <2>1, <2>2 DEF Inv, TypeInv, Unique, Current
<1>8. LegsInOrder'
  BY <1>1 DEF Inv, LegsInOrder
<1> QED
  BY <1>2, <1>3, <1>4, <1>6, <1>7, <1>8 DEF Inv

LEMMA ClaimGrantedInv ==
    ASSUME Inv, NEW p \in Procs, NEW f \in Fingerprints, ClaimGranted(p, f)
    PROVE  Inv'
<1> USE DEF ClaimGranted, AGrant, Goto, exchangeVars
<1>1. /\ pc[p] = "claimed" /\ entries[f] # "none" /\ claims[f] = 0
      /\ claims' = [claims EXCEPT ![f] = 1]
      /\ pc' = [pc EXCEPT ![p] = "send"]
      /\ UNCHANGED <<entries, settled, inflight, orders, sent, cmd, work>>
      /\ Current(p, f)
  OBVIOUS
<1> HIDE DEF ClaimGranted, AGrant, Goto, exchangeVars
<1>2. TypeInv'
  BY <1>1 DEF Inv, TypeInv, Stages
<1>3. \A g \in Fingerprints : WriteOK(g)'
  BY <1>1 DEF Inv, TypeInv, WriteOK
<1>4. \A q \in Procs : RoleOK(q)' /\ PassedOK(q)'
  BY <1>1 DEF Inv, TypeInv, RoleOK, PassedOK, Looping
<1>5. \A g \in Fingerprints : Current(p, g) => g = f
  BY <1>1, BundleAssumption DEF Current, Intents
<1>6. \A q \in Procs : pc[q] \in {"claimed", "send"} /\ Current(q, f) => q = p
  BY <1>1 DEF Inv, Unique
<1>7. sent[f] = 0
  BY <1>1 DEF Inv, TypeInv, WriteOK
<1>8. \A q \in Procs : \A g \in Fingerprints : HeadOK(q, g)'
  <2> SUFFICES ASSUME NEW q \in Procs, NEW g \in Fingerprints, Current(q, g)'
               PROVE  HeadOK(q, g)'
    BY DEF HeadOK
  <2>1. Current(q, g)
    BY <1>1 DEF Current
  <2>2. CASE q = p
    BY <1>1, <1>5, <1>7, <2>1, <2>2 DEF HeadOK, Inv, TypeInv
  <2>3. CASE q # p
    <3>1. pc[q] \in {"claimed", "send"} => g # f
      BY <1>6, <2>1, <2>3
    <3> QED
      BY <1>1, <2>1, <2>3, <3>1 DEF HeadOK, Inv, TypeInv
  <2> QED
    BY <2>2, <2>3
<1>9. Unique'
  BY <1>1, <1>5, <1>6 DEF Inv, TypeInv, Unique, Current
<1>10. LegsInOrder'
  BY <1>1 DEF Inv, LegsInOrder
<1> QED
  BY <1>2, <1>3, <1>4, <1>8, <1>9, <1>10 DEF Inv

\* A loop that goes on past x, settled if it is a write of an apply.
LEMMA AdvanceInv ==
    ASSUME Inv, NEW p \in Procs, NEW x \in Intents, NEW outcome, Advance(p, x, outcome),
           UNCHANGED <<cmd, inflight, orders, sent, claims>>, TypeInv', Recorded,
           settled \subseteq settled',
           pc[p] \in Looping, x \in work[p],
           cmd[p].kind = "apply" => x \in Reads \cup settled',
           cmd[p].kind # "apply" => work[p] \subseteq Reads
    PROVE  Inv'
<1>1. /\ pc' = [pc EXCEPT ![p] = "step"] /\ work' = [work EXCEPT ![p] = @ \ {x}]
  BY DEF Advance, Goto
<1>2. pc'[p] = "step" /\ work'[p] = work[p] \ {x}
  BY <1>1 DEF Inv, TypeInv
<1>3. RoleOK(p)'
  BY <1>2 DEF RoleOK
<1>4. PassedOK(p)'
  BY <1>2, BundleAssumption DEF PassedOK, Looping, Inv
<1>5. Others(p)
  BY <1>1 DEF Inv, TypeInv, Others
<1> QED
  BY <1>2, <1>3, <1>4, <1>5, Quiet

LEMMA ClaimAnsweredInv ==
    ASSUME Inv, NEW p \in Procs, NEW f \in Fingerprints, ClaimHit(p, f) \/ ClaimRefused(p, f)
    PROVE  Inv'
<1>1. /\ pc[p] = "step" /\ cmd[p].kind = "apply" /\ f \in work[p] /\ f \in Intents
      /\ UNCHANGED <<entries, claims, settled, inflight, orders, sent, cmd>>
  BY DEF ClaimHit, ClaimRefused, Claiming, Current, Intents, ledgerVars, exchangeVars
<1>2. Recorded
  BY <1>1, Unrecorded
<1>3. CASE ClaimHit(p, f)
  <2>1. entries[f] = "executed" /\ Advance(p, f, "hit")
    BY <1>3 DEF ClaimHit
  <2>2. f \in settled
    BY <2>1 DEF Inv, WriteOK
  <2>3. TypeInv'
    BY <1>1, <2>1 DEF Inv, TypeInv, Advance, Goto, Stages
  <2> QED
    BY <1>1, <1>2, <2>1, <2>2, <2>3, AdvanceInv DEF Looping
<1>4. CASE ClaimRefused(p, f)
  <2>1. Abort(p, f, "skipped")
    BY <1>4 DEF ClaimRefused
  <2>2. TypeInv'
    BY <1>1, <2>1 DEF Inv, TypeInv, Abort, Goto, Stages
  <2> QED
    BY <1>1, <1>2, <2>1, <2>2, AbortInv
<1> QED
  BY <1>3, <1>4

LEMMA SendInv ==
    ASSUME Inv, NEW p \in Procs, NEW x \in Intents, Send(p, x)
    PROVE  Inv'
<1>1. /\ Current(p, x) /\ x \in work[p]
      /\ pc[p] = "send" \/ (pc[p] = "step" /\ (cmd[p].kind = "apply" => x \in Reads))
      /\ sent' = IF x \in Fingerprints THEN [sent EXCEPT ![x] = @ + 1] ELSE sent
      /\ inflight' = inflight \cup ({x} \cap Fingerprints \cap Routed)
      /\ pc' = [pc EXCEPT ![p] = "sent"]
      /\ UNCHANGED <<entries, claims, settled, orders, cmd, work>>
  BY DEF Send, Current, Goto, ledgerVars
\* A write goes out only under a grant that was not used before.
<1>2. x \in Fingerprints =>
          pc[p] = "send" /\ cmd[p].kind = "apply" /\ claims[x] = 1 /\ sent[x] = 0
  <2> SUFFICES ASSUME x \in Fingerprints
               PROVE  pc[p] = "send" /\ cmd[p].kind = "apply" /\ claims[x] = 1 /\ sent[x] = 0
    OBVIOUS
  <2>1. x \notin Reads
    BY BundleAssumption
  <2>2. pc[p] = "send"
    BY <1>1, <2>1 DEF Inv, RoleOK
  <2> QED
    BY <1>1, <2>2 DEF Inv, RoleOK, HeadOK, Looping
<1>3. TypeInv'
  BY <1>1 DEF Inv, TypeInv, Stages
<1>4. \A g \in Fingerprints : WriteOK(g)'
  BY <1>1, <1>2 DEF Inv, TypeInv, WriteOK
<1>5. \A q \in Procs : RoleOK(q)' /\ PassedOK(q)'
  BY <1>1 DEF Inv, TypeInv, RoleOK, PassedOK, Looping
<1>6. \A q \in Procs : \A g \in Fingerprints : HeadOK(q, g)'
  <2> SUFFICES ASSUME NEW q \in Procs, NEW g \in Fingerprints, Current(q, g)'
               PROVE  HeadOK(q, g)'
    BY DEF HeadOK
  <2>1. Current(q, g)
    BY <1>1 DEF Current
  <2>2. CASE q = p
    BY <1>1, <2>2 DEF HeadOK, Inv, TypeInv
  <2>3. CASE q # p
    <3>1. pc[q] = "send" => g # x
      BY <1>1, <1>2, <2>1, <2>3 DEF Inv, Unique
    <3>2. pc'[q] = pc[q] /\ (pc[q] = "send" => sent'[g] = sent[g])
      BY <1>1, <2>3, <3>1 DEF Inv, TypeInv
    <3> QED
      BY <1>1, <2>1, <3>2 DEF HeadOK, Inv
  <2> QED
    BY <2>2, <2>3
<1>7. Unique'
  BY <1>1 DEF Inv, TypeInv, Unique, Current
<1>8. LegsInOrder'
  <2> SUFFICES ASSUME NEW f \in Fingerprints, NEW g \in Fingerprints,
                      Position[f] < Position[g], sent'[g] > 0
               PROVE  f \in settled'
    BY DEF LegsInOrder
  <2>1. CASE g = x
    <3>1. f \notin work[p]
      BY <1>1, <2>1, BundleAssumption DEF Current, Intents
    <3> QED
      BY <1>1, <1>2, <2>1, <3>1 DEF Inv, PassedOK, Looping
  <2>2. CASE g # x
    BY <1>1, <2>2 DEF Inv, TypeInv, LegsInOrder
  <2> QED
    BY <2>1, <2>2
<1> QED
  BY <1>3, <1>4, <1>5, <1>6, <1>7, <1>8 DEF Inv

LEMMA RespondInv ==
    ASSUME Inv, Respond
    PROVE  Inv'
<1>1. PICK f \in Fingerprints : ExchangeAccepts(f) \/ ExchangeRejects(f)
  BY DEF Respond
<1>2. /\ UNCHANGED <<entries, claims, settled, sent, pc, cmd, work>>
      /\ inflight' \cup orders' \subseteq inflight \cup orders
  BY <1>1 DEF ExchangeAccepts, ExchangeRejects, ledgerVars, procVars
<1>3. TypeInv'
  BY <1>2 DEF Inv, TypeInv
<1>4. \A g \in Fingerprints : WriteOK(g)'
  BY <1>2 DEF Inv, WriteOK
<1>5. \A q \in Procs : RoleOK(q)' /\ PassedOK(q)'
  BY <1>2 DEF Inv, RoleOK, PassedOK
<1>6. \A q \in Procs : \A g \in Fingerprints : HeadOK(q, g)'
  BY <1>2 DEF Inv, HeadOK, Current
<1>7. Unique' /\ LegsInOrder'
  BY <1>2 DEF Inv, Unique, LegsInOrder, Current
<1> QED
  BY <1>3, <1>4, <1>5, <1>6, <1>7 DEF Inv

LEMMA SucceedsInv ==
    ASSUME Inv, NEW p \in Procs, NEW x \in Intents, Succeeds(p, x)
    PROVE  Inv'
<1>1. /\ pc[p] = "sent" /\ x \in work[p]
      /\ settled' = settled \cup ({x} \cap Fingerprints)
      /\ UNCHANGED <<entries, claims, inflight, orders, sent, cmd>>
  BY DEF Succeeds, Current, exchangeVars
<1>2. Recorded
  BY <1>1 DEF Recorded, Inv, WriteOK
<1>3. CASE Finalizes(p, x) /\ ~cmd[p].verify
  <2>1. /\ pc' = [pc EXCEPT ![p] = "markExecuted"] /\ UNCHANGED work
        /\ x \in Fingerprints /\ cmd[p].kind = "apply" /\ Current(p, x)
    BY <1>3 DEF Succeeds, Goto, Finalizes
  <2>2. TypeInv'
    BY <1>1, <2>1 DEF Inv, TypeInv, Stages
  <2>3. RoleOK(p)' /\ PassedOK(p)' /\ Others(p)
    BY <1>1, <2>1 DEF Inv, TypeInv, RoleOK, PassedOK, Looping, Others
  <2>4. \A f \in Fingerprints : Current(p, f)' => f \in settled'
    BY <1>1, <2>1, BundleAssumption DEF Current, Intents
  <2>5. pc'[p] = "markExecuted"
    BY <2>1 DEF Inv, TypeInv
  <2> QED
    BY <1>1, <1>2, <2>2, <2>3, <2>4, <2>5, Quiet
<1>4. CASE ~(Finalizes(p, x) /\ ~cmd[p].verify)
  <2>1. Advance(p, x, IF tries[p] = 1 THEN "ok" ELSE "recovered")
    BY <1>4 DEF Succeeds
  <2>2. TypeInv'
    BY <1>1, <2>1 DEF Inv, TypeInv, Advance, Goto, Stages
  <2>3. x \in Reads \cup settled'
    BY <1>1 DEF Intents
  <2>4. cmd[p].kind # "apply" => work[p] \subseteq Reads
    BY <1>1 DEF Inv, RoleOK
  <2> QED
    BY <1>1, <1>2, <2>1, <2>2, <2>3, <2>4, AdvanceInv DEF Looping
<1> QED
  BY <1>3, <1>4

LEMMA FailsInv ==
    ASSUME Inv, NEW p \in Procs, NEW x \in Intents, FailsRetryable(p, x) \/ Fails(p, x)
    PROVE  Inv'
<1>1. /\ pc[p] = "sent"
      /\ UNCHANGED <<entries, claims, settled, inflight, orders, sent, cmd>>
  BY DEF FailsRetryable, Fails, ledgerVars, exchangeVars
<1>2. CASE Fails(p, x) /\ ~Finalizes(p, x)
  <2>1. Abort(p, x, "failed")
    BY <1>2 DEF Fails
  <2>2. TypeInv'
    BY <1>1, <2>1 DEF Inv, TypeInv, Abort, Goto, Stages
  <2> QED
    BY <1>1, <2>1, <2>2, AbortInv, Unrecorded
<1>3. CASE FailsRetryable(p, x) \/ (Fails(p, x) /\ Finalizes(p, x))
  <2>1. PICK stage \in {"step", "markAmbiguous"} :
            /\ pc' = [pc EXCEPT ![p] = stage] /\ UNCHANGED work
            /\ stage = "markAmbiguous" => cmd[p].kind = "apply"
    BY <1>3 DEF FailsRetryable, Fails, Finalizes, Goto
  <2>2. RoleOK(p)' /\ PassedOK(p)' /\ Others(p)
    BY <1>1, <2>1 DEF Inv, TypeInv, RoleOK, PassedOK, Looping, Others
  <2>3. pc'[p] = stage
    BY <2>1 DEF Inv, TypeInv
  <2> QED
    BY <1>1, <2>1, <2>2, <2>3, Local
       DEF Inv, TypeInv, Stages, ledgerVars, exchangeVars
<1> QED
  BY <1>2, <1>3

LEMMA RecordOutcomeFacts ==
    ASSUME Inv, NEW f \in Fingerprints, NEW kind \in {"executed", "ambiguous"},
           RecordOutcome(f, kind)
    PROVE  /\ Recorded
           /\ UNCHANGED claims
           /\ settled \subseteq settled' /\ settled' \subseteq Fingerprints
           /\ entries' \in [Fingerprints -> Statuses]
<1>1. CASE entries[f] = "none"
  BY <1>1 DEF RecordOutcome, Inv, TypeInv, WriteOK, Recorded
<1>2. CASE entries[f] # "none"
  <2>1. /\ entries' = [entries EXCEPT ![f] = kind] /\ UNCHANGED claims
        /\ settled' = IF kind = "executed" THEN settled \cup {f} ELSE settled
    BY <1>2 DEF RecordOutcome, AMark
  <2> QED
    BY <1>2, <2>1 DEF Inv, TypeInv, WriteOK, Recorded, Statuses, Kinds
<1> QED
  BY <1>1, <1>2

LEMMA MarkInv ==
    ASSUME Inv, NEW p \in Procs, NEW f \in Fingerprints, Mark(p, f)
    PROVE  Inv'
<1>1. /\ pc[p] \in {"markExecuted", "markAmbiguous"} /\ Current(p, f)
      /\ f \in work[p] /\ f \in Intents /\ cmd[p].kind = "apply"
      /\ UNCHANGED <<inflight, orders, sent, cmd>>
  BY DEF Mark, Current, Intents, exchangeVars, Inv, RoleOK, Looping
<1>2. /\ Recorded /\ UNCHANGED claims
      /\ settled \subseteq settled' /\ settled' \subseteq Fingerprints
      /\ entries' \in [Fingerprints -> Statuses]
  <2>1. CASE UNCHANGED ledgerVars
    BY <2>1, Unrecorded DEF ledgerVars, Inv, TypeInv
  <2>2. CASE RecordOutcome(f, IF pc[p] = "markExecuted" THEN "executed" ELSE "ambiguous")
    BY <2>2, RecordOutcomeFacts
  <2> QED
    BY <2>1, <2>2 DEF Mark
<1>3. CASE pc[p] = "markExecuted"
  <2>1. Advance(p, f, "ok")
    BY <1>3 DEF Mark
  <2>2. f \in settled'
    BY <1>1, <1>2, <1>3 DEF Inv, HeadOK
  <2>3. TypeInv'
    BY <1>1, <1>2, <2>1 DEF Inv, TypeInv, Advance, Goto, Stages
  <2> QED
    BY <1>1, <1>2, <1>3, <2>1, <2>2, <2>3, AdvanceInv DEF Looping
<1>4. CASE pc[p] = "markAmbiguous"
  <2>1. Abort(p, f, "failed")
    BY <1>4 DEF Mark
  <2>2. TypeInv'
    BY <1>1, <1>2, <2>1 DEF Inv, TypeInv, Abort, Goto, Stages
  <2> QED
    BY <1>1, <1>2, <2>1, <2>2, AbortInv
<1> QED
  BY <1>1, <1>3, <1>4

LEMMA FinishInv ==
    ASSUME Inv, NEW p \in Procs, Finish(p)
    PROVE  Inv'
<1>1. PICK stage \in {"query", "save"} :
          /\ pc' = [pc EXCEPT ![p] = stage]
          /\ UNCHANGED <<cmd, ledgerVars, exchangeVars>>
          /\ work' \in [Procs -> SUBSET Intents]
          /\ \A q \in Procs \ {p} : work'[q] = work[q]
  BY DEF Finish, Goto, Inv, TypeInv, Intents
<1>2. pc'[p] = stage /\ Others(p) /\ RoleOK(p)' /\ PassedOK(p)'
  BY <1>1 DEF Inv, TypeInv, RoleOK, PassedOK, Looping, Others
<1> QED
  BY <1>1, <1>2, Local DEF Inv, TypeInv, Stages

-----------------------------------------------------------------------------
(* Looking receipts up.                                                    *)

LEMMA QueriesInv ==
    ASSUME Inv, NEW p \in Procs,
           SettleAgain(p) \/ EndQueries(p) \/ \E f \in Fingerprints : Query(p, f)
    PROVE  Inv'
<1>1. PICK stage \in {"query", "settleExecuted", "settleAmbiguous", "save"} :
          /\ pc' = [pc EXCEPT ![p] = stage]
          /\ UNCHANGED <<cmd, ledgerVars, exchangeVars>>
          /\ work' \in [Procs -> SUBSET Intents]
          /\ \A q \in Procs \ {p} : work'[q] = work[q]
  <2>1. CASE SettleAgain(p)
    BY <2>1 DEF SettleAgain, ReceiptsOf, Inv, TypeInv, Intents
  <2>2. CASE EndQueries(p)
    BY <2>2 DEF EndQueries, Goto, Inv, TypeInv
  <2>3. CASE \E f \in Fingerprints : Query(p, f)
    BY <2>3 DEF Query, Goto, Inv, TypeInv
  <2> QED
    BY <2>1, <2>2, <2>3
<1>2. pc'[p] = stage /\ Others(p) /\ RoleOK(p)' /\ PassedOK(p)'
  BY <1>1 DEF Inv, TypeInv, RoleOK, PassedOK, Looping, Others
<1> QED
  BY <1>1, <1>2, Local DEF Inv, TypeInv, Stages

LEMMA SettleInv ==
    ASSUME Inv, NEW p \in Procs, NEW f \in Fingerprints, Settle(p, f)
    PROVE  Inv'
<1>1. /\ pc' = [pc EXCEPT ![p] = "query"]
      /\ work' = [work EXCEPT ![p] = @ \ {f}]
      /\ UNCHANGED <<inflight, orders, sent, cmd>>
  BY DEF Settle, Goto, exchangeVars
<1>2. /\ Recorded /\ UNCHANGED claims
      /\ settled \subseteq settled' /\ settled' \subseteq Fingerprints
      /\ entries' \in [Fingerprints -> Statuses]
  BY RecordOutcomeFacts DEF Settle
<1>3. TypeInv'
  BY <1>1, <1>2 DEF Inv, TypeInv, Stages
<1>4. pc'[p] = "query" /\ Others(p) /\ RoleOK(p)' /\ PassedOK(p)'
  BY <1>1 DEF Inv, TypeInv, RoleOK, PassedOK, Looping, Others
<1> QED
  BY <1>1, <1>2, <1>3, <1>4, Quiet

-----------------------------------------------------------------------------
LEMMA StutterInv == ASSUME Inv, UNCHANGED vars PROVE Inv'
<1>1. TypeInv'
  BY DEF vars, procVars, Inv, TypeInv
<1>2. \A f \in Fingerprints : WriteOK(f)'
  BY DEF vars, procVars, Inv, WriteOK
<1>3. \A p \in Procs : RoleOK(p)' /\ PassedOK(p)'
  BY DEF vars, procVars, Inv, RoleOK, PassedOK
<1>4. \A p \in Procs : \A f \in Fingerprints : HeadOK(p, f)'
  BY DEF vars, procVars, Inv, HeadOK, Current
<1>5. Unique' /\ LegsInOrder'
  BY DEF vars, procVars, Inv, Unique, LegsInOrder, Current
<1> QED
  BY <1>1, <1>2, <1>3, <1>4, <1>5 DEF Inv

LEMMA NextInv == Inv /\ [Next]_vars => Inv'
<1> SUFFICES ASSUME Inv, [Next]_vars PROVE Inv'
  OBVIOUS
<1>1. CASE UNCHANGED vars
  BY <1>1, StutterInv
<1>2. CASE Respond
  BY <1>2, RespondInv
<1>3. ASSUME NEW p \in Procs, Apply(p) \/ Preview(p) \/ Retry(p) \/ Reconcile(p)
      PROVE  Inv'
  BY <1>3, StartInv
<1>4. ASSUME NEW p \in Procs, Abandon(p)
      PROVE  Inv'
  BY <1>4, LeaveInv
<1>5. ASSUME NEW p \in Procs, Progress(p)
      PROVE  Inv'
  <2>1. CASE GatePasses(p) \/ GateBlocks(p)
    BY <2>1, GateInv
  <2>2. CASE Finish(p)
    BY <2>2, FinishInv
  <2>3. CASE SettleAgain(p) \/ EndQueries(p)
    BY <2>3, QueriesInv
  <2>4. CASE Save(p)
    BY <2>4, LeaveInv
  <2>5. ASSUME NEW f \in Fingerprints,
               \/ ClaimRecorded(p, f) \/ ClaimGranted(p, f) \/ ClaimHit(p, f)
               \/ ClaimRefused(p, f) \/ Mark(p, f) \/ Query(p, f) \/ Settle(p, f)
        PROVE  Inv'
    BY <2>5, ClaimRecordedInv, ClaimGrantedInv, ClaimAnsweredInv, MarkInv, QueriesInv, SettleInv
  <2>6. ASSUME NEW x \in Intents,
               Send(p, x) \/ Succeeds(p, x) \/ FailsRetryable(p, x) \/ Fails(p, x)
        PROVE  Inv'
    BY <2>6, SendInv, SucceedsInv, FailsInv
  <2> QED
    BY <1>5, <2>1, <2>2, <2>3, <2>4, <2>5, <2>6 DEF Progress
<1> QED
  BY <1>1, <1>2, <1>3, <1>4, <1>5 DEF Next, CalmNext

LEMMA Invariance == Spec => []Inv
<1> QED
  BY InitInv, NextInv, PTL DEF Spec

\* SubmittedAtMostOnce: for any bundle, any processes running any commands and
\* killed anywhere, and any exchange, executeIntent is called at most once for
\* each write intent.
THEOREM SubmittedAtMostOnce == Spec => []SubmittedOnce
<1>1. Inv => SubmittedOnce
  <2> SUFFICES ASSUME Inv, NEW f \in Fingerprints PROVE sent[f] <= 1
    BY DEF SubmittedOnce
  <2>1. claims[f] \in Nat /\ sent[f] \in Nat /\ claims[f] <= 1 /\ sent[f] <= claims[f]
    BY DEF Inv, TypeInv, WriteOK
  <2> QED
    BY <2>1
<1> QED
  BY <1>1, Invariance, PTL

\* NoLegOnAnUnsettledOne: a write goes out only when every write before it in
\* the bundle is settled.
THEOREM NoLegOnAnUnsettledOne == Spec => []LegsInOrder
<1>1. Inv => LegsInOrder
  BY DEF Inv
<1> QED
  BY <1>1, Invariance, PTL

\* EveryOrderRecorded: the ledger has an entry for every write the exchange
\* holds or may still accept.
THEOREM EveryOrderRecorded == Spec => []NothingUnrecorded
<1>1. Inv => NothingUnrecorded
  <2> SUFFICES ASSUME Inv, NEW f \in inflight \cup orders PROVE entries[f] # "none"
    BY DEF NothingUnrecorded
  <2>1. f \in Fingerprints
    BY DEF Inv, TypeInv
  <2> QED
    BY <2>1 DEF Inv, WriteOK
<1> QED
  BY <1>1, Invariance, PTL

-----------------------------------------------------------------------------
(* What is saved: the types of everything a process carries, and that      *)
(* receipts are true when no other order on the account looks like a write *)
(* of the bundle.                                                          *)
(*                                                                         *)
(* What is settled has an order; so does what a process or a run it holds  *)
(* counts as done; and while a process looks receipts up and everything    *)
(* matched so far, the receipts it is through with have orders.            *)

Verdicts == {"matched", "ambiguous", "missing", "error"}
Looking == {"query", "settleExecuted", "settleAmbiguous", "save"}

\* The part of TypeOK that TypeInv leaves out.
CarriedTypes ==
    /\ record \in Run
    /\ base \in [Procs -> Run]
    /\ tries \in [Procs -> Nat]
    /\ results \in [Procs -> [Intents -> Outcomes]]
    /\ refused \in [Procs -> {"none", "pending", "ambiguous"}]
    /\ verdicts \in [Procs -> SUBSET Verdicts]

\* Which command is where: an apply or a retry loops, a reconcile looks up the
\* last execution of a run that has one.
CommandOK(p) ==
    /\ pc[p] # "idle" => cmd[p].kind # "none"
    /\ cmd[p].kind = "reconcile" => base[p].executions # << >> /\ pc[p] \in Looking
    /\ pc[p] \in Looking \ {"save"} /\ cmd[p].kind = "apply" => cmd[p].verify

TInv == CarriedTypes /\ \A p \in Procs : CommandOK(p)

-----------------------------------------------------------------------------
(* Runs and what is saved of them.                                         *)

LEMMA ExecutionsType ==
    ASSUME NEW run \in Run
    PROVE  /\ run.status \in RunStatuses
           /\ run.executions \in Seq(Execution)
           /\ Len(run.executions) \in Nat
           /\ DOMAIN run.executions = 1..Len(run.executions)
           /\ \A i \in 1..Len(run.executions) :
                  /\ run.executions[i] \in Execution
                  /\ run.executions[i].results \in [Intents -> Outcomes]
                  /\ run.executions[i].recon \in Reconciliations
           /\ run.executions # << >> => Len(run.executions) \in 1..Len(run.executions)
<1>1. run.status \in RunStatuses /\ run.executions \in Seq(Execution)
  BY DEF Run
<1>2. \A i \in 1..Len(run.executions) : run.executions[i] \in Execution
  BY <1>1
<1>3. \A e \in Execution : e.results \in [Intents -> Outcomes] /\ e.recon \in Reconciliations
  BY DEF Execution
<1>4. Len(run.executions) \in Nat /\ DOMAIN run.executions = 1..Len(run.executions)
  BY <1>1
<1>5. run.executions # << >> => Len(run.executions) # 0
  BY <1>1, EmptySeq
<1> QED
  BY <1>1, <1>2, <1>3, <1>4, <1>5

LEMMA NoRunType == NoRun \in Run /\ NoResults \in [Intents -> Outcomes]
<1>1. << >> \in Seq(Execution)
  OBVIOUS
<1> QED
  BY <1>1 DEF NoRun, Run, RunStatuses, NoResults, Outcomes

\* One more execution, and the last one with another state.
LEMMA AppendType ==
    ASSUME NEW done \in Seq(Execution), NEW r \in [Intents -> Outcomes],
           NEW c \in Reconciliations, NEW s \in RunStatuses
    PROVE  [status |-> s, executions |-> Append(done, [results |-> r, recon |-> c])] \in Run
<1>1. [results |-> r, recon |-> c] \in Execution
  BY DEF Execution
<1>2. Append(done, [results |-> r, recon |-> c]) \in Seq(Execution)
  BY <1>1
<1> QED
  BY <1>2 DEF Run

LEMMA RestateType ==
    ASSUME NEW done \in Seq(Execution), done # << >>, NEW c \in Reconciliations,
           NEW s \in RunStatuses
    PROVE  [status |-> s, executions |-> [done EXCEPT ![Len(done)].recon = c]] \in Run
<1> DEFINE e == [done[Len(done)] EXCEPT !.recon = c]
           new == [done EXCEPT ![Len(done)] = e]
<1>1. Len(done) \in 1..Len(done) /\ Len(done) \in Nat
  BY EmptySeq
<1>2. done[Len(done)] \in Execution
  BY <1>1
<1>3. e \in Execution
  BY <1>2 DEF Execution
<1>4. new \in Seq(Execution)
  BY <1>1, <1>3, ExceptSeq
<1>5. [done EXCEPT ![Len(done)].recon = c] = new
  OBVIOUS
<1> QED
  BY <1>4, <1>5 DEF Run
-----------------------------------------------------------------------------
(* Types.                                                                  *)

LEMMA InitT == Init => TInv
<1> SUFFICES ASSUME Init PROVE TInv
  OBVIOUS
<1>1. CarriedTypes
  BY NoRunType DEF Init, CarriedTypes
<1>2. \A p \in Procs : CommandOK(p)
  BY DEF Init, CommandOK, NoCmd, Looking
<1> QED
  BY <1>1, <1>2 DEF TInv

\* A step of p leaves the others where they are.
Apart(p) ==
    \A q \in Procs \ {p} :
        pc'[q] = pc[q] /\ cmd'[q] = cmd[q] /\ base'[q] = base[q] /\ work'[q] = work[q]
        /\ results'[q] = results[q] /\ verdicts'[q] = verdicts[q]

LEMMA StepT ==
    ASSUME TInv, NEW p \in Procs, Apart(p), CarriedTypes', CommandOK(p)'
    PROVE  TInv'
<1> SUFFICES ASSUME NEW q \in Procs, q # p PROVE CommandOK(q)'
  BY DEF TInv
<1> QED
  BY DEF TInv, Apart, CommandOK

LEMMA CommandKinds ==
    /\ \A c \in Commands : c.kind \in {"apply", "dry-run", "retry", "replay", "reconcile"}
    /\ NoCmd.kind = "none"
  BY DEF Commands, NoCmd

LEMMA StartT ==
    ASSUME Inv, TInv, NEW p \in Procs, Apply(p) \/ Preview(p) \/ Retry(p) \/ Reconcile(p)
    PROVE  TInv' /\ Apart(p)
<1>1. PICK command, todo :
          /\ Start(p, command, todo)
          /\ command.kind # "none"
          /\ command.kind = "reconcile" => Reconcile(p)
          /\ \/ Goto(p, "gate") /\ command.kind = "apply"
             \/ Goto(p, "save") /\ command.kind \notin {"apply", "reconcile"}
             \/ Goto(p, "step") /\ command.kind = "retry"
             \/ Goto(p, "query") /\ command.kind = "reconcile"
  <2>1. CASE Apply(p)
    BY <2>1 DEF Apply
  <2>2. CASE Preview(p)
    BY <2>2, ExchangeAssumption DEF Preview
  <2>3. CASE Retry(p)
    BY <2>3 DEF Retry
  <2>4. CASE Reconcile(p)
    BY <2>4 DEF Reconcile
  <2> QED
    BY <2>1, <2>2, <2>3, <2>4
<1>2. /\ cmd' = [cmd EXCEPT ![p] = command] /\ base' = [base EXCEPT ![p] = record]
      /\ work' = [work EXCEPT ![p] = todo]
      /\ UNCHANGED <<record, tries, results, refused, verdicts>>
      /\ \E stage : pc' = [pc EXCEPT ![p] = stage]
  BY <1>1 DEF Start, Goto
<1>3. Apart(p)
  BY <1>2 DEF Inv, TypeInv, TInv, CarriedTypes, Apart
<1>4. CarriedTypes'
  BY <1>2 DEF TInv, CarriedTypes
<1>5. command.kind = "reconcile" => record.executions # << >>
  BY <1>1 DEF Reconcile
<1>6. CommandOK(p)'
  BY <1>1, <1>2, <1>5 DEF Goto, CommandOK, Looking, Inv, TypeInv, TInv, CarriedTypes
<1> QED
  BY <1>3, <1>4, <1>6, StepT

LEMMA LeaveT ==
    ASSUME Inv, TInv, NEW p \in Procs, Leave(p), record' \in Run
    PROVE  TInv' /\ Apart(p)
<1>1. /\ pc' = [pc EXCEPT ![p] = "idle"] /\ cmd' = [cmd EXCEPT ![p] = NoCmd]
      /\ base' = [base EXCEPT ![p] = NoRun] /\ work' = [work EXCEPT ![p] = {}]
      /\ tries' = [tries EXCEPT ![p] = 1] /\ results' = [results EXCEPT ![p] = NoResults]
      /\ refused' = [refused EXCEPT ![p] = "none"] /\ verdicts' = [verdicts EXCEPT ![p] = {}]
  BY DEF Leave, Goto
<1>2. Apart(p)
  BY <1>1 DEF Inv, TypeInv, TInv, CarriedTypes, Apart
<1>3. CarriedTypes'
  BY <1>1, NoRunType DEF TInv, CarriedTypes
<1>4. CommandOK(p)'
  BY <1>1, CommandKinds DEF CommandOK, Inv, TypeInv, Looking
<1> QED
  BY <1>2, <1>3, <1>4, StepT

\* The loop moves on, or ends.
LEMMA LoopT ==
    ASSUME Inv, TInv, NEW p \in Procs, NEW x \in Intents, NEW outcome \in Outcomes,
           Advance(p, x, outcome) \/ Abort(p, x, outcome), pc[p] \in Looping,
           UNCHANGED <<record, cmd, base, verdicts>>,
           refused' \in [Procs -> {"none", "pending", "ambiguous"}]
    PROVE  TInv' /\ Apart(p)
<1>1. /\ pc' = [pc EXCEPT ![p] = "step"] /\ tries' = [tries EXCEPT ![p] = 1]
      /\ \A q \in Procs \ {p} : work'[q] = work[q]
  BY DEF Advance, Abort, Goto, Inv, TypeInv
<1>2. /\ results' \in [Procs -> [Intents -> Outcomes]]
      /\ \A q \in Procs \ {p} : results'[q] = results[q]
  <2>1. CASE Advance(p, x, outcome)
    BY <2>1 DEF Advance, TInv, CarriedTypes
  <2>2. CASE Abort(p, x, outcome)
    <3> DEFINE ends == [y \in Intents |-> IF y = x THEN outcome
                            ELSE IF y \in work[p] THEN "skipped" ELSE results[p][y]]
    <3>1. results' = [results EXCEPT ![p] = ends]
      BY <2>2 DEF Abort
    <3>2. ends \in [Intents -> Outcomes]
      BY DEF TInv, CarriedTypes, Outcomes
    <3> HIDE DEF ends
    <3> QED
      BY <3>1, <3>2 DEF TInv, CarriedTypes
  <2> QED
    BY <2>1, <2>2
<1>3. Apart(p)
  BY <1>1, <1>2 DEF Inv, TypeInv, Apart
<1>4. CarriedTypes'
  BY <1>1, <1>2 DEF TInv, CarriedTypes
<1>5. CommandOK(p)'
  BY <1>1, CommandKinds DEF CommandOK, Inv, TypeInv, TInv, Looping, Looking
<1> QED
  BY <1>3, <1>4, <1>5, StepT

\* A process goes on with nothing but its stage, attempt, results or verdicts changed.
LEMMA MoveT ==
    ASSUME Inv, TInv, NEW p \in Procs, NEW stage, Goto(p, stage),
           UNCHANGED <<record, cmd, base, refused>>,
           tries' \in [Procs -> Nat], results' \in [Procs -> [Intents -> Outcomes]],
           verdicts' \in [Procs -> SUBSET Verdicts],
           \A q \in Procs \ {p} :
               results'[q] = results[q] /\ work'[q] = work[q] /\ verdicts'[q] = verdicts[q],
           pc[p] # "idle",
           cmd[p].kind = "reconcile" => stage \in Looking,
           stage \in Looking \ {"save"} /\ cmd[p].kind = "apply" => cmd[p].verify
    PROVE  TInv' /\ Apart(p)
<1>1. pc' = [pc EXCEPT ![p] = stage]
  BY DEF Goto
<1>2. Apart(p)
  BY <1>1 DEF Inv, TypeInv, Apart
<1>3. CarriedTypes'
  BY DEF TInv, CarriedTypes
<1>4. CommandOK(p)'
  BY <1>1 DEF CommandOK, Inv, TypeInv, TInv
<1> QED
  BY <1>2, <1>3, <1>4, StepT
LEMMA GateT ==
    ASSUME Inv, TInv, NEW p \in Procs, GatePasses(p) \/ GateBlocks(p)
    PROVE  TInv' /\ Apart(p)
<1>1. pc[p] \in Looping /\ pc[p] # "idle" /\ cmd[p].kind # "reconcile"
  BY DEF GatePasses, GateBlocks, Looping, Looking, TInv, CommandOK
<1>2. CASE GatePasses(p)
  BY <1>1, <1>2, MoveT DEF GatePasses, Looking, TInv, CarriedTypes
<1>3. CASE GateBlocks(p)
  <2>1. PICK x \in work[p] : Abort(p, x, "skipped")
    BY <1>3 DEF GateBlocks
  <2>2. x \in Intents /\ "skipped" \in Outcomes
    BY DEF Inv, TypeInv, Outcomes
  <2>3. refused' \in [Procs -> {"none", "pending", "ambiguous"}]
    BY <1>3 DEF GateBlocks, TInv, CarriedTypes
  <2> QED
    BY <1>1, <1>3, <2>1, <2>2, <2>3, LoopT DEF GateBlocks
<1> QED
  BY <1>2, <1>3

LEMMA ClaimT ==
    ASSUME Inv, TInv, NEW p \in Procs, NEW f \in Fingerprints,
           ClaimRecorded(p, f) \/ ClaimGranted(p, f) \/ ClaimHit(p, f) \/ ClaimRefused(p, f)
    PROVE  TInv' /\ Apart(p)
<1>1. pc[p] \in Looping /\ pc[p] # "idle" /\ cmd[p].kind # "reconcile"
  BY DEF ClaimRecorded, ClaimGranted, ClaimHit, ClaimRefused, Claiming, Looping, Looking,
         TInv, CommandOK
<1>2. f \in Intents /\ {"hit", "skipped"} \subseteq Outcomes
  BY DEF Intents, Outcomes
<1>3. CASE ClaimRecorded(p, f)
  BY <1>1, <1>3, MoveT DEF ClaimRecorded, Looking, TInv, CarriedTypes
<1>4. CASE ClaimGranted(p, f)
  BY <1>1, <1>4, MoveT DEF ClaimGranted, Looking, TInv, CarriedTypes
<1>5. CASE ClaimHit(p, f)
  BY <1>1, <1>2, <1>5, LoopT DEF ClaimHit, TInv, CarriedTypes
<1>6. CASE ClaimRefused(p, f)
  <2>1. refused' \in [Procs -> {"none", "pending", "ambiguous"}]
    BY <1>6 DEF ClaimRefused, TInv, CarriedTypes
  <2> QED
    BY <1>1, <1>2, <1>6, <2>1, LoopT DEF ClaimRefused
<1> QED
  BY <1>3, <1>4, <1>5, <1>6

LEMMA SendT ==
    ASSUME Inv, TInv, NEW p \in Procs, NEW x \in Intents, Send(p, x)
    PROVE  TInv' /\ Apart(p)
<1>1. pc[p] # "idle" /\ cmd[p].kind # "reconcile"
  BY DEF Send, Looking, TInv, CommandOK
<1> QED
  BY <1>1, MoveT DEF Send, Looking, TInv, CarriedTypes

LEMMA AnswerT ==
    ASSUME Inv, TInv, NEW p \in Procs, NEW x \in Intents,
           Succeeds(p, x) \/ FailsRetryable(p, x) \/ Fails(p, x)
    PROVE  TInv' /\ Apart(p)
<1>1. pc[p] \in Looping /\ pc[p] # "idle" /\ cmd[p].kind # "reconcile"
  BY DEF Succeeds, FailsRetryable, Fails, Looping, Looking, TInv, CommandOK
<1>2. {"ok", "recovered", "failed"} \subseteq Outcomes
  BY DEF Outcomes
<1>3. CASE Succeeds(p, x)
  <2>1. CASE Finalizes(p, x) /\ ~cmd[p].verify
    <3>1. /\ Goto(p, "markExecuted") /\ results' = [results EXCEPT ![p][x] = "ok"]
          /\ UNCHANGED <<record, cmd, base, refused, verdicts, work, tries>>
      BY <1>3, <2>1 DEF Succeeds
    <3>2. /\ results' \in [Procs -> [Intents -> Outcomes]]
          /\ \A q \in Procs \ {p} : results'[q] = results[q]
      BY <1>2, <3>1 DEF TInv, CarriedTypes
    <3> QED
      BY <1>1, <3>1, <3>2, MoveT DEF Looking, TInv, CarriedTypes
  <2>2. CASE ~(Finalizes(p, x) /\ ~cmd[p].verify)
    <3>1. PICK outcome \in Outcomes : Advance(p, x, outcome)
      BY <1>2, <1>3, <2>2 DEF Succeeds
    <3> QED
      BY <1>1, <1>3, <3>1, LoopT DEF Succeeds, TInv, CarriedTypes
  <2> QED
    BY <2>1, <2>2
<1>4. CASE FailsRetryable(p, x)
  <2>1. tries' \in [Procs -> Nat]
    BY <1>4 DEF FailsRetryable, TInv, CarriedTypes
  <2> QED
    BY <1>1, <1>4, <2>1, MoveT DEF FailsRetryable, Looking, TInv, CarriedTypes
<1>5. CASE Fails(p, x)
  <2>1. CASE Finalizes(p, x)
    <3>1. /\ Goto(p, "markAmbiguous") /\ results' = [results EXCEPT ![p][x] = "failed"]
          /\ UNCHANGED <<record, cmd, base, refused, verdicts, work, tries>>
      BY <1>5, <2>1 DEF Fails
    <3>2. /\ results' \in [Procs -> [Intents -> Outcomes]]
          /\ \A q \in Procs \ {p} : results'[q] = results[q]
      BY <1>2, <3>1 DEF TInv, CarriedTypes
    <3> QED
      BY <1>1, <3>1, <3>2, MoveT DEF Looking, TInv, CarriedTypes
  <2>2. CASE ~Finalizes(p, x)
    BY <1>1, <1>2, <1>5, <2>2, LoopT DEF Fails, TInv, CarriedTypes
  <2> QED
    BY <2>1, <2>2
<1> QED
  BY <1>3, <1>4, <1>5

LEMMA MarkT ==
    ASSUME Inv, TInv, NEW p \in Procs, NEW f \in Fingerprints, Mark(p, f)
    PROVE  TInv' /\ Apart(p)
<1>1. PICK outcome \in {"ok", "failed"} : Advance(p, f, outcome) \/ Abort(p, f, outcome)
  BY DEF Mark
<1>2. outcome \in Outcomes /\ f \in Intents /\ pc[p] \in Looping
  BY DEF Outcomes, Intents, Mark, Looping
<1> QED
  BY <1>1, <1>2, LoopT DEF Mark, TInv, CarriedTypes

LEMMA FinishT ==
    ASSUME Inv, TInv, NEW p \in Procs, Finish(p)
    PROVE  TInv' /\ Apart(p)
<1>1. PICK stage \in {"query", "save"} :
          Goto(p, stage) /\ (stage = "query" => cmd[p].kind = "apply" /\ cmd[p].verify)
  BY DEF Finish
<1>2. pc[p] # "idle" /\ cmd[p].kind # "reconcile"
  BY DEF Finish, Looking, TInv, CommandOK
<1>3. \A q \in Procs \ {p} : work'[q] = work[q]
  BY DEF Finish, Inv, TypeInv
<1> QED
  BY <1>1, <1>2, <1>3, MoveT DEF Finish, Looking, TInv, CarriedTypes

LEMMA LookT ==
    ASSUME Inv, TInv, NEW p \in Procs,
           \/ SettleAgain(p) \/ EndQueries(p)
           \/ \E f \in Fingerprints : Query(p, f) \/ Settle(p, f)
    PROVE  TInv' /\ Apart(p)
<1>1. pc[p] \in Looking \ {"save"} /\ pc[p] # "idle"
  BY DEF SettleAgain, EndQueries, Query, Settle, Looking
<1>2. PICK stage \in Looking : Goto(p, stage)
  <2>1. CASE SettleAgain(p)
    BY <2>1 DEF SettleAgain, Goto, Looking, Inv, TypeInv
  <2>2. CASE EndQueries(p)
    BY <2>2 DEF EndQueries, Looking
  <2>3. ASSUME NEW f \in Fingerprints, Query(p, f)
        PROVE  \E stage \in Looking : Goto(p, stage)
    BY <2>3 DEF Query, Goto, Looking, Inv, TypeInv
  <2>4. ASSUME NEW f \in Fingerprints, Settle(p, f)
        PROVE  \E stage \in Looking : Goto(p, stage)
    BY <2>4 DEF Settle, Looking
  <2> QED
    BY <2>1, <2>2, <2>3, <2>4
<1>3. /\ UNCHANGED <<record, cmd, base, refused, results>>
      /\ \A q \in Procs \ {p} : work'[q] = work[q] /\ verdicts'[q] = verdicts[q]
      /\ tries' \in [Procs -> Nat]
      /\ verdicts' \in [Procs -> SUBSET Verdicts]
  <2>1. CASE SettleAgain(p)
    BY <2>1 DEF SettleAgain, Inv, TypeInv, TInv, CarriedTypes
  <2>2. CASE EndQueries(p)
    BY <2>2 DEF EndQueries, Inv, TypeInv, TInv, CarriedTypes
  <2>3. CASE \E f \in Fingerprints : Settle(p, f)
    BY <2>3 DEF Settle, Inv, TypeInv, TInv, CarriedTypes
  <2>4. ASSUME NEW f \in Fingerprints, Query(p, f)
        PROVE  <1>3!1 /\ <1>3!2 /\ <1>3!3 /\ <1>3!4
    <3>1. PICK verdict \in HistoryMatch(f, SourceOf(p)) :
              verdicts' = [verdicts EXCEPT ![p] = @ \cup {verdict}]
      BY <2>4 DEF Query
    <3>2. verdict \in Verdicts
      BY DEF HistoryMatch, ByClientOrderRef, ByFallbackWindow, ByRows, QueryErrors, Verdicts
    <3> QED
      BY <2>4, <3>1, <3>2 DEF Query, Inv, TypeInv, TInv, CarriedTypes
  <2> QED
    BY <2>1, <2>2, <2>3, <2>4
<1> QED
  BY <1>1, <1>2, <1>3, MoveT DEF TInv, CarriedTypes, CommandOK

\* What is saved is a run.
LEMMA SavedRunType ==
    ASSUME Inv, TInv, NEW p \in Procs, pc[p] = "save"
    PROVE  SavedRun(p) \in Run
<1> DEFINE done == base[p].executions
           plain == IF AllOk(p) THEN "executed" ELSE "failed"
<1>1. base[p] \in Run /\ results[p] \in [Intents -> Outcomes]
  BY DEF TInv, CarriedTypes
<1>2. done \in Seq(Execution) /\ base[p].status \in RunStatuses
  BY <1>1, ExecutionsType
<1>3. plain \in RunStatuses /\ {"blocked", "dry_run", "executed"} \subseteq RunStatuses
  BY DEF RunStatuses
<1>4. {"none", "pending", "ambiguous", "matched", "failed"} \subseteq Reconciliations
  BY DEF Reconciliations
<1>5. cmd[p].kind \in {"apply", "dry-run", "retry", "replay", "reconcile"}
  BY CommandKinds DEF Inv, TypeInv, TInv, CommandOK
<1> HIDE DEF done, plain
<1>6. CASE cmd[p].kind = "apply"
  <2> DEFINE c == IF cmd[p].verify THEN Verified(p)
                  ELSE IF refused[p] # "none" THEN refused[p]
                  ELSE IF \A f \in Fingerprints : results[p][f] \in {"ok", "hit"} THEN "none"
                  ELSE "pending"
             s == IF refused[p] # "none" THEN "blocked" ELSE plain
  <2>1. Verified(p) \in Reconciliations /\ refused[p] \in Reconciliations
    BY <1>4 DEF Verified, TInv, CarriedTypes
  <2>2. c \in Reconciliations /\ s \in RunStatuses
    BY <1>3, <1>4, <2>1
  <2>3. SavedRun(p) = [status |-> s,
                       executions |-> Append(done, [results |-> results[p], recon |-> c])]
    BY <1>6 DEF SavedRun, Applied, done, plain
  <2> HIDE DEF c, s
  <2> QED
    BY <1>1, <1>2, <2>2, <2>3, AppendType
<1>7. CASE cmd[p].kind = "dry-run"
  <2>1. SavedRun(p) = [status |-> "dry_run",
                       executions |-> Append(done, [results |-> NoResults, recon |-> "none"])]
    BY <1>7 DEF SavedRun, done
  <2> QED
    BY <1>2, <1>3, <1>4, <2>1, NoRunType, AppendType
<1>8. CASE cmd[p].kind = "replay"
  BY <1>1, <1>8 DEF SavedRun
<1>9. CASE cmd[p].kind = "retry"
  <2>1. SavedRun(p) = [status |-> plain,
                       executions |-> Append(done, [results |-> results[p], recon |-> "none"])]
    BY <1>9 DEF SavedRun, done, plain
  <2> QED
    BY <1>1, <1>2, <1>3, <1>4, <2>1, AppendType
<1>10. CASE cmd[p].kind = "reconcile"
  <2> DEFINE s == IF Reconciled(p) = "matched" /\ base[p].status = "blocked"
                  THEN "executed" ELSE base[p].status
  <2>1. Reconciled(p) \in Reconciliations /\ s \in RunStatuses
    BY <1>2, <1>3, <1>4 DEF Reconciled
  <2>2. SavedRun(p) = [status |-> s,
                       executions |-> [done EXCEPT ![Len(done)].recon = Reconciled(p)]]
    BY <1>10 DEF SavedRun, done
  <2>3. done # << >>
    BY <1>10 DEF TInv, CommandOK, done
  <2> HIDE DEF s
  <2> QED
    BY <1>2, <2>1, <2>2, <2>3, RestateType
<1> QED
  BY <1>5, <1>6, <1>7, <1>8, <1>9, <1>10

LEMMA EndT ==
    ASSUME Inv, TInv, NEW p \in Procs, Abandon(p) \/ Save(p)
    PROVE  TInv' /\ Apart(p)
<1>1. record' \in Run
  BY SavedRunType DEF Abandon, Save, TInv, CarriedTypes
<1> QED
  BY <1>1, LeaveT DEF Abandon, Save
LEMMA RespondT ==
    ASSUME TInv, UNCHANGED <<record, procVars>>
    PROVE  TInv'
<1>1. CarriedTypes'
  BY DEF TInv, CarriedTypes, procVars
<1>2. \A p \in Procs : CommandOK(p)'
  BY DEF TInv, CommandOK, procVars
<1> QED
  BY <1>1, <1>2 DEF TInv

LEMMA NextT == Inv /\ TInv /\ [Next]_vars => TInv'
<1> SUFFICES ASSUME Inv, TInv, [Next]_vars PROVE TInv'
  OBVIOUS
<1>1. CASE UNCHANGED vars \/ Respond
  <2>1. UNCHANGED <<record, procVars>>
    BY <1>1 DEF vars, procVars, Respond, ExchangeAccepts, ExchangeRejects
  <2> QED
    BY <2>1, RespondT
<1>2. ASSUME NEW p \in Procs,
             Apply(p) \/ Preview(p) \/ Retry(p) \/ Reconcile(p) \/ Abandon(p) \/ Progress(p)
      PROVE  TInv'
  BY <1>2, StartT, EndT, GateT, ClaimT, SendT, AnswerT, MarkT, FinishT, LookT DEF Progress
<1> QED
  BY <1>1, <1>2 DEF Next, CalmNext

\* TypeCorrect: whatever the commands do and wherever they die, the ledger, the
\* exchange, the saved run and all that a process carries keep their types.
THEOREM TypeCorrect == Spec => []TypeOK
<1>1. Inv /\ TInv => TypeOK
  BY DEF Inv, TypeInv, TInv, CarriedTypes, TypeOK, Verdicts
<1>2. Spec => []TInv
  BY InitT, NextT, Invariance, PTL DEF Spec
<1> QED
  BY <1>1, <1>2, Invariance, PTL

-----------------------------------------------------------------------------
(* Receipts.                                                               *)

\* Nothing on the account looks like a write of the bundle but its own order.
NoLookalikes == \A f \in Fingerprints : Lookalikes[f] \subseteq {f}

RunIsTrue(run, placed) ==
    \A i \in DOMAIN run.executions :
        /\ Done(run.executions[i].results) \subseteq placed
        /\ run.executions[i].recon = "matched" => SentBy(run.executions[i].results) \subseteq placed

\* A reconcile, or the verification of an apply.
LooksUp(p) ==
    /\ pc[p] \in Looking
    /\ cmd[p].kind = "reconcile" \/ (cmd[p].kind = "apply" /\ cmd[p].verify)

Receipts(p) ==
    IF cmd[p].kind = "reconcile" THEN ReceiptsOf(Latest(base[p].executions)) ELSE SentBy(results[p])

LookedUpOK(p) ==
    /\ LooksUp(p) /\ verdicts[p] \subseteq {"matched"} => Receipts(p) \subseteq orders \cup work[p]
    /\ LooksUp(p) /\ pc[p] = "save" => work[p] = {}
    /\ pc[p] = "settleExecuted" => \A f \in Fingerprints : Current(p, f) => f \in orders
    /\ pc[p] = "settleAmbiguous" => "ambiguous" \in verdicts[p]

CarriedOK(p) ==
    /\ Done(results[p]) \subseteq orders
    /\ RunIsTrue(base[p], orders)
    /\ LookedUpOK(p)

RInv ==
    /\ settled \subseteq orders
    /\ RunIsTrue(record, orders)
    /\ \A p \in Procs : CarriedOK(p)

LEMMA EmptyRun ==
    /\ \A placed : RunIsTrue(NoRun, placed)
    /\ Done(NoResults) = {}
<1>1. DOMAIN NoRun.executions = {}
  BY DEF NoRun
<1>2. \A f \in Fingerprints : NoResults[f] = "none"
  BY DEF NoResults, Intents
<1> QED
  BY <1>1, <1>2 DEF RunIsTrue, Done

LEMMA InitR == Init => RInv
<1> SUFFICES ASSUME Init PROVE RInv
  OBVIOUS
<1>1. settled = {} /\ record = NoRun
  BY DEF Init
<1>2. ASSUME NEW p \in Procs PROVE CarriedOK(p)
  <2>1. pc[p] = "idle" /\ results[p] = NoResults /\ base[p] = NoRun
    BY DEF Init
  <2> QED
    BY <2>1, EmptyRun DEF CarriedOK, LookedUpOK, LooksUp, Looking
<1> QED
  BY <1>1, <1>2, EmptyRun DEF RInv

\* Orders are never taken back, so what is true of the others stays true.
LEMMA StepR ==
    ASSUME RInv, NEW p \in Procs, Apart(p), orders \subseteq orders',
           settled' \subseteq orders', RunIsTrue(record', orders'), CarriedOK(p)'
    PROVE  RInv'
<1> SUFFICES ASSUME NEW q \in Procs, q # p PROVE CarriedOK(q)'
  BY DEF RInv
<1>1. /\ pc'[q] = pc[q] /\ cmd'[q] = cmd[q] /\ base'[q] = base[q] /\ work'[q] = work[q]
      /\ results'[q] = results[q] /\ verdicts'[q] = verdicts[q]
  BY DEF Apart
<1>2. Done(results[q]) \subseteq orders /\ RunIsTrue(base[q], orders) /\ LookedUpOK(q)
  BY DEF RInv, CarriedOK
<1>3. LookedUpOK(q)'
  BY <1>1, <1>2 DEF LookedUpOK, LooksUp, Receipts, Current
<1> QED
  BY <1>1, <1>2, <1>3 DEF CarriedOK, RunIsTrue

\* The same for a step that changes neither orders nor the saved run.
LEMMA CalmR ==
    ASSUME RInv, NEW p \in Procs, Apart(p), UNCHANGED <<orders, record>>,
           settled' \subseteq orders, CarriedOK(p)'
    PROVE  RInv'
  BY StepR DEF RInv

\* What a process that looks nothing up has to show.
LEMMA NotLooking ==
    ASSUME RInv, NEW p \in Procs, UNCHANGED <<orders, base>>,
           Done(results'[p]) \subseteq orders, ~LooksUp(p)',
           pc'[p] \notin {"settleExecuted", "settleAmbiguous"}
    PROVE  CarriedOK(p)'
  BY DEF RInv, CarriedOK, LookedUpOK
LEMMA StartR ==
    ASSUME Inv, TInv, RInv, NEW p \in Procs,
           Apply(p) \/ Preview(p) \/ Retry(p) \/ Reconcile(p)
    PROVE  RInv'
<1>1. Apart(p)
  BY StartT
<1>2. /\ UNCHANGED <<ledgerVars, exchangeVars, record, results, verdicts>>
      /\ base' = [base EXCEPT ![p] = record]
  BY DEF Apply, Preview, Retry, Reconcile, Start
<1>3. Done(results'[p]) \subseteq orders' /\ RunIsTrue(base'[p], orders')
  BY <1>2 DEF RInv, CarriedOK, TInv, CarriedTypes, exchangeVars
<1>4. LookedUpOK(p)'
  <2>1. CASE Reconcile(p)
    <3>1. PICK s \in Sources :
              Start(p, [kind |-> "reconcile", source |-> s], ReceiptsOf(Latest(record.executions)))
      BY <2>1 DEF Reconcile
    <3>2. /\ pc' = [pc EXCEPT ![p] = "query"]
          /\ cmd' = [cmd EXCEPT ![p] = [kind |-> "reconcile", source |-> s]]
          /\ work' = [work EXCEPT ![p] = ReceiptsOf(Latest(record.executions))]
      BY <2>1, <3>1 DEF Reconcile, Goto, Start
    <3>3. cmd'[p].kind = "reconcile" /\ pc'[p] = "query" /\ base'[p] = record
          /\ work'[p] = ReceiptsOf(Latest(record.executions))
      BY <1>2, <3>2 DEF Inv, TypeInv, TInv, CarriedTypes
    <3>4. Receipts(p)' \subseteq work'[p]
      BY <3>3 DEF Receipts
    <3> QED
      BY <3>3, <3>4 DEF LookedUpOK
  <2>2. CASE Apply(p)
    BY <2>2 DEF Apply, Goto, Inv, TypeInv, LookedUpOK, LooksUp, Looking
  <2>3. CASE Preview(p)
    <3>1. PICK kind \in {"dry-run", "replay"} : Start(p, [kind |-> kind], {})
      BY <2>3, ExchangeAssumption DEF Preview
    <3>2. cmd'[p].kind \in {"dry-run", "replay"} /\ pc'[p] = "save"
      BY <2>3, <3>1 DEF Preview, Start, Goto, Inv, TypeInv
    <3> QED
      BY <3>2 DEF LookedUpOK, LooksUp
  <2>4. CASE Retry(p)
    BY <2>4 DEF Retry, Goto, Inv, TypeInv, LookedUpOK, LooksUp, Looking
  <2> QED
    BY <2>1, <2>2, <2>3, <2>4
<1> QED
  BY <1>1, <1>2, <1>3, <1>4, CalmR DEF CarriedOK, RInv, ledgerVars, exchangeVars

\* The loop moves on, or ends, with an outcome that is true of x.
LEMMA LoopR ==
    ASSUME Inv, TInv, RInv, NEW p \in Procs, NEW x \in Intents, NEW outcome,
           Advance(p, x, outcome) \/ Abort(p, x, outcome), Apart(p),
           UNCHANGED <<orders, base, record>>, settled' \subseteq orders,
           outcome \in {"ok", "hit"} /\ x \in Fingerprints => x \in orders
    PROVE  RInv'
<1>1. pc' = [pc EXCEPT ![p] = "step"]
  BY DEF Advance, Abort, Goto
<1>2. pc'[p] = "step"
  BY <1>1 DEF Inv, TypeInv
<1>3. \A f \in Fingerprints :
          results'[p][f] = IF f = x THEN outcome
                           ELSE IF results'[p][f] = "skipped" THEN "skipped" ELSE results[p][f]
  <2> \A f \in Fingerprints : f \in Intents
    BY DEF Intents
  <2>1. CASE Advance(p, x, outcome)
    BY <2>1 DEF Advance, TInv, CarriedTypes
  <2>2. CASE Abort(p, x, outcome)
    BY <2>2 DEF Abort, TInv, CarriedTypes
  <2> QED
    BY <2>1, <2>2
<1>4. Done(results'[p]) \subseteq orders
  BY <1>3 DEF Done, RInv, CarriedOK
<1> QED
  BY <1>2, <1>4, NotLooking, CalmR DEF LooksUp, Looking

\* A process moves on outside the look-up and leaves its results alone.
LEMMA MoveR ==
    ASSUME Inv, TInv, RInv, NEW p \in Procs, NEW stage \in Looping, Goto(p, stage), Apart(p),
           UNCHANGED <<orders, base, record, results, settled>>
    PROVE  RInv'
<1>1. pc'[p] = stage
  BY DEF Goto, Inv, TypeInv
<1>2. ~LooksUp(p)' /\ pc'[p] \notin {"settleExecuted", "settleAmbiguous"}
  BY <1>1 DEF LooksUp, Looking, Looping
<1>3. Done(results'[p]) \subseteq orders
  BY DEF RInv, CarriedOK
<1> QED
  BY <1>2, <1>3, NotLooking, CalmR DEF RInv

LEMMA GateR ==
    ASSUME Inv, TInv, RInv, NEW p \in Procs, GatePasses(p) \/ GateBlocks(p)
    PROVE  RInv'
<1>1. Apart(p)
  BY GateT
<1>2. CASE GatePasses(p)
  BY <1>1, <1>2, MoveR DEF GatePasses, Looping, ledgerVars, exchangeVars
<1>3. CASE GateBlocks(p)
  <2>1. PICK x \in work[p] : Abort(p, x, "skipped")
    BY <1>3 DEF GateBlocks
  <2>2. x \in Intents
    BY DEF Inv, TypeInv
  <2> QED
    BY <1>1, <1>3, <2>1, <2>2, LoopR DEF GateBlocks, RInv, ledgerVars, exchangeVars
<1> QED
  BY <1>2, <1>3

LEMMA ClaimR ==
    ASSUME Inv, TInv, RInv, NEW p \in Procs, NEW f \in Fingerprints,
           ClaimRecorded(p, f) \/ ClaimGranted(p, f) \/ ClaimHit(p, f) \/ ClaimRefused(p, f)
    PROVE  RInv'
<1>1. Apart(p) /\ f \in Intents
  BY ClaimT DEF Intents
<1>2. CASE ClaimRecorded(p, f)
  BY <1>1, <1>2, MoveR DEF ClaimRecorded, Looping, exchangeVars
<1>3. CASE ClaimGranted(p, f)
  BY <1>1, <1>3, MoveR DEF ClaimGranted, Looping, exchangeVars
<1>4. CASE ClaimHit(p, f)
  \* The ledger says executed of settled writes only, and those have orders.
  <2>1. f \in orders
    BY <1>4 DEF ClaimHit, Inv, WriteOK, RInv
  <2> QED
    BY <1>1, <1>4, <2>1, LoopR DEF ClaimHit, RInv, ledgerVars, exchangeVars
<1>5. CASE ClaimRefused(p, f)
  BY <1>1, <1>5, LoopR DEF ClaimRefused, RInv, ledgerVars, exchangeVars
<1> QED
  BY <1>2, <1>3, <1>4, <1>5

LEMMA SendR ==
    ASSUME Inv, TInv, RInv, NEW p \in Procs, NEW x \in Intents, Send(p, x)
    PROVE  RInv'
  BY SendT, MoveR DEF Send, Looping, ledgerVars

LEMMA AnswerR ==
    ASSUME Inv, TInv, RInv, NEW p \in Procs, NEW x \in Intents,
           Succeeds(p, x) \/ FailsRetryable(p, x) \/ Fails(p, x)
    PROVE  RInv'
<1>1. Apart(p)
  BY AnswerT
<1>2. CASE Succeeds(p, x)
  <2>1. /\ x \in Fingerprints => x \in orders
        /\ settled' = settled \cup ({x} \cap Fingerprints)
        /\ UNCHANGED <<orders, base, record>>
    BY <1>2 DEF Succeeds, exchangeVars
  <2>2. settled' \subseteq orders
    BY <2>1 DEF RInv
  <2>3. CASE Finalizes(p, x) /\ ~cmd[p].verify
    <3>1. Goto(p, "markExecuted") /\ results' = [results EXCEPT ![p][x] = "ok"]
      BY <1>2, <2>3 DEF Succeeds
    <3>2. pc'[p] = "markExecuted"
      BY <3>1 DEF Goto, Inv, TypeInv
    <3>3. \A f \in Fingerprints : results'[p][f] = IF f = x THEN "ok" ELSE results[p][f]
      BY <3>1 DEF TInv, CarriedTypes, Intents
    <3>4. Done(results'[p]) \subseteq orders
      BY <2>1, <3>3 DEF Done, RInv, CarriedOK
    <3> QED
      BY <1>1, <2>1, <2>2, <3>2, <3>4, NotLooking, CalmR DEF LooksUp, Looking
  <2>4. CASE ~(Finalizes(p, x) /\ ~cmd[p].verify)
    <3>1. PICK outcome : Advance(p, x, outcome)
      BY <1>2, <2>4 DEF Succeeds
    <3> QED
      BY <1>1, <2>1, <2>2, <3>1, LoopR
  <2> QED
    BY <2>3, <2>4
<1>3. CASE FailsRetryable(p, x)
  BY <1>1, <1>3, MoveR DEF FailsRetryable, Looping, ledgerVars, exchangeVars
<1>4. CASE Fails(p, x)
  <2>1. UNCHANGED <<orders, base, record, settled>>
    BY <1>4 DEF Fails, ledgerVars, exchangeVars
  <2>2. CASE Finalizes(p, x)
    <3>1. Goto(p, "markAmbiguous") /\ results' = [results EXCEPT ![p][x] = "failed"]
      BY <1>4, <2>2 DEF Fails
    <3>2. pc'[p] = "markAmbiguous"
      BY <3>1 DEF Goto, Inv, TypeInv
    <3>3. \A f \in Fingerprints : results'[p][f] = IF f = x THEN "failed" ELSE results[p][f]
      BY <3>1 DEF TInv, CarriedTypes, Intents
    <3>4. Done(results'[p]) \subseteq orders
      BY <2>1, <3>3 DEF Done, RInv, CarriedOK
    <3> QED
      BY <1>1, <2>1, <3>2, <3>4, NotLooking, CalmR DEF LooksUp, Looking, RInv
  <2>3. CASE ~Finalizes(p, x)
    BY <1>1, <1>4, <2>1, <2>3, LoopR DEF Fails, RInv
  <2> QED
    BY <2>2, <2>3
<1> QED
  BY <1>2, <1>3, <1>4

LEMMA MarkR ==
    ASSUME Inv, TInv, RInv, NEW p \in Procs, NEW f \in Fingerprints, Mark(p, f)
    PROVE  RInv'
<1>1. Apart(p) /\ f \in Intents /\ UNCHANGED <<orders, base, record>>
  BY MarkT DEF Mark, Intents, exchangeVars
<1>2. pc[p] = "markExecuted" => f \in settled
  BY DEF Mark, Inv, HeadOK
<1>3. settled' \subseteq orders
  BY <1>2 DEF Mark, RecordOutcome, RInv, ledgerVars
<1>4. CASE pc[p] = "markExecuted"
  BY <1>1, <1>2, <1>3, <1>4, LoopR DEF Mark, RInv
<1>5. CASE pc[p] # "markExecuted"
  BY <1>1, <1>3, <1>5, LoopR DEF Mark
<1> QED
  BY <1>4, <1>5

LEMMA FinishR ==
    ASSUME Inv, TInv, RInv, NEW p \in Procs, Finish(p)
    PROVE  RInv'
<1>1. Apart(p) /\ UNCHANGED <<orders, base, record, results, settled, cmd>>
  BY FinishT DEF Finish, ledgerVars, exchangeVars
<1>2. Done(results'[p]) \subseteq orders /\ RunIsTrue(base'[p], orders)
  BY <1>1 DEF RInv, CarriedOK
<1>3. LookedUpOK(p)'
  <2>1. CASE cmd[p].kind = "apply" /\ cmd[p].verify
    <3>1. /\ Goto(p, "query")
          /\ work' = [work EXCEPT ![p] = {f \in Fingerprints : results[p][f] \in {"ok", "failed"}}]
      BY <2>1 DEF Finish
    <3>2. /\ pc'[p] = "query" /\ cmd'[p].kind = "apply"
          /\ work'[p] = {f \in Fingerprints : results[p][f] \in {"ok", "failed"}}
      BY <1>1, <2>1, <3>1 DEF Goto, Inv, TypeInv
    <3>3. SentBy(results[p]) \subseteq Done(results[p]) \cup work'[p]
      BY <3>2 DEF SentBy, Done
    <3>4. Receipts(p)' \subseteq orders' \cup work'[p]
      BY <1>1, <1>2, <3>2, <3>3 DEF Receipts
    <3> QED
      BY <3>2, <3>4 DEF LookedUpOK
  <2>2. CASE ~(cmd[p].kind = "apply" /\ cmd[p].verify)
    <3>1. pc'[p] = "save"
      BY <2>2 DEF Finish, Goto, Inv, TypeInv
    <3>2. cmd[p].kind # "reconcile"
      BY DEF Finish, TInv, CommandOK, Looking
    <3> QED
      BY <1>1, <2>2, <3>1, <3>2 DEF LookedUpOK, LooksUp
  <2> QED
    BY <2>1, <2>2
<1> QED
  BY <1>1, <1>2, <1>3, CalmR DEF CarriedOK, RInv
\* A match is a match with the write's own order.
LEMMA MatchesAreOrders ==
    ASSUME NoLookalikes, NEW f \in Fingerprints, NEW source,
           "matched" \in HistoryMatch(f, source)
    PROVE  f \in orders
<1>1. \A seen \in Histories : seen \subseteq orders
  BY DEF Histories
<1>2. \A rows : ByRows(rows) = "matched" => rows # {}
  BY DEF ByRows
<1>3. "matched" \in ByClientOrderRef(f) => f \in orders
  BY <1>1, <1>2 DEF ByClientOrderRef, QueryErrors
<1>4. "matched" \in ByFallbackWindow(f) => f \in orders
  <2> SUFFICES ASSUME "matched" \in ByFallbackWindow(f) PROVE f \in orders
    OBVIOUS
  <2>1. PICK seen \in Histories : Lookalikes[f] \cap (seen \cup Strangers) # {}
    BY <1>2 DEF ByFallbackWindow, QueryErrors
  <2>2. Lookalikes[f] \subseteq {f} /\ f \notin Strangers
    BY ExchangeAssumption DEF NoLookalikes
  <2> QED
    BY <1>1, <2>1, <2>2
<1> QED
  BY <1>3, <1>4 DEF HistoryMatch

LEMMA QueryR ==
    ASSUME NoLookalikes, Inv, TInv, RInv, NEW p \in Procs, NEW f \in Fingerprints, Query(p, f)
    PROVE  RInv'
<1>1. Apart(p) /\ UNCHANGED <<orders, base, record, results, settled, cmd>>
  BY LookT DEF Query, ledgerVars, exchangeVars
<1>2. pc[p] = "query" /\ Current(p, f)
  BY DEF Query
<1>3. PICK verdict \in HistoryMatch(f, SourceOf(p)) :
          /\ verdicts' = [verdicts EXCEPT ![p] = @ \cup {verdict}]
          /\ IF verdict \in {"matched", "ambiguous"}
             THEN /\ Goto(p, IF verdict = "matched" THEN "settleExecuted" ELSE "settleAmbiguous")
                  /\ UNCHANGED work
             ELSE /\ work' = [work EXCEPT ![p] = @ \ {f}] /\ UNCHANGED pc
  BY DEF Query
<1>4. verdicts'[p] = verdicts[p] \cup {verdict}
  BY <1>3 DEF TInv, CarriedTypes
<1>5. pc'[p] \in {"query", "settleExecuted", "settleAmbiguous"}
      /\ (pc'[p] = "settleExecuted" => verdict = "matched")
      /\ (pc'[p] = "settleAmbiguous" => verdict = "ambiguous")
  BY <1>2, <1>3 DEF Goto, Inv, TypeInv
<1>6. LookedUpOK(p)'
  <2>1. LooksUp(p)' /\ verdicts'[p] \subseteq {"matched"} => Receipts(p)' \subseteq orders' \cup work'[p]
    <3> SUFFICES ASSUME LooksUp(p)', verdict = "matched", verdicts[p] \subseteq {"matched"}
                 PROVE  Receipts(p)' \subseteq orders' \cup work'[p]
      BY <1>4
    <3>1. LooksUp(p) /\ Receipts(p)' = Receipts(p) /\ work' = work
      BY <1>1, <1>2, <1>3 DEF LooksUp, Receipts, Looking
    <3> QED
      BY <1>1, <3>1 DEF RInv, CarriedOK, LookedUpOK
  <2>2. pc'[p] = "settleExecuted" => \A g \in Fingerprints : Current(p, g)' => g \in orders'
    <3> SUFFICES ASSUME pc'[p] = "settleExecuted", NEW g \in Fingerprints, Current(p, g)'
                 PROVE  g \in orders
      BY <1>1
    <3>1. Current(p, g)
      BY <1>3, <1>5 DEF Current
    <3>2. g = f
      BY <1>2, <3>1, BundleAssumption DEF Current, Intents
    <3> QED
      BY <1>3, <1>5, <3>2, MatchesAreOrders
  <2> QED
    BY <1>4, <1>5, <2>1, <2>2 DEF LookedUpOK
<1> QED
  BY <1>1, <1>6, CalmR DEF CarriedOK, RInv

LEMMA SettleR ==
    ASSUME Inv, TInv, RInv, NEW p \in Procs, NEW f \in Fingerprints, Settle(p, f)
    PROVE  RInv'
<1>1. /\ Apart(p) /\ UNCHANGED <<orders, base, record, results, cmd, verdicts>>
      /\ pc[p] \in {"settleExecuted", "settleAmbiguous"} /\ Current(p, f)
      /\ pc'[p] = "query" /\ work'[p] = work[p] \ {f}
  BY LookT DEF Settle, Goto, exchangeVars, Inv, TypeInv
<1>2. pc[p] = "settleExecuted" => f \in orders
  BY <1>1 DEF RInv, CarriedOK, LookedUpOK
<1>3. settled' \subseteq orders
  BY <1>1, <1>2 DEF Settle, RecordOutcome, RInv
<1>4. LookedUpOK(p)'
  <2> SUFFICES ASSUME LooksUp(p)', verdicts[p] \subseteq {"matched"}
               PROVE  Receipts(p)' \subseteq orders \cup work'[p]
    BY <1>1 DEF LookedUpOK
  <2>1. LooksUp(p) /\ Receipts(p)' = Receipts(p)
    BY <1>1 DEF LooksUp, Receipts, Looking
  <2>2. Receipts(p) \subseteq orders \cup work[p]
    BY <2>1 DEF RInv, CarriedOK, LookedUpOK
  \* After an ambiguous verdict not everything matched.
  <2>3. pc[p] = "settleAmbiguous" => "ambiguous" \in verdicts[p]
    BY DEF RInv, CarriedOK, LookedUpOK
  <2> QED
    BY <1>1, <1>2, <2>1, <2>2, <2>3
<1> QED
  BY <1>1, <1>3, <1>4, CalmR DEF CarriedOK, RInv
LEMMA AgainR ==
    ASSUME Inv, TInv, RInv, NEW p \in Procs, SettleAgain(p) \/ EndQueries(p)
    PROVE  RInv'
<1>1. /\ Apart(p) /\ UNCHANGED <<orders, base, record, results, settled, cmd>>
      /\ pc[p] = "query" /\ work[p] = {}
  BY LookT DEF SettleAgain, EndQueries, ledgerVars, exchangeVars
<1>2. LookedUpOK(p)'
  <2>1. CASE SettleAgain(p)
    <3>1. /\ pc'[p] = "query" /\ work'[p] = ReceiptsOf(Latest(base[p].executions))
          /\ cmd[p].kind = "reconcile"
      BY <2>1 DEF SettleAgain, Inv, TypeInv
    <3> QED
      BY <1>1, <3>1 DEF LookedUpOK, Receipts
  <2>2. CASE EndQueries(p)
    <3>1. pc'[p] = "save" /\ UNCHANGED <<work, verdicts>>
      BY <2>2 DEF EndQueries, Goto, Inv, TypeInv
    <3>2. LooksUp(p)' => LooksUp(p)
      BY <1>1 DEF LooksUp, Looking
    <3>3. Receipts(p)' = Receipts(p)
      BY <1>1 DEF Receipts
    <3> QED
      BY <1>1, <3>1, <3>2, <3>3 DEF LookedUpOK, RInv, CarriedOK
  <2> QED
    BY <2>1, <2>2
<1> QED
  BY <1>1, <1>2, CalmR DEF CarriedOK, RInv

\* What is saved is true of the orders.
LEMMA SavedRunIsTrue ==
    ASSUME Inv, TInv, RInv, NEW p \in Procs, pc[p] = "save"
    PROVE  RunIsTrue(SavedRun(p), orders)
<1> DEFINE done == base[p].executions
<1>1. /\ RunIsTrue(base[p], orders) /\ Done(results[p]) \subseteq orders /\ LookedUpOK(p)
      /\ base[p] \in Run
  BY DEF RInv, CarriedOK, TInv, CarriedTypes
<1>2. /\ done \in Seq(Execution) /\ Len(done) \in Nat /\ DOMAIN done = 1..Len(done)
      /\ done # << >> => Len(done) \in 1..Len(done)
  BY <1>1, ExecutionsType
\* An execution that is appended has to be true by itself.
<1>3. ASSUME NEW r \in [Intents -> Outcomes], NEW c \in Reconciliations, NEW s,
             Done(r) \subseteq orders, c = "matched" => SentBy(r) \subseteq orders
      PROVE  RunIsTrue([status |-> s, executions |-> Append(done, [results |-> r, recon |-> c])],
                       orders)
  <2> DEFINE e == [results |-> r, recon |-> c]
             new == Append(done, e)
  <2>1. e \in Execution
    BY DEF Execution
  <2>2. /\ DOMAIN new = 1..(Len(done) + 1) /\ new[Len(done) + 1] = e
        /\ \A i \in 1..Len(done) : new[i] = done[i]
    BY <1>2, <2>1
  <2>3. \A i \in DOMAIN new : i \in DOMAIN done \/ i = Len(done) + 1
    BY <1>2, <2>2
  <2>4. ASSUME NEW i \in DOMAIN new
        PROVE  /\ Done(new[i].results) \subseteq orders
               /\ new[i].recon = "matched" => SentBy(new[i].results) \subseteq orders
    <3>1. CASE i \in DOMAIN done
      <4>1. new[i] = done[i]
        BY <1>2, <2>2, <3>1
      <4> QED
        BY <1>1, <3>1, <4>1 DEF RunIsTrue
    <3>2. CASE i = Len(done) + 1
      <4>1. new[i].results = r /\ new[i].recon = c
        BY <2>2, <3>2
      <4> QED
        BY <1>3, <4>1
    <3> QED
      BY <2>3, <3>1, <3>2
  <2> HIDE DEF new
  <2>5. [status |-> s, executions |-> new].executions = new
    OBVIOUS
  <2> QED
    BY <2>4, <2>5 DEF RunIsTrue, new
<1>4. {"none", "pending", "ambiguous", "matched", "failed"} \subseteq Reconciliations
  BY DEF Reconciliations
<1>5. results[p] \in [Intents -> Outcomes] /\ refused[p] \in {"none", "pending", "ambiguous"}
      /\ cmd[p].kind \in {"apply", "dry-run", "retry", "replay", "reconcile"}
  BY CommandKinds DEF TInv, CarriedTypes, Inv, TypeInv, CommandOK
<1> HIDE DEF done
<1>6. CASE cmd[p].kind = "apply"
  <2> DEFINE c == IF cmd[p].verify THEN Verified(p)
                  ELSE IF refused[p] # "none" THEN refused[p]
                  ELSE IF \A f \in Fingerprints : results[p][f] \in {"ok", "hit"} THEN "none"
                  ELSE "pending"
  <2>1. SavedRun(p) = [status |-> SavedRun(p).status,
                       executions |-> Append(done, [results |-> results[p], recon |-> c])]
    BY <1>6 DEF SavedRun, Applied, done
  <2>2. c \in Reconciliations
    BY <1>4, <1>5 DEF Verified
  <2>3. c = "matched" => cmd[p].verify /\ verdicts[p] = {"matched"}
    BY <1>5 DEF Verified
  <2>4. c = "matched" => SentBy(results[p]) \subseteq orders
    <3> SUFFICES ASSUME c = "matched" PROVE SentBy(results[p]) \subseteq orders
      OBVIOUS
    <3>1. LooksUp(p) /\ Receipts(p) = SentBy(results[p])
      BY <1>6, <2>3 DEF LooksUp, Looking, Receipts
    <3> QED
      BY <1>1, <2>3, <3>1 DEF LookedUpOK
  <2> HIDE DEF c
  <2>5. RunIsTrue([status |-> SavedRun(p).status,
                   executions |-> Append(done, [results |-> results[p], recon |-> c])], orders)
    BY <1>1, <1>3, <1>5, <2>2, <2>4
  <2> QED
    BY <2>1, <2>5
<1>7. CASE cmd[p].kind = "dry-run"
  <2>1. SavedRun(p) = [status |-> "dry_run",
                       executions |-> Append(done, [results |-> NoResults, recon |-> "none"])]
    BY <1>7 DEF SavedRun, done
  <2> QED
    BY <1>3, <1>4, <2>1, NoRunType, EmptyRun
<1>8. CASE cmd[p].kind = "replay"
  BY <1>1, <1>8 DEF SavedRun
<1>9. CASE cmd[p].kind = "retry"
  <2>1. SavedRun(p) = [status |-> SavedRun(p).status,
                       executions |-> Append(done, [results |-> results[p], recon |-> "none"])]
    BY <1>9 DEF SavedRun, done
  <2>2. RunIsTrue([status |-> SavedRun(p).status,
                   executions |-> Append(done, [results |-> results[p], recon |-> "none"])], orders)
    BY <1>1, <1>3, <1>4, <1>5
  <2> QED
    BY <2>1, <2>2
<1>10. CASE cmd[p].kind = "reconcile"
  <2> DEFINE last == Len(done)
             e == [done[last] EXCEPT !.recon = Reconciled(p)]
             new == [done EXCEPT ![last] = e]
  <2>1. last \in DOMAIN done /\ done[last] \in Execution
    BY <1>2, <1>10 DEF TInv, CommandOK, done
  <2>2. e.results = done[last].results /\ e.recon = Reconciled(p)
    BY <2>1 DEF Execution
  <2>3. SavedRun(p).executions = new
    BY <1>10 DEF SavedRun, done
  <2>4. DOMAIN new = DOMAIN done /\ new[last] = e
        /\ \A i \in DOMAIN done : i # last => new[i] = done[i]
    BY <2>1
  <2>5. Reconciled(p) = "matched" => SentBy(done[last].results) \subseteq orders
    <3> SUFFICES ASSUME verdicts[p] \subseteq {"matched"}
                 PROVE  SentBy(done[last].results) \subseteq orders
      BY DEF Reconciled
    <3>1. LooksUp(p) /\ Receipts(p) = ReceiptsOf(Latest(done))
      BY <1>10 DEF LooksUp, Looking, Receipts, done
    <3>2. ReceiptsOf(Latest(done)) \subseteq orders
      BY <1>1, <3>1 DEF LookedUpOK
    <3>3. SentBy(done[last].results) \subseteq ReceiptsOf(Latest(done))
      BY DEF SentBy, ReceiptsOf, Latest
    <3> QED
      BY <3>2, <3>3
  <2>6. \A i \in DOMAIN done :
            /\ Done(done[i].results) \subseteq orders
            /\ done[i].recon = "matched" => SentBy(done[i].results) \subseteq orders
    BY <1>1 DEF RunIsTrue, done
  <2> HIDE DEF e, new
  <2>7. \A i \in DOMAIN new :
            /\ Done(new[i].results) \subseteq orders
            /\ new[i].recon = "matched" => SentBy(new[i].results) \subseteq orders
    BY <2>1, <2>2, <2>4, <2>5, <2>6
  <2> QED
    BY <2>3, <2>7 DEF RunIsTrue
<1> QED
  BY <1>5, <1>6, <1>7, <1>8, <1>9, <1>10

LEMMA EndR ==
    ASSUME Inv, TInv, RInv, NEW p \in Procs, Abandon(p) \/ Save(p)
    PROVE  RInv'
<1>1. Apart(p) /\ UNCHANGED <<settled, orders>> /\ Leave(p)
  BY EndT DEF Abandon, Save, ledgerVars, exchangeVars
<1>2. pc'[p] = "idle" /\ base'[p] = NoRun /\ results'[p] = NoResults
  BY <1>1 DEF Leave, Goto, Inv, TypeInv, TInv, CarriedTypes
<1>3. CarriedOK(p)'
  BY <1>2, EmptyRun DEF CarriedOK, LookedUpOK, LooksUp, Looking
<1>4. RunIsTrue(record', orders)
  BY SavedRunIsTrue DEF Abandon, Save, RInv
<1> QED
  BY <1>1, <1>3, <1>4, StepR DEF RInv

LEMMA RespondR ==
    ASSUME RInv, UNCHANGED <<settled, record, procVars>>, orders \subseteq orders'
    PROVE  RInv'
<1>1. ASSUME NEW p \in Procs PROVE CarriedOK(p)'
  <2>1. LookedUpOK(p)'
    BY DEF RInv, CarriedOK, LookedUpOK, LooksUp, Receipts, Current, procVars
  <2> QED
    BY <2>1 DEF RInv, CarriedOK, RunIsTrue, procVars
<1> QED
  BY <1>1 DEF RInv, RunIsTrue

LEMMA NextR == ASSUME NoLookalikes PROVE Inv /\ TInv /\ RInv /\ [Next]_vars => RInv'
<1> SUFFICES ASSUME Inv, TInv, RInv, [Next]_vars PROVE RInv'
  OBVIOUS
<1>1. CASE UNCHANGED vars \/ Respond
  <2>1. UNCHANGED <<settled, record, procVars>> /\ orders \subseteq orders'
    BY <1>1 DEF vars, procVars, ledgerVars, Respond, ExchangeAccepts, ExchangeRejects
  <2> QED
    BY <2>1, RespondR
<1>2. ASSUME NEW p \in Procs,
             Apply(p) \/ Preview(p) \/ Retry(p) \/ Reconcile(p) \/ Abandon(p) \/ Progress(p)
      PROVE  RInv'
  BY <1>2, StartR, EndR, GateR, ClaimR, SendR, AnswerR, MarkR, FinishR, QueryR, SettleR, AgainR
     DEF Progress
<1> QED
  BY <1>1, <1>2 DEF Next, CalmNext

\* ReceiptsHold: when no other order on the account fits the instrument, side and size
\* of a write, then whatever fails, times out, is hidden or dies, a write that a
\* command or the saved run counts as done has its order at the exchange, and a
\* receipt marked "matched" has orders for all the writes it sent.
THEOREM ReceiptsHold == NoLookalikes => (Spec => []ReceiptsAreTrue)
<1> SUFFICES ASSUME NoLookalikes PROVE Spec => []ReceiptsAreTrue
  OBVIOUS
<1>1. RInv => ReceiptsAreTrue
  BY DEF RInv, CarriedOK, RunIsTrue, ReceiptsAreTrue
<1>2. Inv /\ TInv /\ RInv /\ [Next]_vars => RInv'
  BY NextR
<1> QED
  BY <1>1, <1>2, InitT, InitR, NextT, Invariance, PTL DEF Spec
\* HitsHold: under the same condition the ledger skips no write as a duplicate that
\* was not placed; that an order of a stranger fits is the only way it can.
THEOREM HitsHold == NoLookalikes => (Spec => []HitsAreDuplicates)
<1> SUFFICES ASSUME NoLookalikes PROVE Spec => []HitsAreDuplicates
  OBVIOUS
<1>1. RInv => HitsAreDuplicates
  BY DEF RInv, CarriedOK, Done, HitsAreDuplicates
<1>2. Inv /\ TInv /\ RInv /\ [Next]_vars => RInv'
  BY NextR
<1> QED
  BY <1>1, <1>2, InitT, InitR, NextT, Invariance, PTL DEF Spec

-----------------------------------------------------------------------------
(* The ledger.                                                             *)

LEMMA OutcomeIsMark ==
    ASSUME NEW f \in Fingerprints, NEW kind \in {"executed", "ambiguous"}, RecordOutcome(f, kind)
    PROVE  [ANext]_aVars
  BY DEF RecordOutcome, ANext, aVars

\* The write path changes the table only in the ways that WriteIntentLedger allows.
LEMMA StepKeepsToLedger == [Next]_vars => [ANext]_aVars
<1> SUFFICES ASSUME [Next]_vars PROVE [ANext]_aVars
  OBVIOUS
<1>1. ASSUME UNCHANGED <<entries, claims>> PROVE [ANext]_aVars
  BY <1>1 DEF aVars
<1>2. CASE UNCHANGED vars
  BY <1>1, <1>2 DEF vars
<1>3. CASE Respond
  BY <1>1, <1>3 DEF Respond, ExchangeAccepts, ExchangeRejects, ledgerVars
<1>4. ASSUME NEW p \in Procs, Apply(p) \/ Preview(p) \/ Retry(p) \/ Reconcile(p) \/ Abandon(p)
      PROVE  [ANext]_aVars
  BY <1>1, <1>4 DEF Apply, Preview, Retry, Reconcile, Start, Abandon, ledgerVars
<1>5. ASSUME NEW p \in Procs, Progress(p) PROVE [ANext]_aVars
  <2>1. CASE GatePasses(p) \/ GateBlocks(p) \/ Finish(p) \/ SettleAgain(p) \/ EndQueries(p) \/ Save(p)
    BY <1>1, <2>1 DEF GatePasses, GateBlocks, Finish, SettleAgain, EndQueries, Save, ledgerVars
  <2>2. ASSUME NEW f \in Fingerprints, ClaimRecorded(p, f) \/ ClaimGranted(p, f)
        PROVE  [ANext]_aVars
    BY <2>2 DEF ClaimRecorded, ClaimGranted, ANext
  <2>3. ASSUME NEW f \in Fingerprints, ClaimHit(p, f) \/ ClaimRefused(p, f) \/ Query(p, f)
        PROVE  [ANext]_aVars
    BY <1>1, <2>3 DEF ClaimHit, ClaimRefused, Query, ledgerVars
  <2>4. ASSUME NEW f \in Fingerprints, Mark(p, f) \/ Settle(p, f) PROVE [ANext]_aVars
    <3>1. \/ UNCHANGED ledgerVars
          \/ \E kind \in {"executed", "ambiguous"} : RecordOutcome(f, kind)
      BY <2>4 DEF Mark, Settle
    <3> QED
      BY <1>1, <3>1, OutcomeIsMark DEF ledgerVars
  <2>5. ASSUME NEW x \in Intents,
               Send(p, x) \/ Succeeds(p, x) \/ FailsRetryable(p, x) \/ Fails(p, x)
        PROVE  [ANext]_aVars
    BY <1>1, <2>5 DEF Send, Succeeds, FailsRetryable, Fails, ledgerVars
  <2> QED
    BY <1>5, <2>1, <2>2, <2>3, <2>4, <2>5 DEF Progress
<1> QED
  BY <1>2, <1>3, <1>4, <1>5 DEF Next, CalmNext

\* Whatever the commands do, and wherever they die, what they do to the table is what
\* WriteIntentLedger promises and the files of IdempotencyLedger are proved to
\* implement: the two halves of the project meet at the same table.
THEOREM KeepsToLedger == Spec => ASpec
<1>1. Init => AInit
  BY DEF Init
<1> QED
  BY <1>1, StepKeepsToLedger, PTL DEF Spec, ASpec
================================================================================
