---------------------------- MODULE WriteExecution ----------------------------
(***************************************************************************)
(* The write path of runtime/executor.ts over one approved proposal of one *)
(* run: apply, with --execute (and --verify-receipt) or as a dry run,      *)
(* retry, reconcile and replay, run by several CLI processes at once, with *)
(* the exchange at the other end.  The ledger is the atomic table of       *)
(* WriteIntentLedger, which the files of IdempotencyLedger implement.      *)
(*                                                                         *)
(* Abstracted: what a receipt says besides how it ended, the trace and the *)
(* artifacts saved with a run, and the policy and approval steps before    *)
(* the gate (an apply here is one they approved).                          *)
(***************************************************************************)
EXTENDS WriteIntentLedger, Naturals, Sequences

CONSTANTS
    Procs,          \* CLI processes; one that dies or throws may be run again
    Reads,          \* read intents of the proposal; its write intents are Fingerprints
    Position,       \* place of each intent in the execution bundle
    Routed,         \* intents whose command argsToEndpoint maps to a request
    Tagged,         \* writes whose order carries its client order id (swap, not option)
    Strangers,      \* orders on the account that this run did not place
    Lookalikes,     \* write -> orders its instrument, side and size fit
    Exchange,       \* "perfect", "honest" (may reject), "slow" (and may answer too late)
                    \* or "flaky" (and may hide orders and fail to be queried)
    Verifies,       \* the --verify-receipt settings in use
    Previews,       \* which of "dry-run" and "replay" the operator uses
    Sources,        \* the reconcile --source settings in use
    SettleAttempts, \* reconcile --max-attempts
    MaxExecutions   \* bound on execution records in a run

Intents == Reads \cup Fingerprints

ASSUME BundleAssumption ==
    /\ Reads \cap Fingerprints = {}
    /\ Position \in [Intents -> Nat]
    /\ \A x, y \in Intents : Position[x] = Position[y] => x = y

ASSUME ExchangeAssumption ==
    /\ Strangers \cap Fingerprints = {}
    /\ Lookalikes \in [Fingerprints -> SUBSET (Fingerprints \cup Strangers)]
    /\ Exchange \in {"perfect", "honest", "slow", "flaky"}
    /\ Verifies \subseteq BOOLEAN
    /\ Previews \subseteq {"dry-run", "replay"}
    /\ Sources \subseteq {"auto", "client-id", "fallback"}
    /\ SettleAttempts \in Nat \ {0}
    /\ MaxExecutions \in Nat

VARIABLES
    inflight,  \* writes sent, not yet accepted or rejected
    orders,    \* writes the exchange holds an order for
    sent,      \* history: executeIntent calls per write
    settled,   \* history: writes answered ok or recorded executed
    record,    \* the run on disk: its status and its execution records
    pc,        \* what each process does next
    cmd,       \* the command each process runs
    base,      \* the run as its process loaded it
    work,      \* intents a process has still to handle
    tries,     \* attempts so far: at an intent, or at settling
    results,   \* how each handled intent ended
    refused,   \* ledger status that stopped an apply
    verdicts   \* history matches so far

procVars == <<pc, cmd, base, work, tries, results, refused, verdicts>>
vars == <<entries, claims, inflight, orders, sent, settled, record, procVars>>

Stages ==
    {"idle", "gate", "step", "claimed", "send", "sent", "markExecuted", "markAmbiguous",
     "query", "settleExecuted", "settleAmbiguous", "save"}
\* A recovered intent succeeded at its second attempt.
Outcomes == {"none", "ok", "recovered", "hit", "failed", "skipped"}
Reconciliations == {"none", "pending", "ambiguous", "matched", "failed"}
Execution == [results : [Intents -> Outcomes], recon : Reconciliations]
RunStatuses == {"ready", "dry_run", "executed", "failed", "blocked"}
Run == [status : RunStatuses, executions : Seq(Execution)]
NoCmd == [kind |-> "none"]
Commands ==
    [kind : {"apply"}, verify : Verifies] \cup [kind : {"dry-run", "retry", "replay"}]
        \cup [kind : {"reconcile"}, source : Sources]
NoResults == [x \in Intents |-> "none"]
NoRun == [status |-> "ready", executions |-> << >>]

Init ==
    /\ AInit
    /\ inflight = {} /\ orders = {}
    /\ sent = [f \in Fingerprints |-> 0]
    /\ settled = {}
    /\ record = NoRun
    /\ pc = [p \in Procs |-> "idle"]
    /\ cmd = [p \in Procs |-> NoCmd]
    /\ base = [p \in Procs |-> NoRun]
    /\ work = [p \in Procs |-> {}]
    /\ tries = [p \in Procs |-> 1]
    /\ results = [p \in Procs |-> NoResults]
    /\ refused = [p \in Procs |-> "none"]
    /\ verdicts = [p \in Procs |-> {}]

ledgerVars == <<entries, claims, settled>>
exchangeVars == <<inflight, orders, sent>>

Goto(p, stage) == pc' = [pc EXCEPT ![p] = stage]

Leave(p) ==
    /\ Goto(p, "idle")
    /\ cmd' = [cmd EXCEPT ![p] = NoCmd]
    /\ base' = [base EXCEPT ![p] = NoRun]
    /\ work' = [work EXCEPT ![p] = {}]
    /\ tries' = [tries EXCEPT ![p] = 1]
    /\ results' = [results EXCEPT ![p] = NoResults]
    /\ refused' = [refused EXCEPT ![p] = "none"]
    /\ verdicts' = [verdicts EXCEPT ![p] = {}]

\* x is the intent the loop of process p is at.
Current(p, x) == x \in work[p] /\ \A y \in work[p] : Position[x] <= Position[y]

\* x is done with; the loop goes on.
Advance(p, x, outcome) ==
    /\ results' = [results EXCEPT ![p][x] = outcome]
    /\ work' = [work EXCEPT ![p] = @ \ {x}]
    /\ tries' = [tries EXCEPT ![p] = 1]
    /\ Goto(p, "step")

\* The loop ends at x with outcome; the intents after it are skipped.
Abort(p, x, outcome) ==
    /\ results' = [results EXCEPT ![p] =
           [y \in Intents |-> IF y = x THEN outcome
                              ELSE IF y \in work[p] THEN "skipped" ELSE @[y]]]
    /\ work' = [work EXCEPT ![p] = {}]
    /\ tries' = [tries EXCEPT ![p] = 1]
    /\ Goto(p, "step")
-----------------------------------------------------------------------------
(* Starting a command: the run is loaded, and held until it is saved.      *)

Latest(executions) == executions[Len(executions)]

\* Applies and retries will add an execution record.
Start(p, command, todo) ==
    /\ pc[p] = "idle"
    /\ command.kind \notin {"reconcile", "replay"} => Len(record.executions) < MaxExecutions
    /\ cmd' = [cmd EXCEPT ![p] = command]
    /\ base' = [base EXCEPT ![p] = record]
    /\ work' = [work EXCEPT ![p] = todo]
    /\ UNCHANGED <<ledgerVars, exchangeVars, record, tries, results, refused, verdicts>>

Apply(p) ==
    /\ \E v \in Verifies : Start(p, [kind |-> "apply", verify |-> v], Intents)
    /\ Goto(p, "gate")

\* apply without --execute, and replay, send nothing and save the run.
Preview(p) ==
    /\ \E kind \in Previews : Start(p, [kind |-> kind], {})
    /\ Goto(p, "save")

\* Mutant: write intents are replayed too.
RetryableMutant(executions) ==
    {x \in Intents : \E i \in DOMAIN executions : executions[i].results[x] = "failed"}

\* The intents retryRun replays: those safe to retry of which some attempt, even
\* one that was made good, failed in the last execution with a failed result.
Retryable(executions) ==
    LET Wrong(i) == \E x \in Intents :
            executions[i].results[x] \in {"failed", "recovered", "skipped"}
    IN {x \in Reads : \E i \in DOMAIN executions :
            /\ Wrong(i) /\ \A j \in DOMAIN executions : Wrong(j) => j <= i
            /\ executions[i].results[x] \in {"failed", "recovered"}}

Retry(p) ==
    /\ Retryable(record.executions) # {}
    /\ Start(p, [kind |-> "retry"], Retryable(record.executions))
    /\ Goto(p, "step")

\* The record of an execution that was more than a dry run.
Executed(execution) == execution.results # NoResults

ReceiptsOf(execution) == {f \in Fingerprints : execution.results[f] # "none"}

Reconcile(p) ==
    /\ record.executions # << >> /\ Executed(Latest(record.executions))
    /\ \E s \in Sources :
           Start(p, [kind |-> "reconcile", source |-> s], ReceiptsOf(Latest(record.executions)))
    /\ Goto(p, "query")

\* The command throws, or its process is killed: nothing is saved.
Abandon(p) ==
    /\ pc[p] # "idle"
    /\ Leave(p)
    /\ UNCHANGED <<ledgerVars, exchangeVars, record>>
-----------------------------------------------------------------------------
(* executeApplyWithIdempotency and executeWithRecovery.                    *)

Unsettled == {f \in Fingerprints : entries[f] \in {"pending", "ambiguous"}}

\* The idempotency gate reads without the lock and may miss an entry that is
\* being compacted, so it may pass whatever the ledger holds.
GatePasses(p) ==
    /\ pc[p] = "gate"
    /\ Goto(p, "step")
    /\ UNCHANGED <<ledgerVars, exchangeVars, record, cmd, base, work, tries,
                   results, refused, verdicts>>

GateBlocks(p) ==
    /\ pc[p] = "gate"
    /\ Unsettled # {}
    /\ refused' = [refused EXCEPT ![p] = "pending"]
    /\ \E x \in work[p] : Abort(p, x, "skipped")
    /\ UNCHANGED <<ledgerVars, exchangeVars, record, cmd, base, verdicts>>

Claiming(p, f) == pc[p] = "step" /\ cmd[p].kind = "apply" /\ Current(p, f)

\* The claim is in the ledger.
ClaimRecorded(p, f) ==
    /\ Claiming(p, f)
    /\ ARecord(f)
    /\ Goto(p, "claimed")
    /\ UNCHANGED <<exchangeVars, settled, record, cmd, base, work, tries,
                   results, refused, verdicts>>

\* claimWriteIntentForExecution returns "claimed".
ClaimGranted(p, f) ==
    /\ pc[p] = "claimed" /\ Current(p, f)
    /\ AGrant(f)
    /\ Goto(p, "send")
    /\ UNCHANGED <<exchangeVars, settled, record, cmd, base, work, tries,
                   results, refused, verdicts>>

\* It returns executed_hit: the write is skipped and counts as done.
ClaimHit(p, f) ==
    /\ Claiming(p, f)
    /\ entries[f] = "executed"
    /\ Advance(p, f, "hit")
    /\ UNCHANGED <<ledgerVars, exchangeVars, record, cmd, base, refused, verdicts>>

\* Mutant: IdempotencyLockError is ignored, as it is when an outcome is marked.
ClaimRefusedMutant(p, f) ==
    /\ Claiming(p, f)
    /\ Goto(p, "send")
    /\ UNCHANGED <<ledgerVars, exchangeVars, record, cmd, base, work, tries,
                   results, refused, verdicts>>

\* Mutant: the status of a hit is kept like that of a refusal.
ClaimKeepsStatusMutant(p, f) ==
    /\ Claiming(p, f)
    /\ entries[f] # "none"
    /\ refused' = [refused EXCEPT ![p] = entries[f]]
    /\ Abort(p, f, "skipped")
    /\ UNCHANGED <<ledgerVars, exchangeVars, record, cmd, base, verdicts>>

\* It returns pending or ambiguous, or throws IdempotencyLockError, which is
\* handled as pending.
ClaimRefused(p, f) ==
    /\ Claiming(p, f)
    /\ \E status \in {"pending", "ambiguous"} :
           /\ status = entries[f] \/ status = "pending"
           /\ refused' = [refused EXCEPT ![p] = status]
    /\ Abort(p, f, "skipped")
    /\ UNCHANGED <<ledgerVars, exchangeVars, record, cmd, base, verdicts>>

\* executeIntent is called: for a write only under a claim, except that
\* executeWithRecovery, which retry calls, asks nobody.  A command
\* argsToEndpoint does not know sends nothing.
Send(p, x) ==
    /\ Current(p, x)
    /\ \/ pc[p] = "send"
       \/ pc[p] = "step" /\ (cmd[p].kind = "apply" => x \in Reads)
    /\ sent' = IF x \in Fingerprints THEN [sent EXCEPT ![x] = @ + 1] ELSE sent
    /\ inflight' = inflight \cup ({x} \cap Fingerprints \cap Routed)
    /\ Goto(p, "sent")
    /\ UNCHANGED <<ledgerVars, orders, record, cmd, base, work, tries,
                   results, refused, verdicts>>

\* The exchange gets to a request, perhaps after the client stopped waiting.
ExchangeAccepts(f) ==
    /\ f \in inflight
    /\ inflight' = inflight \ {f}
    /\ orders' = orders \cup {f}
    /\ UNCHANGED <<ledgerVars, sent, record, procVars>>

ExchangeRejects(f) ==
    /\ f \in inflight
    /\ Exchange # "perfect"
    /\ inflight' = inflight \ {f}
    /\ UNCHANGED <<ledgerVars, orders, sent, record, procVars>>

Finalizes(p, x) == x \in Fingerprints /\ cmd[p].kind = "apply"

Succeeds(p, x) ==
    /\ pc[p] = "sent" /\ Current(p, x)
    /\ x \in Routed /\ (x \in Fingerprints => x \in orders)
    /\ settled' = settled \cup ({x} \cap Fingerprints)
    /\ IF Finalizes(p, x) /\ ~cmd[p].verify
       THEN /\ Goto(p, "markExecuted")
            /\ results' = [results EXCEPT ![p][x] = "ok"]
            /\ UNCHANGED <<work, tries>>
       ELSE Advance(p, x, IF tries[p] = 1 THEN "ok" ELSE "recovered")
    /\ UNCHANGED <<entries, claims, exchangeVars, record, cmd, base, refused, verdicts>>

\* When executeIntent can come back without success.
MayFail(x) ==
    \/ x \notin Routed
    \/ Exchange \in {"slow", "flaky"}
    \/ x \in Fingerprints \ (inflight \cup orders)

\* Only intents that write nothing are safe to retry.
SafeToRetry(x) == x \in Reads

\* A failure that looks transient, of an intent that is safe to retry, is tried
\* once more after two seconds.
FailsRetryable(p, x) ==
    /\ pc[p] = "sent" /\ Current(p, x)
    /\ MayFail(x) /\ x \in Routed
    /\ SafeToRetry(x) /\ tries[p] = 1
    /\ tries' = [tries EXCEPT ![p] = 2]
    /\ Goto(p, "step")
    /\ UNCHANGED <<ledgerVars, exchangeVars, record, cmd, base, work,
                   results, refused, verdicts>>

Fails(p, x) ==
    /\ pc[p] = "sent" /\ Current(p, x)
    /\ MayFail(x)
    /\ IF Finalizes(p, x)
       THEN /\ Goto(p, "markAmbiguous")
            /\ results' = [results EXCEPT ![p][x] = "failed"]
            /\ UNCHANGED <<work, tries>>
       ELSE Abort(p, x, "failed")
    /\ UNCHANGED <<ledgerVars, exchangeVars, record, cmd, base, refused, verdicts>>

\* Mutant: only a pending entry can become executed.
RecordOutcomeMutant(f, kind) ==
    /\ IF entries[f] = "none" \/ (entries[f] = "ambiguous" /\ kind = "executed")
       THEN UNCHANGED <<entries, claims>> ELSE AMark(f, kind)
    /\ settled' = IF kind = "executed" /\ entries[f] # "none" THEN settled \cup {f} ELSE settled

\* markWriteIntentExecuted: null, and no change, for an unknown fingerprint.
RecordOutcome(f, kind) ==
    /\ IF entries[f] = "none" THEN UNCHANGED <<entries, claims>> ELSE AMark(f, kind)
    /\ settled' = IF kind = "executed" /\ entries[f] # "none" THEN settled \cup {f} ELSE settled

\* Mutant: the intents after a failed write are still executed.
MarkMutant(p, f) ==
    /\ pc[p] \in {"markExecuted", "markAmbiguous"} /\ Current(p, f)
    /\ RecordOutcome(f, IF pc[p] = "markExecuted" THEN "executed" ELSE "ambiguous")
    /\ Advance(p, f, results[p][f])
    /\ UNCHANGED <<exchangeVars, record, cmd, base, refused, verdicts>>

\* The outcome is recorded, unless the ledger is locked: that is ignored.
Mark(p, f) ==
    /\ pc[p] \in {"markExecuted", "markAmbiguous"} /\ Current(p, f)
    /\ \/ RecordOutcome(f, IF pc[p] = "markExecuted" THEN "executed" ELSE "ambiguous")
       \/ UNCHANGED ledgerVars
    /\ IF pc[p] = "markExecuted" THEN Advance(p, f, "ok") ELSE Abort(p, f, "failed")
    /\ UNCHANGED <<exchangeVars, record, cmd, base, refused, verdicts>>

\* The loop is over.  With --verify-receipt the writes that were sent are looked
\* up, otherwise the run is saved.
Finish(p) ==
    /\ pc[p] = "step" /\ work[p] = {}
    /\ IF cmd[p].kind = "apply" /\ cmd[p].verify
       THEN /\ Goto(p, "query")
            /\ work' = [work EXCEPT ![p] =
                   {f \in Fingerprints : results[p][f] \in {"ok", "failed"}}]
       ELSE Goto(p, "save") /\ UNCHANGED work
    /\ UNCHANGED <<ledgerVars, exchangeVars, record, cmd, base, tries,
                   results, refused, verdicts>>
-----------------------------------------------------------------------------
(* matchIntentAgainstHistory, and its callers receipt-verifier and         *)
(* reconcile-engine.                                                       *)

\* Rows of orders-history that can be seen: all, or with a flaky exchange any.
Histories == IF Exchange = "flaky" THEN SUBSET orders ELSE {orders}
QueryErrors == IF Exchange = "flaky" THEN {"error"} ELSE {}

\* Mutant: no row at all counts as one (rows.length <= 1).
ByRowsMutant(rows) ==
    IF \A row, other \in rows : row = other THEN "matched" ELSE "ambiguous"

ByRows(rows) ==
    IF rows = {} THEN "missing"
    ELSE IF \E row \in rows : rows = {row} THEN "matched" ELSE "ambiguous"

ByClientOrderRef(f) ==
    QueryErrors \cup {ByRows({f} \cap Tagged \cap seen) : seen \in Histories}

ByFallbackWindow(f) ==
    QueryErrors \cup {ByRows(Lookalikes[f] \cap (seen \cup Strangers)) : seen \in Histories}

\* What looking f up can say.
HistoryMatch(f, source) ==
    CASE source = "client-id" -> ByClientOrderRef(f)
      [] source = "fallback" -> ByFallbackWindow(f)
      [] OTHER ->
            (ByClientOrderRef(f) \cap {"matched", "ambiguous"})
            \cup (IF ByClientOrderRef(f) \subseteq {"matched", "ambiguous"}
                  THEN {} ELSE ByFallbackWindow(f))

SourceOf(p) == IF cmd[p].kind = "reconcile" THEN cmd[p].source ELSE "auto"

Query(p, f) ==
    /\ pc[p] = "query" /\ Current(p, f)
    /\ \E verdict \in HistoryMatch(f, SourceOf(p)) :
           /\ verdicts' = [verdicts EXCEPT ![p] = @ \cup {verdict}]
           /\ IF verdict \in {"matched", "ambiguous"}
              THEN /\ Goto(p, IF verdict = "matched" THEN "settleExecuted" ELSE "settleAmbiguous")
                   /\ UNCHANGED work
              ELSE /\ work' = [work EXCEPT ![p] = @ \ {f}]
                   /\ UNCHANGED pc
    /\ UNCHANGED <<ledgerVars, exchangeVars, record, cmd, base, tries, results, refused>>

\* Here a locked ledger throws.
Settle(p, f) ==
    /\ pc[p] \in {"settleExecuted", "settleAmbiguous"} /\ Current(p, f)
    /\ RecordOutcome(f, IF pc[p] = "settleExecuted" THEN "executed" ELSE "ambiguous")
    /\ work' = [work EXCEPT ![p] = @ \ {f}]
    /\ Goto(p, "query")
    /\ UNCHANGED <<exchangeVars, record, cmd, base, tries, results, refused, verdicts>>

\* Mutant: the attempt is not counted.
SettleAgainMutant(p) ==
    /\ pc[p] = "query" /\ work[p] = {}
    /\ cmd[p].kind = "reconcile"
    /\ ~(verdicts[p] \subseteq {"matched"})
    /\ work' = [work EXCEPT ![p] = ReceiptsOf(Latest(base[p].executions))]
    /\ verdicts' = [verdicts EXCEPT ![p] = {}]
    /\ UNCHANGED <<ledgerVars, exchangeVars, record, pc, cmd, base, tries, results, refused>>

\* reconcile --until-settled goes round again unless everything matched.
SettleAgain(p) ==
    /\ pc[p] = "query" /\ work[p] = {}
    /\ cmd[p].kind = "reconcile"
    /\ ~(verdicts[p] \subseteq {"matched"})
    /\ tries[p] < SettleAttempts
    /\ tries' = [tries EXCEPT ![p] = @ + 1]
    /\ work' = [work EXCEPT ![p] = ReceiptsOf(Latest(base[p].executions))]
    /\ verdicts' = [verdicts EXCEPT ![p] = {}]
    /\ UNCHANGED <<ledgerVars, exchangeVars, record, pc, cmd, base, results, refused>>

EndQueries(p) ==
    /\ pc[p] = "query" /\ work[p] = {}
    /\ Goto(p, "save")
    /\ UNCHANGED <<ledgerVars, exchangeVars, record, cmd, base, work, tries,
                   results, refused, verdicts>>
-----------------------------------------------------------------------------
(* What is saved.                                                          *)

\* receipt-verifier's status, as the execution's reconciliation state.
Verified(p) ==
    CASE verdicts[p] = {} -> "none"
      [] verdicts[p] = {"matched"} -> "matched"
      [] "ambiguous" \in verdicts[p] -> "ambiguous"
      [] "error" \in verdicts[p] -> "failed"
      [] OTHER -> "pending"

Reconciled(p) ==
    IF verdicts[p] \subseteq {"matched"} THEN "matched"
    ELSE IF "ambiguous" \in verdicts[p] THEN "ambiguous" ELSE "failed"

AllOk(p) == \A x \in Intents : results[p][x] \notin {"failed", "skipped"}

Applied(p) ==
    [results |-> results[p],
     recon |-> IF cmd[p].verify THEN Verified(p)
               ELSE IF refused[p] # "none" THEN refused[p]
               ELSE IF \A f \in Fingerprints : results[p][f] \in {"ok", "hit"} THEN "none"
               ELSE "pending"]

SavedRun(p) ==
    LET done == base[p].executions
        plain == IF AllOk(p) THEN "executed" ELSE "failed"
    IN CASE cmd[p].kind = "apply" ->
                [status |-> IF refused[p] # "none" THEN "blocked" ELSE plain,
                 executions |-> Append(done, Applied(p))]
         [] cmd[p].kind = "dry-run" ->
                [status |-> "dry_run",
                 executions |-> Append(done,
                     [results |-> NoResults, recon |-> "none"])]
         [] cmd[p].kind = "replay" -> base[p]
         [] cmd[p].kind = "retry" ->
                [status |-> plain,
                 executions |-> Append(done,
                     [results |-> results[p], recon |-> "none"])]
         [] OTHER ->
                [status |-> IF Reconciled(p) = "matched" /\ base[p].status = "blocked"
                            THEN "executed" ELSE base[p].status,
                 executions |-> [done EXCEPT ![Len(done)].recon = Reconciled(p)]]

\* saveRun writes the loaded run with the changes, over whatever is there.
Save(p) ==
    /\ pc[p] = "save"
    /\ record' = SavedRun(p)
    /\ Leave(p)
    /\ UNCHANGED <<ledgerVars, exchangeVars>>
-----------------------------------------------------------------------------
\* What a running command does.
Progress(p) ==
    \/ GatePasses(p) \/ GateBlocks(p) \/ Finish(p)
    \/ SettleAgain(p) \/ EndQueries(p) \/ Save(p)
    \/ \E f \in Fingerprints :
        \/ ClaimRecorded(p, f) \/ ClaimGranted(p, f) \/ ClaimHit(p, f) \/ ClaimRefused(p, f)
        \/ Mark(p, f) \/ Query(p, f) \/ Settle(p, f)
    \/ \E x \in Intents :
        Send(p, x) \/ Succeeds(p, x) \/ FailsRetryable(p, x) \/ Fails(p, x)

Respond == \E f \in Fingerprints : ExchangeAccepts(f) \/ ExchangeRejects(f)

CalmNext ==
    \/ Respond
    \/ \E p \in Procs :
        Apply(p) \/ Preview(p) \/ Retry(p) \/ Reconcile(p) \/ Progress(p)

Next == CalmNext \/ \E p \in Procs : Abandon(p)

Spec == Init /\ [][Next]_vars

Fairness == WF_vars(Respond) /\ \A p \in Procs : WF_vars(Progress(p))

FairSpec == Spec /\ Fairness

\* No process dies, and the operator reconciles again and again.
DiligentSpec ==
    Init /\ [][CalmNext]_vars /\ Fairness /\ \A p \in Procs : SF_vars(Reconcile(p))
-----------------------------------------------------------------------------
TypeOK ==
    /\ entries \in [Fingerprints -> Statuses]
    /\ claims \in [Fingerprints -> Nat]
    /\ inflight \subseteq Fingerprints /\ orders \subseteq Fingerprints
    /\ sent \in [Fingerprints -> Nat]
    /\ settled \subseteq Fingerprints
    /\ record \in Run
    /\ pc \in [Procs -> Stages]
    /\ cmd \in [Procs -> Commands \cup {NoCmd}]
    /\ base \in [Procs -> Run]
    /\ work \in [Procs -> SUBSET Intents]
    /\ tries \in [Procs -> Nat]
    /\ results \in [Procs -> [Intents -> Outcomes]]
    /\ refused \in [Procs -> {"none", "pending", "ambiguous"}]
    /\ verdicts \in [Procs -> SUBSET {"matched", "ambiguous", "missing", "error"}]

\* SubmittedOnce: over any applies, retries and reconciles, run at once, killed
\* anywhere and run again, executeIntent is called at most once for a write.
SubmittedOnce == \A f \in Fingerprints : sent[f] <= 1

\* LegsInOrder: a write is sent only after every write before it in the bundle
\* was answered ok or found at the exchange: no leg goes out on top of a failed
\* or an unknown one, whichever commands got that far.
LegsInOrder ==
    \A f, g \in Fingerprints :
        Position[f] < Position[g] /\ sent[g] > 0 => f \in settled

\* NothingUnrecorded: whatever the exchange holds, or may yet accept, is in the
\* ledger, so a crash between claim, request and receipt loses no write.
NothingUnrecorded == \A f \in inflight \cup orders : entries[f] # "none"

\* ReceiptsAreTrue: a write that a command, or the saved run, counts as done has
\* an order at the exchange, also when "done" was read off the ledger and the
\* ledger had it from a reconcile; and a receipt whose reconciliation state is
\* "matched" has orders for all the writes it sent.
Done(receipts) == {f \in Fingerprints : receipts[f] \in {"ok", "hit"}}
SentBy(receipts) == {f \in Fingerprints : receipts[f] \in {"ok", "hit", "failed"}}
ReceiptsAreTrue ==
    /\ \A p \in Procs : Done(results[p]) \subseteq orders
    /\ \A i \in DOMAIN record.executions :
        LET execution == record.executions[i]
        IN /\ Done(execution.results) \subseteq orders
           /\ execution.recon = "matched" => SentBy(execution.results) \subseteq orders

\* CommandsReturn: a command whose process keeps running ends, also when the
\* exchange never answers, the ledger refuses and nothing ever matches.
CommandsReturn == \A p \in Procs : pc[p] # "idle" ~> pc[p] = "idle"

\* PlacedWritesConverge: a write that reached the exchange and is pending or
\* ambiguous in the ledger becomes executed, if the operator keeps reconciling.
PlacedWritesConverge ==
    \A f \in Fingerprints : (f \in Unsettled /\ f \in orders) ~> entries[f] = "executed"
-----------------------------------------------------------------------------
\* HitsAreDuplicates (README.md:231, "duplicate writes are detected and skipped
\* before reaching the exchange"): what is skipped as a hit was placed before.
HitsAreDuplicates ==
    \A p \in Procs : \A f \in Fingerprints : results[p][f] = "hit" => f \in orders
================================================================================
