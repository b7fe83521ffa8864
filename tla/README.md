# Skills-Mesh in TLA+

TLA+ specifications of the `trademesh` runtime (Skills-Mesh), the TLC
configurations that check them on small instances, and TLAPS proofs of what
matters most for instances of any size.

Paths below are relative to the repository.

## 1. The system

`trademesh` is a command line. Every command is a process of its own; what
processes share is on disk (`runs`, `.trademesh/runs`, `.trademesh/exports`, the
idempotency ledger) or at the exchange.

| Component | Source | State it keeps | Operations |
|---|---|---|---|
| Write-intent ledger | `runtime/idempotency.ts` | lock file, journal, snapshot | claim, mark executed, mark ambiguous, check, load, compact |
| Write execution | `runtime/executor.ts` (`applyRun`, `retryRun`, `reconcileRun`, `replayRun`, `executeApplyWithIdempotency`, `executeWithRecovery`) | the run as loaded; the receipts gathered so far | apply, dry run, retry, reconcile, replay |
| History matching | `runtime/reconciliation.ts`, `skills/receipt-verifier`, `skills/reconcile-engine` | none | match by client order id, by fallback window |
| OKX REST client | `runtime/okx.ts` | none | `executeIntent`, `runOkxJson`, probes |
| Apply decision | `runtime/policy.ts`, `approval-gate`, `live-guard`, `official-executor`, `applyRun`, `rehearseDemo` | decision, ticket and bundle artifacts | evaluate policy, issue ticket, guard live writes, make the bundle, rehearse |
| Run store | `runtime/trace.ts`, `runtime/artifacts.ts`, `skills/replay`, `exportRun` | five files per run, a bundle per export | save, load, list, replay, export |
| Skill routing and planning graph | `runtime/router.ts`, `graph-runtime.ts`, `registry.ts`, `createPlan`, `runSkillStandalone` | artifact store, route, skipped steps | choose the next skill, pass over a step, throw, save |
| Mesh prover | `skills/mesh-prover` | the route proof | minimality, resume points |
| DAG compiler, safety verifier | `runtime/dag-compiler.ts`, `safety-verifier.ts` | none | compile skills to levels, check six invariants |
| Merkle DAG | `runtime/merkle-dag.ts` | nodes by artifact, chain digest | build, verify, prove one artifact |
| Contracts, digests | `contracts.ts`, `manifest-digest.ts`, `artifact-schema.ts` | none | check the shape of JSON values |
| Doctor and probes | `runtime/doctor.ts`, probe skills | none | read-only diagnostics |
| Goal intake, analysis skills, CLI | `goal-intake.ts`, `skills/*`, `bin/trademesh.ts` | none | parsing, arithmetic, printing |

How they interact: `apply` loads the run, evaluates policy, approval and live
guard, runs the idempotency gate (an unlocked read of the ledger), then walks
the execution bundle: each write intent is claimed in the ledger under the lock
file, sent to the exchange, and marked executed or ambiguous. With
`--verify-receipt` the writes that were sent are looked up in the order history
instead. `reconcile` looks up the writes of the latest execution record and
marks them; `retry` replays failed reads. Each command saves the whole run at
its end.

Before all that, `plan` runs the skills a goal brings in, each when the
artifacts it consumes are in the store, and saves run and artifacts with a
proof of the route; `skills run` takes one skill's declared route instead, from
nothing, from the artifacts of a run or from an exported bundle. Compiler,
safety verifier and Merkle chain are libraries that no command calls.

What is hard: several processes on one ledger; a process killed between any two
system calls; a lock file that outlives its owner; a journal line torn by a
crash; a request whose answer never comes; an order history that lags or shows
somebody else's order; two commands that load the same run and both save it; a
run whose files a crash has torn; skills that choose their successors at run
time.
What makes the whole correct is that a write is submitted at most once, in
order, never forgotten, and settled in the end. `PROJECT.json` lists each hazard
at its line with the properties aimed at it.

## 2. The modules

| Module | What it models |
|---|---|
| `WriteIntentLedger` | the abstract ledger: one table, one grant per fingerprint |
| `LedgerReplay` | pure: what an event, and a journal over a snapshot, make of a ledger |
| `LedgerReplay_proofs` | its theorem and the lemmas about replay that the ledger's proofs use |
| `IdempotencyLedger` | `runtime/idempotency.ts`, system call by system call |
| `IdempotencyLedger_proofs` | its theorems |
| `WriteExecution` | the write path of `executor.ts`, over `WriteIntentLedger` |
| `WriteExecution_proofs` | its theorems |
| `ApplyDecision` | who may write: `applyRun` and `rehearseDemo` from their options to the saved run, and what `retryRun`, `reconcileRun` and `replayRun` make of that run |
| `ApplyDecision_proofs` | its theorems |
| `SkillGraph` | skills, and what the runtime decides from their manifests: routing, explicit routes, route proofs |
| `SkillRegistry` | the 21 skills of `skills/`, as a constant |
| `SkillRuns` | `plan`, `skills run`, `replay` and `export` over the files of the run store |
| `SkillRuns_proofs` | its theorems |
| `DagCompiler`, `SafetyVerifier` | pure: levels, cycles and critical path of a registry; the six checks over one |
| `MerkleDag` | pure: artifacts chained by hash, and the two ways to check them |
| `DagCompiler_proofs`, `MerkleDag_proofs` | theorems about what these compute, for any input |
| `MCAlgorithms_proofs` | that what `algorithms` checks holds of every input |
| `MCIdempotencyLedger`, `MCWriteExecution`, `MCApplyDecision`, `MCSkillRuns`, `MCAlgorithms` | instances for TLC |

The layers meet at `WriteIntentLedger`: `IdempotencyLedger` implements it
(`Implements`, checked and proved) and `WriteExecution` extends it, using
`ARecord`, `AGrant` and `AMark` for what its calls into the ledger do.
`WriteExecution` begins where `ApplyDecision` has approved; `ApplyDecision`
keeps of it that an apply gets some writes of its bundle claimed and sent, each
at most once.

### IdempotencyLedger

State: `lock` (is there a file, who made it, is it past `LOCK_STALE_MS`),
`snapshot`, `journal` (the lines that parse) and `tail` (how the file ends:
`clean`, `whole` if only the newline is missing, `partial`). Per process: the
stage `pc` of `withLedgerMutation` it is at, the call it serves, its attempts
at the lock, the ledger it loaded. One action per system call or per
decision between two awaits, because other processes run in between:
`CreateLock`, `LockBusy`, `StatLock`, `UnlinkStale`, `GiveUp`, `ReadSnapshot`,
`ReadJournal`, `Refuse`, `AppendEvent`, `WriteSnapshot`, `TruncateJournal`,
`ReleaseLock`. `Crash` kills a process at any stage; `LeakLock`, `UnreadSnapshot`,
`UnreadJournal`, `AppendFails`, `CompactionFails` are failing system calls, at
most `MaxFaults`. The two reads fail differently: `loadStateFromDisk` takes a
snapshot it cannot read or parse for an empty one and goes on, and throws on a
journal it cannot read. `AgeLock` lets 120 seconds pass. `BeginPeek`/`EndPeek` are the readers, which take no lock.

`stolen`, `glued` and `misread` are history: a lock file was unlinked under a
live holder; an event was appended to an unterminated line; a mutation took a
snapshot with entries in it for an empty one. They mark the three conditions
under which the ledger's promises fail (section 4), and the promises are stated for `Undisturbed` ledgers, in which
none of them has happened. They are not assumptions about the environment only:
`UnlinkStale`, `Crash` and `UnreadSnapshot` bring them about.

Abstracted: the fields of an entry other than status; `seq`, which no decision
reads; file creation; the byte threshold of compaction (the event threshold
stands for both). Compaction happens between any event when `CompactAfter` is 0
or 1: the code's 2000 differs only in how often.

### WriteExecution

State: the ledger table; `inflight` and `orders` (the exchange); `record`, the
run on disk; per process the command, the run as loaded (`base`), the intents
it has still to handle (`work`, handled in the order of `Position`), and how
each ended (`results`). `sent` and `settled` are history: calls of
`executeIntent` per write; writes answered ok or recorded as executed.

Actions follow `executeApplyWithIdempotency`: `ClaimRecorded` and
`ClaimGranted` are one claim, in two steps because the process may die between
the durable event and the answer; `ClaimHit`, `ClaimRefused` (which includes
`IdempotencyLockError`); `Send`; `Succeeds`, `FailsRetryable`, `Fails`; `Mark`,
which may be lost when the ledger is locked; then `Finish`. `Query`, `Settle`,
`SettleAgain` are the receipt verifier and the reconcile loop. `Save` writes
the loaded run with the command's changes over what is on disk. `Abandon` is a
command that throws or is killed; it may be run again.

The exchange is as good as `Exchange` says: `perfect` accepts, `honest` may
reject, `slow` may do either after the client stopped waiting, `flaky` may also
hide any part of its history or fail to be queried. Its
answers are taken to be JSON. `Routed` is the set of intents whose command
`argsToEndpoint` maps to a request. **At this commit that is no write**: every
execute of a write fails and leaves an ambiguous entry. The runs route the
writes, as the code around that table, its tests and its documentation intend,
so that what the rest of the write path guarantees can be told apart from that
gap. The theorems hold for
every `Routed`, the present one included.
`Tagged` are the writes whose command carries `--clOrdId`: swaps do, options
do not. `Strangers` and `Lookalikes` give the orders of others and what the
fallback match takes for a write.

The gate reads without the lock and may miss entries, so
`GatePasses` has no guard on the ledger; the claim behind it does not miss.

Abstracted: the decision before the gate (an `Apply` is an approved one; see
`ApplyDecision`), trace and artifacts, messages. An intent that failed twice is retried once here and
twice by `retryRun`; it is a read, so nothing differs. No second proposal or
run shares a fingerprint here: fingerprints cover run-independent fields, and
several processes applying one proposal meet in the ledger the same way.

### ApplyDecision

State: the two files of a run that decide about later commands, `run` (its
plane, status, selected proposal, decision and execution records) and
`artifacts` (the approval ticket and the execution bundle), saved one after the
other; the writes the ledger knows (`claimed`); and per process its options,
the run and artifacts it loaded, the `setting` policy found and the decision so
far. `sent` is history.

`Policy` is `evaluatePolicy` with its early returns in their order: `Hopeless`
(no intents, research, restricted), `Unapproved` (cooldown first, the missing
`--approve` last), `Barred` (limits, scenario breaches, missing credentials).
The rules, the environment, the thesis and the account are a `setting`, chosen
anew at every evaluation, since any of them may have changed. `StartApply`,
`Evaluate` and `Gate` are `applyRun` up to the bundle: the ticket an apply goes
by is its own, or else the one it loaded (`TicketAfter`), and `Authorised` lets
the live guard replace the missing approval, and that the policy's outcome.
`Skip`, `Preview` and `Submit` are the three ways on, `SaveRun` and
`SaveArtifacts` the end. `StartRehearsal` and `Rehearse` are `rehearseDemo`,
which makes a run of its own and executes without ledger, ticket or guard.

The commands that work on the records of a run save it too. `StartRetry` and
`Retry` are `retryRun`: it goes back to the latest unfinished record if reads of
it failed, repeats them, and appends a record under *that* record's plane and
proposal, without a ticket, while the run's own fields stay. `StartReport`,
`LoadArtifacts` and `SaveReconciled` are `reconcileRun`, which wants the last
record to be an execution and sets a blocked run to `executed` if everything
matched; `SaveReplayed` is `replayRun`. Both save the run and the artifacts as
they loaded them over what is there by then. `HasReads` says whether there are
reads that can fail, `Others` which of the three are in use.
`Abandon` is an exception or a kill between any two of them.

The doctor's probe is recent whenever the live guard looks, because an
executing live apply runs the doctor itself; what the probe found is not looked
at. `--max-order-usd` and `--max-total-usd` are compared with the policy's
limits only; no order is. Both are as in the code, so the caps bound the policy
an operator accepts and not the orders; the policy bounds the orders.

An order with neither target nor size and price has `Notional` 0 and escapes
the checks of symbol and size, as it does in `parseOrderSlices*`.

Abstracted: reasons, trace, reports, the wallet; of the reads of a bundle, all but
whether one failed and may be retried; the loop over its writes, and what reconcile
finds of them. Run ids are taken to be free (`createRunId` draws one of
a thousand per second).

### SkillGraph, SkillRegistry and SkillRuns

An artifact is its key, a goal the set of trigger words in it, and a skill a
record: its manifest, and of its handler which keys it puts (`makes`, which may
be more than it declares), which skill it hands off to and whether it throws.
`SkillRegistry` gives that record for every installed skill; `SkillGraph` and
the theorems hold for any.

`SkillRuns` is one operator's commands, one after the other, with the process
dying anywhere. `plan` is `StartPlan`, a `PlanStep` or `PlanThrows` per skill in
the order `pickNextManifest` chooses (`IsNext`), and `PlanBlocked` or
`PlanMade` when nothing is ready. `skills run` is `StartSkill` over one of
`Sources`, then for every step of the declared route `RoutePasses` (run before,
or satisfied under `--skip-satisfied`), `RouteStep` or `RouteThrows`, and
`RouteLacking` or `RouteMade`. `Replay` and `Export` load a run and rewrite it.
Every file is written in two steps, `Truncate` and `Write`, as `fs.writeFile`
does: the first empties the file, so a `Crash` between them leaves it `torn` with
what it held gone, and the next command cannot read it. `held` is history, the
keys that a whole artifacts file of a run has ever had. `proof` is what `mesh.route-proof` says: what it calls redundant, and from
which steps it says a run can be resumed.

A run id is given out in order (`Fresh`), as its time stamp makes it; an id
whose command saved nothing is not told from one never given. "trace" stands
for three files that are written one after the other and read together. A
command that cannot load what it needs changes nothing and is left out. The
commands that write orders are not here: `approval.ticket` and what follows
from it never get into the store, so the two skills that look for an executed
record always throw.

### DagCompiler, SafetyVerifier and MerkleDag

Each is the code's algorithm as operators; `MCAlgorithms` states what it should
give. A registry is a function from names to manifests. The verifier and the
compiler each build the dependency graph for themselves, and differ: to the
verifier a skill that consumes what it produces precedes itself (`Parents`),
the compiler passes over that (`Predecessors`). `TopoLevels` keeps the indegree
counts of the code; `SearchStep` is one look of its depth-first search and
`FindCycle` as many of them as can be. Verifier and compiler
both reject the repository's own registry: the probes produce and consume `diagnostics.probes`.

sha256 is taken to be injective: a hash is the pair of what it covers, the
sorted list of input hashes a set. `computeChainedHash` joins the strings without
a separator, so the pair stands for the joined string only where all of them are
hashes, of 64 digits each: in nodes that were built and in what the checks
compute, and not in a proof path with other strings in it, of which nothing is
said. `Checked` are the fields of a chain that `verifyMerkleDag` compares; a
node's `artifactKey` and `producedBy` are not among them. `DerivedInputs` finds the inputs of a stored
node again by their hashes, as `verifyMerkleDag` has to. Where those close a
circle the code walks it and reports a mismatch; `Circular` stands for that.

## 3. The runs

| Run | Question | Bounds |
|---|---|---|
| `ledger_safety` | types; mutual exclusion; one claim per fingerprint; claims survive; readers invent nothing; the files implement the table | 2 processes, 1 fingerprint, 2 attempts, compaction after 1 event, 1 fault (of a read, a write or a compaction) |
| `ledger_liveness` | every call comes back | 2 processes, 2 attempts, compaction after every event, 1 fault |
| `exec_flaky` | one submission, legs in order, nothing unrecorded, receipts true | 2 processes, 2 writes, 1 record |
| `exec_commands` | one submission through apply, retry, dry run, replay and every reconcile source; every command ends | 1 process, 1 read, 1 write, 2 records, 2 attempts at settling |
| `exec_converges` | placed writes converge | 2 processes, 2 writes, slow exchange |
| `apply_safety` | orders licensed, live ones confirmed, verdicts only tighten, records accountable | 2 processes, 2 proposals with 3 orders, 2 settings, 3 apply and 4 rehearse options, retry, reconcile, replay, 2 records and one of a retry, `Overlap` |
| `skill_runs` | a plan runs what its goal warrants and nothing spins into one; resume points resume; redundant steps are useless; saved keys survive; commands end | all 21 skills, 3 goals, 3 skills run alone, 2 runs, 1 crash in a save, routes of up to 10 |
| `algorithms` | replay in closed form is the loop of the code; compiler, verifier and Merkle chain against their reference definitions; every change to a field of a stored chain that is compared is found, and no other | journals of 4 events over 2 fingerprints; 3 skills, 3 artifacts, each skill consuming at most 2 and producing at most 1, 4 sets of targets; chains of 3 artifacts |

Why the bounds are enough. A claim is disputed by two processes; a stolen
lock needs three (one dies with it, two clear it), which `ledger_stale_lock`
has. A torn line matters for the next append only; a compaction for the next
load only; of the snapshot one misread load is enough. The three goals of `skill_runs` are a hedge that brings in a skill of
its own, one that the probes block and one that spins; of the three skills one
has the longest route that can succeed, one cannot put what it declares, and one
reads other runs. Two runs are one to read and one to write.
The two processes of `apply_safety` run at the same time within `Overlap`: commands
that execute and began before the run had a record, and reconciles of its first
record. Beyond that commands follow one another, dying anywhere, which is enough for
what one leaves to the next: an execution on live, a dry run that moves the run to
demo, and a retry that goes back to the execution are its three records. No goal that ends
runs more than 7 skills, so `MaxRoute` cuts only what spins. Three skills and
three artifacts make every shape of a graph up to a triangle, with a skill that
feeds itself, one left over and one pruned; a chain of three has an inside.
`MaxExecutions` bounds the records of a *saved* run; a command that
is abandoned or overtaken adds none, so any number of applies still happens
within it. Two writes are what order needs. A crash is free, not counted, except while
`skill_runs` saves. The
theorems of section 5 lift the most important of these results to any bound.

`ledger_safety` runs `SafeSpec`, the executions in which no lock is stolen, no
line glued and no snapshot misread: beyond them its properties are true by their hypotheses, and
section 4 shows what happens there.

Deadlock is not checked where the system may stop: in the ledger runs every
process may have crashed; in `exec_commands` dry runs may use up
`MaxExecutions`; in `apply_safety` a rehearsal may die before it has saved its
run; in `skill_runs` a plan that spins stops at `MaxRoute`, and the last run may
be torn; an input of `algorithms` ends at its bound.

The options of `apply_safety` are those that could slip through: a full live
apply; an apply that names no plane and a blank approver, and so lives on the
plane and the ticket an earlier command left; a dry run on demo. Of
the two settings one refuses the recommended proposal and lets the other pass,
so that a bundle, ticket or decision that does not belong together shows.

Symmetry is used for safety properties only.

Fairness. `CallsReturn` assumes that a process inside a call is scheduled
(`WF(Run)`): not that it wins the lock, nor that anyone else moves.
`CommandsReturn` assumes the same (`WF(Progress)`) and that every request is
eventually dealt with (`WF(Respond)`): `executeIntent` aborts its fetch after
15 or 25 seconds, so a process never waits for the exchange longer than that.
`CommandsEnd` assumes `WF(Progress)` of the one process: its next step is always
its own. `PlacedWritesConverge` assumes what `CommandsReturn` does, that no process dies
(`CalmNext`), and that the operator runs `reconcile` again whenever that is
possible again and again (`SF(Reconcile)`), which is what the code's own next
action tells the operator to do; `Exchange` is `slow`, and only applies and
reconciles run: after a dry run `reconcileRun` refuses, because the latest
record is not an executed one, and a replay that loaded the run earlier saves it
over the receipt.

## 4. What the code does otherwise than it says

Each of these is a run that TLC must find violated; `PROJECT.json` quotes the
line that says otherwise.

| Run | What happens |
|---|---|
| `ledger_stale_lock` | Two processes see the same stale lock; the second one's `unlink` removes the fresh lock of the first. Both claim. |
| `ledger_torn_line` | A crash tears the last journal line; the next event is glued to it and both are dropped on load. The write is claimed again. |
| `exec_stranger` | The fallback match takes a foreign order for a rejected write, which the next apply then skips as executed. |
| `apply_rehearsed` | An executing rehearsal claims nothing; an apply of the rehearsed run sends the same write again. |

The first two make a write go out twice through the ledger, the last one around
it; `exec_stranger` makes one not go out at all.

More behaviours are in the models and no run is spent on them; each is a hazard
of `PROJECT.json`. A mutation whose read of the snapshot fails goes on with an empty
ledger: what was claimed before the last compaction can be claimed again, and the next
compaction puts the loss on disk. An apply that timed out marks ambiguous what a reconcile has
just marked executed. An unlocked reader can pair the old snapshot with the
truncated journal and miss an entry, which the claim under the lock catches. A
write the exchange rejected stays ambiguous, since reconcile finds no order and
changes nothing. `apply --verify-receipt` stopped by the ledger is saved with
reconciliation state `none`. The later of two overlapping saves drops the
other's execution record. After a dry run `reconcile` refuses. With a
blank `--approved-by` an executing demo apply can go by the ticket of an earlier
one. A `reconcile` may set a run to `executed` over a record that was blocked. Without
a balance the margin check is skipped. `argsToEndpoint` knows no
write command, so every execute of a write fails and leaves an ambiguous entry.

Of plans and runs: a goal with the word probe, doctor, readiness or rehearsal
makes a repeatable skill ready that stays ready, so its plan never ends
(`SpinningGoalsAreNeverPlanned`). One with market or account is planned to the
end and then thrown away, because the probes wait for one another. `replay`,
which calls itself read-only, replaces the run's route and route proof; among
the resume points of the new one, `operator-summarizer` throws without a ticket.
A goal with none of the words of `hedge-planner` throws or spins, since
`scenario-sim` both needs and declares proposals. Four skills that take only a
goal cannot be run alone by their declared routes although each "works
independently" (`README.md:75`): `approval-gate`, `live-guard`,
`idempotency-gate`, `operator-summarizer`. The README has workflows verified
before they run; nothing calls the verifier. In a stored Merkle chain the producer of
a node and the key inside it can be changed and the chain still verifies.

## 5. The proofs

All theorems hold for every value of the constants that the named assumptions
admit: `ConstantsAssumption`; `BundleAssumption`, `ExchangeAssumption`;
`RunAssumption`; `RegistryAssumption`, `RunsAssumption`; `PlaceAssumption` and
`OrderAssumption` (names and artifact keys have places in an order);
`ArtifactsAssumption` and `NamesAssumption` of the instance. TLC evaluates each.
Three hypotheses are added where they are needed and explained there:
`NoLookalikes`, `RoutesAreWhole` and `GuardsAreFed`.

`IdempotencyLedger_proofs`:

- `TypeCorrect`: `[]TypeOK`.
- `LockWorks`: `[]MutualExclusion`, from `OwnerInv`: whoever is inside a
  mutation made the lock file that is there.
- `AdmittedOnce`, `NeverForgotten`, `ReadersSound`: `[]AtMostOneClaim`,
  `[]ClaimsSurvive`, `[]ReadersInventNothing`, all of an undisturbed ledger: one
  in which no lock was stolen, no line glued, and no mutation took a snapshot it
  could not read for an empty one. Any other failing call is covered. None is
  inductive. `FilesInv`
  adds what a process between two system calls knows: the ledger in its memory
  agrees with the disk, a granted claim is on disk and not yet counted, and a
  snapshot written but whose journal is not yet truncated replays to the same
  ledger (`ReplayAgain`: replaying a journal over its own result changes
  nothing).
- `FilesImplementTable`: `SafeSpec => Implements`, with `entries <- OnDisk`, in
  executions without those three.
  Every step maps to a step of the table or to a stutter: `AppendEvent` to
  `ARecord` or `AMark`, `ReleaseLock` of a granted claim to `AGrant`,
  compaction and crashes to a stutter. `KeepsToLedger` of
  `WriteExecution_proofs` is the other side: the commands use the table in no
  other way (`Spec => ASpec`).

`WriteExecution_proofs`: `SubmittedAtMostOnce` (`[]SubmittedOnce`),
`NoLegOnAnUnsettledOne` (`[]LegsInOrder`), `EveryOrderRecorded`
(`[]NothingUnrecorded`). The invariant `Inv` says per write that requests never
outnumber grants nor grants one (`WriteOK`); per process that only an apply
claims and that retry has only reads left (`RoleOK`), that an apply that goes
on has only settled writes behind it (`PassedOK`), and what its place in the
loop tells of the write it is at (`HeadOK`); and that no two processes hold a
claim to the same write (`Unique`). `LegsInOrder` needs `PassedOK`, because a
process forgets what it passed as soon as it is done and `settled` does not.

`TypeCorrect` (`[]TypeOK`) is proved on top of it: what a command carries has
its type only while its role and place in the loop hold.
`ReceiptsHold` (`[]ReceiptsAreTrue`) and `HitsHold` (a write is skipped as a
duplicate only if it was placed) hold under `NoLookalikes`: the fallback match
takes no order of a stranger for one of the writes. `exec_stranger` shows that
they fail without it. The invariant `RInv` follows a receipt from the order that
makes it true to the run on disk: what is executed in the ledger was placed,
what a process has gathered or loaded is true, and a saved run mixes only such.

`ApplyDecision_proofs`: `TypeCorrect` (`[]TypeOK`), `OrdersAreLicensed`
(`SendsAreLicensed`), `LiveOrdersAreConfirmed` (`LiveSendsConfirmed`),
`VerdictsOnlyTighten` (`VerdictNeverLoosens`) and `RunsAreAccountable`
(`[]RecordsAccountable`). The first two action properties are about the state in
which an order is sent, so the invariant `Inv` has to carry what each process
was found to be at every stage before: an evaluated apply holds the verdict of
policy on its own options, plane and proposal; a ready command holds the bundle
of its chosen proposal whatever it loaded, and if it is still approved and
executes an apply it is `Cleared` (`ReadyOK`); a command about to save has a
ticket if it may have sent anything (`DoneOK`); and every record it inherited is
accountable. A retry, reconcile or replay carries a run that was accountable when it
was loaded, and what it changes keeps it so: that is why `RecordsAccountable` speaks
of the last record that is not a retry's for plane, proposal and decision, lets a
reconcile replace `blocked`, and asks of a retry where it goes back to. `SendStep` then says which steps send and what is known there. The
limits themselves stay opaque except in `OrdersAreLicensed`, so the argument
does not depend on what they are.

`SkillRuns_proofs`: `TypeCorrect` (`[]TypeOK`), `PlansAreWarranted`
(`[]PlanIsWarranted`), `SpinningIsNeverPlanned`
(`[]SpinningGoalsAreNeverPlanned`), `KeysSurvive`
(`[]SavedKeysSurvive`), all
for any registry. The invariant `Inv` adds to `TypeOK` what each stage knows: an
idle process holds nothing (`IdleOK`); only a skill run is routing (`SkillOK`); a
planning one has run only candidates whose inputs its store has, and its store
is what those make (`PlanningOK`); a plan being saved is warranted and does not
spin (`PlannedOK`); and a command that is about to save over a run's artifacts
still holds every key they ever had (`KeysOK`), which is where a torn file matters: a
crash inside the write loses the keys, and what `KeysSurvive` says is that whenever the
file is whole they are there. It says so of the commands of `SkillRuns`, one at a time;
apply, reconcile and rehearse save artifacts too.
That the route is the *least* closed set is two inclusions: whatever was run is
in every closed set, step by step, and once nothing is ready the route is a
closed set itself.

`ResumePointsHold` (`[]ResumePointsResume`) is true of some registries and false
of others, so it has the hypothesis `RoutesAreWhole`, three conditions on the
manifests alone; `skill_runs` evaluates them for the 21 installed skills. From
there to every run that is ever saved the argument is: a route goes as well from
more artifacts (`RouteGoesWithMore`), also when satisfied steps are skipped
(`ResumesWithMore`); what the steps of a run have left stays in the store until
it is saved; and a file that is whole holds every key it ever held (`KeysSurvive`), while
one that is torn is not loaded.

`RedundantStepsAreUseless` (`[]RedundantIsUseless`) needs one hypothesis more,
`GuardsAreFed`, about the manifests alone again and evaluated by the same run. The
prover reads a route backwards and counts the inputs of a step only when something
it produces is needed; guards, memory steps and steps that produce nothing it
keeps in any case, needed or not. One of those whose input only a redundant step
makes would stop the shorter route. `GuardsAreFed` says that a plan has none,
because its guards make targets, and that no declared route has one, whichever of
its steps `--skip-satisfied` passes over. The proof runs the shorter route
alongside the longer one (`LeanRoute`, `KeepsUp`): it lacks only what redundant
steps produce and nothing that the backward pass calls needed, so every kept step
finds its inputs. The longer run is history, so the invariant `Story` remembers
the store after each of its steps (`Ran`). Which steps can be passed over depends
on the store a run starts from, and any run or bundle may have left it:
`EarnedInv` says that whatever is in one was earned, its maker having found its
inputs and put all its keys. So a key brings others (`Implied`), and some steps are
passed over only together (`PassedTogether`); the sets of steps that are not so
closed need not be fed, and for five skills, `approval-gate` and
`official-executor` among them, would not be.

The steps that were passed over are dropped too, since the proof speaks of
executed steps only. They have to be: the runtime looks for the inputs of a step
before it asks whether to pass over it, and `skills run market-scan
--skip-satisfied` over the artifacts of a `market-probe` run passes over
`market-scan` itself, so that the portfolio step is rightly called redundant and
yet its output has to be there.

`LedgerReplay_proofs`: `ReplayFolds`, the closed form `Replay` that the ledger's
proofs use is the loop of the code, for a journal of any length, by induction
on its length.

`MerkleDag_proofs`, for any finite set of artifacts without circular inputs, with
sha256 injective:

- `TamperingSpreads`, `VerifiesUnchanged`: checked against other contents a
  chain is invalid at just the artifacts that differ and all made from them.
- `VerifiedIsBuilt`, `OneChainVerifies`: whatever was done to a stored chain, if
  it verifies it is, in every field that is compared (`Checked`), the chain
  `buildMerkleDag` makes of the contents it was verified against; two that verify
  and share the digest, or the nodes, agree in all of them. Who produced a node
  and the key inside it stay open. `AlteredIsFoundAlways` of `MCAlgorithms_proofs`
  turns this into what a change to a stored chain does: it is found exactly if it
  changes a compared field.
- `DigestBinds`: equal chain digests, equal contents and equal inputs.
- `NoForgedProof`, `ProofPathVerifies`: a path pieced together from nodes of built
  chains, that ends in a hash of a chain, proves no other content; the path that is
  handed out proves the right one.

`IsBuilt` says what a chain is without its recursion; `DagInduction` replaces
induction over it (a set that holds an artifact whenever it holds its inputs holds
all), and depths that rise along inputs bound what can be repeated.
`NoForgedProof` looks at the lowest step of a path that is not of the chain.

`DagCompiler_proofs`, for any finite registry:

- `CyclesAreFound`: the search closes a cycle of the graph, or none if the graph
  has none. Its invariant (`SearchOK`) is that the stack is a way through nodes
  not done and that what is done can be ranked so that edges go down; every look
  adds one to `Progressed`, which bounds their number.
- `KeptIsLeast`: pruning keeps the least set that holds what is wanted and all
  that goes into it; the rounds back grow until they stop, at most once per skill.
- `CompilesUnlessCircular`: a plan unless kept skills wait for each other in a
  circle, and then a cycle of at least two. The indegree counts are what a
  skill still waits for (`RoundOK`), so no round passes over a skill that is ready.
- `PlansAreTight`, `CriticalPathIsLongest`: each skill one level above the highest
  it waits for; the critical path takes one skill of every level and no chain is
  longer. `distance` of the code turns out to be the level (`DistanceIsDepth`).
- `VerifiedRegistriesRun`: what the safety verifier passes compiles and runs. The
  verifier's search excludes circles, of one skill too; its ancestors are placed
  on earlier levels, because those are closed under parents.

`MCAlgorithms_proofs` draws from these, with `InputsOK` as invariant, that each of
the eight properties of `algorithms` holds for any fingerprints, journals of any
length, any finite set of artifacts and any order of names.

Only model-checked: liveness (`CallsReturn`, `CommandsReturn`, `CommandsEnd`,
`PlacedWritesConverge`), which is out of the prover's reach. Every invariant and
every safety property of a passing run is proved.

## 6. Not modelled, and the plan

Next, in this order:

1. A registry that changes between two commands, with the manifest digests and
   contracts that are there to notice it. A bundle's digest proof is made from
   the registry at export, so drift since the run was made is not seen; a second
   registry in `SkillRuns` would show what `--allow-contract-drift` lets through.
2. Saves of `WriteExecution` and `ApplyDecision` file by file, as `SkillRuns` has
   them. Both save the run in one step now.
3. Outcomes of `Send` that are not JSON: the client takes a 200 without a body it
   can parse for a success.

Left out for good: request signing, the requests of probes and the doctor's
checks (pure I/O), goal parsing (regular expressions; a goal is the set of words
it contains, the Chinese ones left out), market arithmetic in floating point,
the content of summaries and reports, argument parsing. `skills certify` runs
the routes of portable skills over fixtures in memory and saves nothing; its
static part is `Certified`.
