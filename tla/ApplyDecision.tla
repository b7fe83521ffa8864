---------------------------- MODULE ApplyDecision ----------------------------
(***************************************************************************)
(* Who may write: from the options of an apply to the orders of its        *)
(* bundle.  applyRun of runtime/executor.ts with the policy                *)
(* (runtime/policy.ts), the approval gate, the live guard and the official *)
(* executor it calls, and rehearseDemo, which has a write path of its own; *)
(* retryRun, reconcileRun and replayRun as far as they change that run.    *)
(* Several CLI processes work on one run; they share the run file and the  *)
(* artifacts file, which are saved one after the other, as loaded at the   *)
(* start of the command and changed by it.                                 *)
(*                                                                         *)
(* Abstracted: reasons and notes; of read intents, all but whether one     *)
(* failed and may be retried; what happens between the first and the last  *)
(* order of a bundle and what reconcile finds of them, which is            *)
(* WriteExecution: here an apply gets some of its writes claimed and sent. *)
(***************************************************************************)
EXTENDS Integers, Sequences, FiniteSets, FiniteSetsExt

CONSTANTS
    Procs,         \* CLI processes
    Proposals,     \* proposals of the run
    Recommended,   \* the one an apply without --proposal takes
    Legs,          \* orders that proposals are made of
    LegsOf,        \* the order plan of each proposal
    Notional,      \* what an order is worth; 0 if it has neither a target nor size and price
    Options,       \* the orders that buy or sell options
    Reducing,      \* the reduce-only orders
    Breaching,     \* proposals whose scenario matrix has a breach flag
    PlannedPlanes, \* planes on which the run may have been planned
    Settings,      \* what policy may find: rules, environment, thesis, account
    Applies,       \* apply options in use
    Rehearsals,    \* rehearse options in use
    HasReads,      \* bundles also have reads, which may fail and be retried
    Others,        \* which of retry, reconcile and replay are in use
    NoTicket, NoProposal,
    NoFile,        \* no artifacts, or none that an apply could evaluate
    MaxExecutions  \* bound on the execution records of a run, one more if it is a retry's

Planes == {"research", "demo", "live"}
Outcomes == {"approved", "require_approval", "blocked"}

ApplyOptions ==
    [cmd : {"apply"}, plane : {"same", "demo", "live"}, proposal : Proposals \cup {NoProposal},
     execute : BOOLEAN, approve : BOOLEAN, approver : {"none", "blank", "named"},
     confirm : BOOLEAN, maxOrder : Nat, maxTotal : Nat, verify : BOOLEAN]
RehearseOptions == [cmd : {"rehearse"}, execute : BOOLEAN, approve : BOOLEAN]
NoOptions == [cmd |-> "none"]

Setting ==
    [discipline : {"clear", "cooldown", "restricted"}, tradable : SUBSET Legs,
     single : Nat, total : Nat, premium : Nat, margin : Nat, exposure : Nat,
     gross : Nat, balanceKnown : BOOLEAN, available : Nat, crowded : BOOLEAN,
     credentials : BOOLEAN]

ASSUME RunAssumption ==
    /\ Recommended \in Proposals
    /\ LegsOf \in [Proposals -> SUBSET Legs]
    /\ Notional \in [Legs -> Nat]
    /\ NoProposal \notin Proposals
    /\ PlannedPlanes \subseteq Planes
    /\ Settings \subseteq Setting /\ Settings # {}
    /\ Applies \subseteq ApplyOptions
    /\ Rehearsals \subseteq RehearseOptions
    /\ HasReads \in BOOLEAN
    /\ Others \subseteq {"retry", "reconcile", "replay"}

Tickets == [proposal : Proposals, plane : Planes, outcome : Outcomes]
Artifacts == [ticket : Tickets \cup {NoTicket}, bundle : Proposals \cup {NoProposal}]
Execution ==
    [cmd : {"apply", "rehearse", "retry"}, execute : BOOLEAN, plane : Planes,
     proposal : Proposals, ticket : Tickets \cup {NoTicket},
     status : {"blocked", "approval_required", "dry_run", "executed", "failed"},
     retryable : BOOLEAN]  \* has a read that was tried, failed and is safe to retry
\* "absent": there is no such run; "taken": its id is in use, its file not yet written.
Run ==
    [plane : Planes,
     status : {"absent", "taken", "blocked", "approval_required", "dry_run", "executed", "failed"},
     selected : Proposals, decision : Outcomes, executions : Seq(Execution)]
NoRun ==
    [plane |-> "demo", status |-> "absent", selected |-> Recommended, decision |-> "blocked",
     executions |-> << >>]
\* What a process holds that has not evaluated policy.
AnySetting == CHOOSE s \in Settings : TRUE
NoArtifacts == [ticket |-> NoTicket, bundle |-> NoProposal]

\* Writes as the ledger tells them apart; the run is always the same.
Writes == [plane : Planes, proposal : Proposals, leg : Legs]

VARIABLES
    run,        \* <run>.json
    artifacts,  \* artifacts.json, NoFile if there is none
    claimed,    \* writes the ledger has an entry for
    sent,       \* history: how often each write was sent
    pc, options, base, art, setting, decision, status

procVars == <<pc, options, base, art, setting, decision, status>>
vars == <<run, artifacts, claimed, sent, procVars>>

-----------------------------------------------------------------------------
(* Policy.                                                                 *)

Total(S) == MapThenSumSet(LAMBDA x : Notional[x], S)

\* Symbols, sizes and account risk.  An order worth 0 is not looked at; without a
\* balance no margin is checked.
WithinLimits(legs, s) ==
    /\ \A x \in legs : Notional[x] > 0 => x \in s.tradable /\ Notional[x] <= s.single
    /\ Total(legs) <= s.total
    /\ Total(legs \cap Options) <= s.premium
    /\ s.balanceKnown =>
        12 * Total(legs \ Reducing) <= 100 * (IF s.available < s.margin THEN s.available ELSE s.margin)
    /\ s.gross + Total(legs) <= s.exposure
    /\ ~s.crowded

\* Refused before any limit is looked at.
Hopeless(plane, proposal, s) ==
    \/ LegsOf[proposal] = {}
    \/ plane = "research"
    \/ s.discipline = "restricted"

Barred(o, proposal, s) ==
    \/ ~WithinLimits(LegsOf[proposal], s)
    \/ proposal \in Breaching
    \/ o.execute /\ ~s.credentials

\* Cooldown comes before the limits, a missing --approve after them.
Unapproved(o, proposal, s) ==
    ~o.approve /\ (s.discipline = "cooldown" \/ ~Barred(o, proposal, s))

Policy(o, plane, proposal, s) ==
    IF Hopeless(plane, proposal, s) THEN "blocked"
    ELSE IF Unapproved(o, proposal, s) THEN "require_approval"
    ELSE IF Barred(o, proposal, s) THEN "blocked" ELSE "approved"

-----------------------------------------------------------------------------
(* Approval gate and live guard.                                           *)

Issues(o) == o.execute /\ o.approve /\ o.approver = "named"

\* The ticket an apply goes by: its own, or else the one the artifacts hold.
TicketAfter(o, plane, proposal, outcome, old) ==
    IF Issues(o) THEN [proposal |-> proposal, plane |-> plane, outcome |-> outcome] ELSE old

\* The caps are compared with the policy's limits, not with the orders.  applyRun has
\* just run the doctor, so its probe is recent; what the probe found is not looked at.
Confirmed(o, s) ==
    /\ o.approve /\ o.approver = "named" /\ o.confirm
    /\ o.maxOrder # 0 /\ o.maxOrder <= s.single
    /\ o.maxTotal # 0 /\ o.maxTotal <= s.total

\* As if the guard looked at --plane, and not at the plane that the run is on.
GuardBlocksExplicit(o, plane, s) == o.execute /\ o.plane = "live" /\ ~Confirmed(o, s)

GuardBlocks(o, plane, s) == o.execute /\ plane = "live" /\ ~Confirmed(o, s)

\* As if an issued ticket were the approval.
AuthorisedByTicket(o, plane, s, outcome, ticket) ==
    IF GuardBlocks(o, plane, s) THEN "blocked"
    ELSE IF Issues(o) THEN "approved"
    ELSE IF o.execute THEN "require_approval" ELSE outcome

\* A missing approval replaces whatever policy said; the guard replaces both.
Authorised(o, plane, s, outcome, ticket) ==
    IF GuardBlocks(o, plane, s) THEN "blocked"
    ELSE IF o.execute /\ (~o.approve \/ o.approver = "none" \/ ticket = NoTicket)
    THEN "require_approval" ELSE outcome

-----------------------------------------------------------------------------
PlanOptions == [cmd |-> "rehearse", execute |-> FALSE, approve |-> FALSE]
StatusOf(outcome) == IF outcome = "blocked" THEN "blocked" ELSE "approval_required"

\* createPlan evaluates policy without an approval, so a plan is never approved.
Planned(plane, s) ==
    LET outcome == Policy(PlanOptions, plane, Recommended, s)
    IN  [plane |-> plane, status |-> StatusOf(outcome), selected |-> Recommended,
         decision |-> outcome, executions |-> << >>]

\* A planned run, perhaps killed before its artifacts were saved, or none.
Init ==
    /\ \/ /\ run \in {Planned(plane, s) : plane \in PlannedPlanes, s \in Settings}
          /\ artifacts \in {NoArtifacts, NoFile}
       \/ run = NoRun /\ artifacts = NoFile
    /\ claimed = {}
    /\ sent = [f \in Writes |-> 0]
    /\ pc = [p \in Procs |-> "idle"]
    /\ options = [p \in Procs |-> NoOptions]
    /\ base = [p \in Procs |-> NoRun]
    /\ art = [p \in Procs |-> NoArtifacts]
    /\ setting = [p \in Procs |-> AnySetting]
    /\ decision = [p \in Procs |-> "blocked"]
    /\ status = [p \in Procs |-> "blocked"]

-----------------------------------------------------------------------------
Goto(p, stage) == pc' = [pc EXCEPT ![p] = stage]

Leave(p) ==
    /\ Goto(p, "idle")
    /\ options' = [options EXCEPT ![p] = NoOptions]
    /\ base' = [base EXCEPT ![p] = NoRun]
    /\ art' = [art EXCEPT ![p] = NoArtifacts]
    /\ setting' = [setting EXCEPT ![p] = AnySetting]
    /\ decision' = [decision EXCEPT ![p] = "blocked"]
    /\ status' = [status EXCEPT ![p] = "blocked"]

Rehearses(p) == options[p].cmd = "rehearse"

\* As if the plane of the run were not filled in.
TargetUnresolved(p) == IF Rehearses(p) THEN "demo" ELSE options[p].plane

Target(p) ==
    IF Rehearses(p) THEN "demo"
    ELSE IF options[p].plane = "same" THEN base[p].plane ELSE options[p].plane

Chosen(p) ==
    IF Rehearses(p) \/ options[p].proposal = NoProposal THEN Recommended ELSE options[p].proposal

\* The writes of the bundle in the artifacts of p.
BundleOf(p) ==
    IF art[p].bundle = NoProposal THEN {}
    ELSE [plane : {Target(p)}, proposal : {art[p].bundle}, leg : LegsOf[art[p].bundle]]

\* A command on an existing run loads it.
Load(p, stage) ==
    /\ pc[p] = "idle" /\ run.status \notin {"absent", "taken"}
    /\ base' = [base EXCEPT ![p] = run]
    /\ Goto(p, stage)
    /\ UNCHANGED <<run, artifacts, claimed, sent, art, setting, decision, status>>

\* applyRun: --verify-receipt needs --execute and is refused on live.
StartApply(p) ==
    /\ Load(p, "loaded")
    /\ \E o \in Applies :
        /\ o.verify => o.execute /\ (IF o.plane = "same" THEN run.plane ELSE o.plane) # "live"
        /\ options' = [options EXCEPT ![p] = o]

\* It loads the artifacts and evaluates policy on them.
Evaluate(p) ==
    /\ pc[p] = "loaded" /\ artifacts # NoFile
    /\ art' = [art EXCEPT ![p] = artifacts]
    /\ \E s \in Settings :
        /\ setting' = [setting EXCEPT ![p] = s]
        /\ decision' = [decision EXCEPT ![p] = Policy(options[p], Target(p), Chosen(p), s)]
    /\ Goto(p, "evaluated")
    /\ UNCHANGED <<run, artifacts, claimed, sent, options, base, status>>

\* The ledger has an entry for a write of p's proposal (idempotency-gate).
Looked(p) == \E f \in claimed : f.plane = Target(p) /\ f.proposal = Chosen(p)

\* As if official-executor kept the bundle it finds in the artifacts.
GateKeepingBundle(p) ==
    /\ pc[p] = "evaluated"
    /\ LET ticket == TicketAfter(options[p], Target(p), Chosen(p), decision[p], art[p].ticket)
           bundle == IF art[p].bundle = NoProposal THEN Chosen(p) ELSE art[p].bundle
       IN  /\ art' = [art EXCEPT ![p] = [ticket |-> ticket, bundle |-> bundle]]
           /\ decision' = [decision EXCEPT ![p] =
                             Authorised(options[p], Target(p), setting[p], decision[p], ticket)]
    /\ Goto(p, "ready")
    /\ UNCHANGED <<run, artifacts, claimed, sent, options, base, setting, status>>

\* The skills between policy and execution: approval-gate, live-guard, official-executor,
\* which makes the bundle anew, and idempotency-gate, which may find an unsettled entry.
Gate(p) ==
    /\ pc[p] = "evaluated"
    /\ LET ticket == TicketAfter(options[p], Target(p), Chosen(p), decision[p], art[p].ticket)
           outcome == Authorised(options[p], Target(p), setting[p], decision[p], ticket)
       IN  /\ art' = [art EXCEPT ![p] = [ticket |-> ticket, bundle |-> Chosen(p)]]
           /\ \/ decision' = [decision EXCEPT ![p] = outcome]
              \/ /\ outcome = "approved" /\ options[p].execute /\ Looked(p)
                 /\ decision' = [decision EXCEPT ![p] = "blocked"]
    /\ Goto(p, "ready")
    /\ UNCHANGED <<run, artifacts, claimed, sent, options, base, setting, status>>

\* rehearseDemo makes a run of its own, with the bundle of the rehearsal's proposal, and
\* evaluates policy; there is no approval gate, no live guard and no idempotency gate.
StartRehearsal(p) ==
    /\ pc[p] = "idle" /\ run.status = "absent"
    /\ run' = [run EXCEPT !.status = "taken"]
    /\ art' = [art EXCEPT ![p].bundle = Recommended]
    /\ \E o \in Rehearsals, s \in Settings :
        /\ s.credentials
        /\ options' = [options EXCEPT ![p] = o]
        /\ setting' = [setting EXCEPT ![p] = s]
        /\ decision' = [decision EXCEPT ![p] = Policy(o, "demo", Recommended, s)]
    /\ Goto(p, "ready")
    /\ UNCHANGED <<artifacts, claimed, sent, base, status>>

-----------------------------------------------------------------------------
\* p's execution ends; what policy found is no longer needed.
Ended(p, outcome) ==
    /\ status' = [status EXCEPT ![p] = outcome]
    /\ setting' = [setting EXCEPT ![p] = AnySetting]
    /\ Goto(p, "saveRun")
    /\ UNCHANGED <<run, artifacts, options, base, art, decision>>

Skip(p) ==
    /\ pc[p] = "ready" /\ decision[p] # "approved"
    /\ Ended(p, StatusOf(decision[p]))
    /\ UNCHANGED <<claimed, sent>>

Preview(p) ==
    /\ pc[p] = "ready" /\ decision[p] = "approved" /\ ~options[p].execute
    /\ Ended(p, "dry_run")
    /\ UNCHANGED <<claimed, sent>>

Send(fs) == sent' = [f \in Writes |-> IF f \in fs THEN sent[f] + 1 ELSE sent[f]]

\* An apply claims what it sends; writes that have an entry are skipped, or stop it.
Submit(p) ==
    /\ pc[p] = "ready" /\ decision[p] = "approved" /\ options[p].execute /\ ~Rehearses(p)
    /\ \E fs \in SUBSET (BundleOf(p) \ claimed), outcome \in {"executed", "failed", "blocked"} :
        /\ Send(fs)
        /\ claimed' = claimed \cup fs
        /\ outcome = "executed" => BundleOf(p) \subseteq claimed'
        /\ outcome = "blocked" => fs # BundleOf(p)
        /\ Ended(p, outcome)

\* A rehearsal runs its bundle through executeWithRecovery, which claims nothing.
Rehearse(p) ==
    /\ pc[p] = "ready" /\ decision[p] = "approved" /\ options[p].execute /\ Rehearses(p)
    /\ \E fs \in SUBSET BundleOf(p), outcome \in {"executed", "failed"} :
        /\ Send(fs)
        /\ outcome = "executed" => fs = BundleOf(p)
        /\ Ended(p, outcome)
    /\ UNCHANGED claimed

RecordOf(p, retryable) ==
    [cmd |-> options[p].cmd, execute |-> options[p].execute, plane |-> Target(p),
     proposal |-> Chosen(p), ticket |-> art[p].ticket, status |-> status[p],
     retryable |-> retryable]

\* saveRun writes the run as loaded, changed by this command, over what is there.
SaveRun(p) ==
    /\ pc[p] = "saveRun" /\ Len(base[p].executions) < MaxExecutions
    /\ \E retryable \in {FALSE, HasReads /\ decision[p] = "approved" /\ options[p].execute} :
        run' = [plane |-> Target(p), status |-> status[p], selected |-> Chosen(p),
                decision |-> decision[p],
                executions |-> Append(base[p].executions, RecordOf(p, retryable))]
    /\ Goto(p, "saveArtifacts")
    /\ UNCHANGED <<artifacts, claimed, sent, options, base, art, setting, decision, status>>

SaveArtifacts(p) ==
    /\ pc[p] = "saveArtifacts"
    /\ artifacts' = art[p]
    /\ Leave(p)
    /\ UNCHANGED <<run, claimed, sent>>

-----------------------------------------------------------------------------
(* The commands that work on the records of a run and send no order.       *)

\* Some result of e is not ok; an execution that was refused has one for each order.
Unfinished(e) ==
    \/ e.status = "failed" \/ e.retryable
    \/ e.status \in {"blocked", "approval_required"} /\ LegsOf[e.proposal] # {}

\* The record retry takes: the latest unfinished one, if it has something to retry.
Retried(r) ==
    {i \in DOMAIN r.executions :
        /\ Unfinished(r.executions[i]) /\ r.executions[i].execute /\ r.executions[i].retryable
        /\ \A j \in DOMAIN r.executions : j > i => ~Unfinished(r.executions[j])}

StartRetry(p) ==
    /\ "retry" \in Others /\ Load(p, "retry") /\ Retried(run) # {}
    /\ UNCHANGED options

\* As if a retry were recorded under the plane that the run is on.
RetryOfRun(r, e, outcome, again) ==
    [cmd |-> "retry", execute |-> TRUE, plane |-> r.plane, proposal |-> e.proposal,
     ticket |-> NoTicket, status |-> outcome, retryable |-> again]

\* What a retry of e is recorded as; a read that fails again may be retried again.
RetryOf(r, e, outcome, again) ==
    [cmd |-> "retry", execute |-> TRUE, plane |-> e.plane, proposal |-> e.proposal,
     ticket |-> NoTicket, status |-> outcome, retryable |-> again]

\* retryRun repeats the failed reads and saves the run, whose plane, proposal and decision
\* stay; it does not touch the artifacts.
Retry(p) ==
    /\ pc[p] = "retry" /\ Len(base[p].executions) <= MaxExecutions
    /\ \E i \in Retried(base[p]), outcome \in {"executed", "failed"}, again \in BOOLEAN :
        /\ outcome = "failed" => again
        /\ run' = [base[p] EXCEPT !.status = outcome,
                    !.executions = Append(@, RetryOf(base[p], base[p].executions[i], outcome, again))]
    /\ Leave(p)
    /\ UNCHANGED <<artifacts, claimed, sent>>

LastExecutes(r) == \E i \in DOMAIN r.executions : i = Len(r.executions) /\ r.executions[i].execute

\* reconcileRun wants the last record to be an execution; replayRun takes any run.
StartReport(p) ==
    /\ \/ "reconcile" \in Others /\ Load(p, "reconcile") /\ LastExecutes(run)
       \/ "replay" \in Others /\ Load(p, "replay")
    /\ UNCHANGED options

LoadArtifacts(p) ==
    /\ \/ pc[p] = "reconcile" /\ Goto(p, "reconciled")
       \/ pc[p] = "replay" /\ Goto(p, "replayed")
    /\ art' = [art EXCEPT ![p] = artifacts]
    /\ UNCHANGED <<run, artifacts, claimed, sent, options, base, setting, decision, status>>

\* A blocked run whose last orders are all found executed, or had none, becomes executed.
SaveReconciled(p) ==
    /\ pc[p] = "reconciled"
    /\ \/ run' = base[p]
       \/ base[p].status = "blocked" /\ run' = [base[p] EXCEPT !.status = "executed"]
    /\ Goto(p, "saveArtifacts")
    /\ UNCHANGED <<artifacts, claimed, sent, options, base, art, setting, decision, status>>

SaveReplayed(p) ==
    /\ pc[p] = "replayed"
    /\ run' = base[p]
    /\ Goto(p, "saveArtifacts")
    /\ UNCHANGED <<artifacts, claimed, sent, options, base, art, setting, decision, status>>

-----------------------------------------------------------------------------
\* The command throws, or its process is killed.
Abandon(p) ==
    /\ pc[p] # "idle"
    /\ Leave(p)
    /\ UNCHANGED <<run, artifacts, claimed, sent>>

Step(p) ==
    \/ StartApply(p) \/ Evaluate(p) \/ Gate(p) \/ StartRehearsal(p)
    \/ Skip(p) \/ Preview(p) \/ Submit(p) \/ Rehearse(p) \/ SaveRun(p) \/ SaveArtifacts(p)
    \/ StartRetry(p) \/ Retry(p)
    \/ StartReport(p) \/ LoadArtifacts(p) \/ SaveReconciled(p) \/ SaveReplayed(p)
    \/ Abandon(p)

Next == \E p \in Procs : Step(p)

Spec == Init /\ [][Next]_vars

-----------------------------------------------------------------------------
(* Properties.                                                             *)

Stages ==
    {"idle", "loaded", "evaluated", "ready", "saveRun", "saveArtifacts",
     "retry", "reconcile", "reconciled", "replay", "replayed"}

TypeOK ==
    /\ run \in Run
    /\ artifacts \in Artifacts \cup {NoFile}
    /\ claimed \subseteq Writes
    /\ sent \in [Writes -> Nat]
    /\ pc \in [Procs -> Stages]
    /\ options \in [Procs -> Applies \cup Rehearsals \cup {NoOptions}]
    /\ base \in [Procs -> Run]
    /\ art \in [Procs -> Artifacts \cup {NoFile}]
    /\ setting \in [Procs -> Settings]
    /\ decision \in [Procs -> Outcomes]
    /\ status \in [Procs -> {"blocked", "approval_required", "dry_run", "executed", "failed"}]

\* p is the process whose step sends f.
Sends(p, f) == pc[p] = "ready" /\ pc'[p] = "saveRun" /\ sent'[f] # sent[f]

\* What the policy let pass: the whole order plan that f belongs to, as far as it has a
\* price.
Bounded(f, s) ==
    /\ s.discipline # "restricted" /\ s.credentials
    /\ f.leg \in LegsOf[f.proposal]
    /\ \A x \in LegsOf[f.proposal] : Notional[x] > 0 => x \in s.tradable /\ Notional[x] <= s.single
    /\ Total(LegsOf[f.proposal]) <= s.total
    /\ s.gross + Total(LegsOf[f.proposal]) <= s.exposure

\* An order goes out only for a process that was told to execute and approved, on a plane
\* other than research, and only if its whole proposal was within the limits of the policy
\* that process evaluated; an apply also has an approval ticket.  Neither the artifacts it
\* loaded nor another process can put a different bundle under its decision.
SendsAreLicensed ==
    [][\A f \in Writes : sent'[f] # sent[f] => \E p \in Procs :
          /\ Sends(p, f)
          /\ options[p].execute /\ options[p].approve
          /\ f.plane # "research" /\ Bounded(f, setting[p])
          /\ options[p].cmd = "apply" => options[p].approver # "none" /\ art[p].ticket # NoTicket]_vars

\* An order goes out on live only for an apply that names who approves, confirms live
\* execution, gives both caps within the policy's limits and issued its own ticket for
\* this proposal on live; neither the plane a run was left on by another command, nor a
\* ticket found in the artifacts, nor a rehearsal is enough.
LiveSendsConfirmed ==
    [][\A f \in Writes : (sent'[f] # sent[f] /\ f.plane = "live") => \E p \in Procs :
          /\ Sends(p, f)
          /\ options[p].cmd = "apply" /\ options[p].approver = "named" /\ options[p].confirm
          /\ options[p].maxOrder \in 1..setting[p].single
          /\ options[p].maxTotal \in 1..setting[p].total
          /\ art[p].ticket = [proposal |-> f.proposal, plane |-> "live", outcome |-> "approved"]]_vars

\* No gate after the policy turns a refusal into an approval: once an apply is not
\* approved it stays so until it ends.
VerdictNeverLoosens ==
    [][\A p \in Procs :
          (pc[p] \in {"evaluated", "ready", "saveRun", "saveArtifacts"}
             /\ pc'[p] # "idle" /\ decision[p] # "approved")
          => decision'[p] # "approved"]_vars

\* The record of a command that decided for itself; a retry goes by an earlier decision.
Own(e) == e.cmd # "retry"

\* The last record of r that is not a retry's.
Decisive(r, i) == Own(r.executions[i]) /\ \A j \in DOMAIN r.executions : j > i => ~Own(r.executions[j])

Accounted(r) ==
    /\ \A i \in DOMAIN r.executions :
        LET e == r.executions[i]
        IN  /\ i = Len(r.executions) =>
                \/ r.status = e.status
                \/ r.status = "executed" /\ e.status = "blocked" /\ e.execute
            /\ Decisive(r, i) =>
                /\ r.plane = e.plane /\ r.selected = e.proposal
                /\ e.status \in {"executed", "failed", "dry_run"} => r.decision = "approved"
            /\ (e.cmd = "apply" /\ e.status \in {"executed", "failed"}) =>
                /\ e.ticket # NoTicket
                /\ e.plane = "live" => e.ticket.plane = "live" /\ e.ticket.proposal = e.proposal
            /\ ~Own(e) => \E j \in 1..(i - 1) :
                LET d == r.executions[j]
                IN  Own(d) /\ d.execute /\ d.retryable /\ d.plane = e.plane /\ d.proposal = e.proposal

\* The run on disk accounts for what was done, whichever of apply, rehearse, retry,
\* reconcile and replay saved it last.  Its status is that of its last record, unless a
\* reconcile took a blocked execution for executed.  Its plane and proposal are those of
\* the last command that decided on them, which was approved if it got to execute.  A
\* retry is recorded under the plane and proposal of an execution it had something to
\* retry of, though the run may have moved on; and an apply recorded as having executed
\* has a ticket, on live one for that plane and proposal.
RecordsAccountable == Accounted(run)

\* README.md: the ledger prevents duplicate writes.  Refuted: a rehearsal writes without
\* the ledger, so an apply of the rehearsed run sends the same write again.
SentOnce == \A f \in Writes : sent[f] <= 1

=============================================================================
