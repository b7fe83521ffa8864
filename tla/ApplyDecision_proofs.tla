-------------------------- MODULE ApplyDecision_proofs --------------------------
(***************************************************************************)
(* Proofs about ApplyDecision, for any proposals, options, limits and      *)
(* number of processes: every order is licensed, a live one is confirmed,  *)
(* no verdict is loosened and the run on disk accounts for what was done.  *)
(*                                                                         *)
(* The inductive invariant says, per process and stage, how its decision,  *)
(* its bundle and its ticket follow from the options it was given and the  *)
(* setting it found, whatever the artifacts it loaded held.                *)
(***************************************************************************)
EXTENDS ApplyDecision, TLAPS

CommandOK(p) ==
    /\ pc[p] \in {"loaded", "evaluated"} => options[p] \in Applies
    /\ pc[p] \in {"ready", "saveRun"} => options[p] \in Applies \cup Rehearsals
    /\ pc[p] \notin {"reconciled", "replayed", "saveArtifacts"} => art[p] \in Artifacts

Verdict(p) == Policy(options[p], Target(p), Chosen(p), setting[p])

\* What an executing apply has passed when it is still approved.
Cleared(p) ==
    /\ options[p].approver # "none"
    /\ art[p].ticket # NoTicket
    /\ ~GuardBlocks(options[p], Target(p), setting[p])
    /\ Issues(options[p]) =>
        art[p].ticket = [proposal |-> Chosen(p), plane |-> Target(p), outcome |-> "approved"]

ReadyOK(p) ==
    pc[p] = "ready" =>
        /\ art[p].bundle = Chosen(p)
        /\ decision[p] = "approved" =>
            /\ Verdict(p) = "approved"
            /\ options[p].execute /\ ~Rehearses(p) => Cleared(p)

\* An apply that may have sent something has a ticket, on live its own.
Ticketed(plane, proposal, ticket) ==
    /\ ticket # NoTicket
    /\ plane = "live" => ticket.plane = "live" /\ ticket.proposal = proposal

DoneOK(p) ==
    pc[p] = "saveRun" =>
        /\ status[p] \in {"executed", "failed", "dry_run"} => decision[p] = "approved"
        /\ status[p] \in {"executed", "failed"} /\ ~Rehearses(p) =>
            Ticketed(Target(p), Chosen(p), art[p].ticket)

\* A reconcile goes by the last record of the run it loaded.
ReportOK(p) == pc[p] \in {"reconcile", "reconciled"} => LastExecutes(base[p])

ProcOK(p) ==
    /\ CommandOK(p)
    /\ ReportOK(p)
    /\ pc[p] = "evaluated" => decision[p] = Verdict(p)
    /\ ReadyOK(p)
    /\ DoneOK(p)

Accountable(e) ==
    (e.cmd = "apply" /\ e.status \in {"executed", "failed"}) =>
        Ticketed(e.plane, e.proposal, e.ticket)

\* A retry at i repeats an execution that r recorded before.
Repeats(r, i) ==
    \E j \in 1..(i - 1) :
        /\ Own(r.executions[j]) /\ r.executions[j].execute /\ r.executions[j].retryable
        /\ r.executions[j].plane = r.executions[i].plane
        /\ r.executions[j].proposal = r.executions[i].proposal

LastOK(r, e) ==
    \/ r.status = e.status
    \/ r.status = "executed" /\ e.status = "blocked" /\ e.execute

DecisiveOK(r, e) ==
    /\ r.plane = e.plane /\ r.selected = e.proposal
    /\ e.status \in {"executed", "failed", "dry_run"} => r.decision = "approved"

EntryOK(r, i) ==
    /\ i = Len(r.executions) => LastOK(r, r.executions[i])
    /\ Decisive(r, i) => DecisiveOK(r, r.executions[i])
    /\ Accountable(r.executions[i])
    /\ ~Own(r.executions[i]) => Repeats(r, i)

HistoryOK(r) ==
    /\ r.status = "absent" => r.executions = << >>
    /\ \A i \in DOMAIN r.executions : EntryOK(r, i)

RunOK == HistoryOK(run)

Inv ==
    /\ TypeOK
    /\ \A p \in Procs : ProcOK(p) /\ HistoryOK(base[p])
    /\ RunOK

USE DEF Stages

-----------------------------------------------------------------------------
(* The operators.                                                          *)

LEMMA PolicyType ==
    ASSUME NEW o, NEW plane, NEW proposal, NEW s
    PROVE  Policy(o, plane, proposal, s) \in Outcomes
  BY DEF Policy, Outcomes

LEMMA AuthorisedType ==
    ASSUME NEW o, NEW plane, NEW s, NEW outcome \in Outcomes, NEW ticket
    PROVE  /\ Authorised(o, plane, s, outcome, ticket) \in Outcomes
           /\ outcome # "approved" => Authorised(o, plane, s, outcome, ticket) # "approved"
  BY DEF Authorised, Outcomes

LEMMA AccountedIsHistory ==
    ASSUME NEW r
    PROVE  Accounted(r) <=> \A i \in DOMAIN r.executions : EntryOK(r, i)
  BY DEF Accounted, EntryOK, LastOK, DecisiveOK, Accountable, Ticketed, Repeats

-----------------------------------------------------------------------------
(* The invariant holds at first.                                           *)

LEMMA SettingExists == AnySetting \in Settings
  BY RunAssumption DEF AnySetting

LEMMA NoRunType == NoRun \in Run /\ NoRun.executions = << >>
  BY RunAssumption DEF NoRun, Run, Planes, Outcomes

LEMMA PlannedType ==
    ASSUME NEW plane \in PlannedPlanes, NEW s \in Settings
    PROVE  /\ Planned(plane, s) \in Run
           /\ Planned(plane, s).executions = << >>
           /\ Planned(plane, s).status \in {"blocked", "approval_required"}
<1>1. Policy(PlanOptions, plane, Recommended, s) \in Outcomes
  BY PolicyType
<1>2. plane \in Planes /\ Recommended \in Proposals
  BY RunAssumption
<1>3. StatusOf(Policy(PlanOptions, plane, Recommended, s)) \in {"blocked", "approval_required"}
  BY DEF StatusOf
<1> QED
  BY <1>1, <1>2, <1>3 DEF Planned, Run

LEMMA InitInv == Init => Inv
<1> SUFFICES ASSUME Init PROVE Inv
  OBVIOUS
<1>1. /\ run \in Run /\ run.executions = << >> /\ run.status # "executed"
      /\ artifacts \in Artifacts \cup {NoFile}
  BY NoRunType, PlannedType DEF Init, NoArtifacts, Artifacts, NoRun
<1>2. TypeOK
  BY <1>1, SettingExists, NoRunType
     DEF Init, TypeOK, NoArtifacts, Artifacts, Outcomes, NoOptions
<1>3. ASSUME NEW p \in Procs PROVE ProcOK(p) /\ HistoryOK(base[p])
  BY <1>3, NoRunType DEF Init, ProcOK, CommandOK, ReportOK, ReadyOK, DoneOK, NoArtifacts, Artifacts, HistoryOK
<1>4. RunOK
  BY <1>1 DEF RunOK, HistoryOK
<1> QED
  BY <1>2, <1>3, <1>4 DEF Inv

-----------------------------------------------------------------------------
(* What a process holds.                                                   *)

LEMMA CommandType ==
    ASSUME TypeOK, NEW p \in Procs, options[p] \in Applies \cup Rehearsals
    PROVE  /\ options[p].cmd \in {"apply", "rehearse"}
           /\ Rehearses(p) <=> options[p] \in Rehearsals
           /\ ~Rehearses(p) <=> options[p] \in Applies
           /\ options[p].execute \in BOOLEAN /\ options[p].approve \in BOOLEAN
           /\ Target(p) \in Planes /\ Chosen(p) \in Proposals
<1>1. CASE options[p] \in Applies
  <2>1. options[p] \in ApplyOptions
    BY <1>1, RunAssumption
  <2>2. base[p].plane \in Planes
    BY DEF TypeOK, Run
  <2>3. options[p].cmd = "apply" /\ options[p] \notin Rehearsals
    BY <2>1, RunAssumption DEF ApplyOptions, RehearseOptions
  <2> QED
    BY <2>1, <2>2, <2>3, <1>1, RunAssumption DEF ApplyOptions, Rehearses, Target, Chosen, Planes
<1>2. CASE options[p] \in Rehearsals
  <2>1. options[p] \in RehearseOptions
    BY <1>2, RunAssumption
  <2>2. options[p].cmd = "rehearse" /\ options[p] \notin Applies
    BY <2>1, RunAssumption DEF ApplyOptions, RehearseOptions
  <2> QED
    BY <2>1, <2>2, <1>2, RunAssumption DEF RehearseOptions, Rehearses, Target, Chosen, Planes
<1> QED
  BY <1>1, <1>2

\* A process that does not move keeps what is known of it.
LEMMA Unmoved ==
    ASSUME NEW q \in Procs, ProcOK(q) /\ HistoryOK(base[q]),
           pc'[q] = pc[q], options'[q] = options[q], base'[q] = base[q], art'[q] = art[q],
           setting'[q] = setting[q], decision'[q] = decision[q], status'[q] = status[q]
    PROVE  (ProcOK(q) /\ HistoryOK(base[q]))'
  BY DEF ProcOK, CommandOK, ReportOK, ReadyOK, DoneOK, HistoryOK, Verdict, Cleared, Rehearses, Target, Chosen

\* Nor does leaving disturb anything.
LEMMA LeaveInv ==
    ASSUME TypeOK, NEW p \in Procs, Leave(p), \A q \in Procs : ProcOK(q) /\ HistoryOK(base[q])
    PROVE  /\ pc' \in [Procs -> Stages]
           /\ options' \in [Procs -> Applies \cup Rehearsals \cup {NoOptions}]
           /\ base' \in [Procs -> Run] /\ art' \in [Procs -> Artifacts \cup {NoFile}]
           /\ setting' \in [Procs -> Settings] /\ decision' \in [Procs -> Outcomes]
           /\ status' \in [Procs -> {"blocked", "approval_required", "dry_run", "executed", "failed"}]
           /\ \A q \in Procs : (ProcOK(q) /\ HistoryOK(base[q]))'
<1> USE DEF Leave, Goto, TypeOK
<1>1. NoArtifacts \in Artifacts /\ "blocked" \in Outcomes
  BY DEF NoArtifacts, Artifacts, Outcomes
<1>2. ASSUME NEW q \in Procs PROVE (ProcOK(q) /\ HistoryOK(base[q]))'
  <2>1. CASE q = p
    BY <2>1, <1>1, NoRunType DEF ProcOK, CommandOK, ReportOK, ReadyOK, DoneOK, HistoryOK
  <2>2. CASE q # p
    BY <2>2, Unmoved
  <2> QED
    BY <2>1, <2>2
<1>3. /\ pc' \in [Procs -> Stages]
      /\ options' \in [Procs -> Applies \cup Rehearsals \cup {NoOptions}]
      /\ base' \in [Procs -> Run] /\ art' \in [Procs -> Artifacts \cup {NoFile}]
      /\ setting' \in [Procs -> Settings] /\ decision' \in [Procs -> Outcomes]
      /\ status' \in [Procs -> {"blocked", "approval_required", "dry_run", "executed", "failed"}]
  BY <1>1, NoRunType, SettingExists
<1> QED
  BY <1>2, <1>3

-----------------------------------------------------------------------------
(* Every action keeps the invariant.                                       *)

LEMMA StartApplyInv == ASSUME Inv, NEW p \in Procs, StartApply(p) PROVE Inv'
<1> USE DEF Inv, StartApply, Load, Goto
<1>1. TypeOK'
  BY DEF TypeOK
<1>2. ASSUME NEW q \in Procs PROVE (ProcOK(q) /\ HistoryOK(base[q]))'
  <2>1. CASE q = p
    <3>1. options'[p] \in Applies /\ pc'[p] = "loaded" /\ base'[p] = run
      BY DEF TypeOK
    <3>2. HistoryOK(run)
      BY DEF RunOK
    <3> QED
      BY <2>1, <3>1, <3>2 DEF ProcOK, CommandOK, ReportOK, ReadyOK, DoneOK, HistoryOK
  <2>2. CASE q # p
    BY <2>2, Unmoved DEF TypeOK
  <2> QED
    BY <2>1, <2>2
<1>3. RunOK'
  BY DEF RunOK, HistoryOK, Load
<1> QED
  BY <1>1, <1>2, <1>3

LEMMA EvaluateInv == ASSUME Inv, NEW p \in Procs, Evaluate(p) PROVE Inv'
<1> USE DEF Inv, Evaluate, Goto
<1>1. PICK s \in Settings :
        /\ setting' = [setting EXCEPT ![p] = s]
        /\ decision' = [decision EXCEPT ![p] = Policy(options[p], Target(p), Chosen(p), s)]
  OBVIOUS
<1>2. Policy(options[p], Target(p), Chosen(p), s) \in Outcomes
  BY PolicyType
<1>3. TypeOK'
  BY <1>1, <1>2 DEF TypeOK
<1>4. ASSUME NEW q \in Procs PROVE (ProcOK(q) /\ HistoryOK(base[q]))'
  <2>1. CASE q = p
    <3>1. Target(p)' = Target(p) /\ Chosen(p)' = Chosen(p) /\ setting'[p] = s
      BY <1>1 DEF Target, Chosen, Rehearses, TypeOK
    <3>2. decision'[p] = Verdict(p)'
      BY <1>1, <3>1 DEF Verdict, TypeOK
    <3>3. CommandOK(p)' /\ pc'[p] = "evaluated"
      BY DEF ProcOK, CommandOK, TypeOK
    <3>4. HistoryOK(base[p])'
      BY DEF HistoryOK
    <3> QED
      BY <2>1, <3>2, <3>3, <3>4 DEF ProcOK, ReportOK, ReadyOK, DoneOK
  <2>2. CASE q # p
    BY <2>2, <1>1, Unmoved DEF TypeOK
  <2> QED
    BY <2>1, <2>2
<1>5. RunOK'
  BY DEF RunOK, HistoryOK
<1> QED
  BY <1>3, <1>4, <1>5

\* The gates: the bundle becomes the chosen proposal's, whatever was loaded, and what is
\* still approved has been cleared.
LEMMA GateInv == ASSUME Inv, NEW p \in Procs, Gate(p) PROVE Inv'
<1> USE DEF Inv
<1> DEFINE ticket == TicketAfter(options[p], Target(p), Chosen(p), decision[p], art[p].ticket)
           outcome == Authorised(options[p], Target(p), setting[p], decision[p], ticket)
<1>1. /\ pc[p] = "evaluated" /\ pc' = [pc EXCEPT ![p] = "ready"]
      /\ art' = [art EXCEPT ![p] = [ticket |-> ticket, bundle |-> Chosen(p)]]
      /\ decision' = [decision EXCEPT ![p] = outcome]
           \/ decision' = [decision EXCEPT ![p] = "blocked"]
      /\ UNCHANGED <<run, artifacts, claimed, sent, options, base, setting, status>>
  BY DEF Gate, Goto
<1>2. /\ options[p] \in Applies /\ ~Rehearses(p)
      /\ Target(p) \in Planes /\ Chosen(p) \in Proposals
      /\ options[p].execute \in BOOLEAN /\ options[p].approve \in BOOLEAN
  BY <1>1, CommandType DEF ProcOK, CommandOK
<1>3. decision[p] \in Outcomes /\ art[p].ticket \in Tickets \cup {NoTicket}
  BY <1>1 DEF TypeOK, ProcOK, CommandOK, Artifacts
<1>4. ticket \in Tickets \cup {NoTicket}
  BY <1>2, <1>3 DEF TicketAfter, Tickets
<1>5. outcome \in Outcomes /\ "blocked" \in Outcomes
  BY <1>3, AuthorisedType DEF Outcomes
<1>8. [ticket |-> ticket, bundle |-> Chosen(p)] \in Artifacts
  BY <1>2, <1>4 DEF Artifacts
<1>6. TypeOK'
  <2> HIDE DEF ticket, outcome
  <2> QED
    BY <1>1, <1>5, <1>8 DEF TypeOK
<1>7. ASSUME NEW q \in Procs PROVE (ProcOK(q) /\ HistoryOK(base[q]))'
  <2>1. CASE q = p
    <3>1. Target(p)' = Target(p) /\ Chosen(p)' = Chosen(p) /\ (Rehearses(p)' <=> Rehearses(p))
      BY <1>1 DEF Target, Chosen, Rehearses
    <3>2. /\ art'[p].ticket = ticket /\ art'[p].bundle = Chosen(p)
          /\ decision'[p] = "approved" => outcome = "approved"
          /\ pc'[p] = "ready"
      <4> HIDE DEF ticket, outcome
      <4> QED
        BY <1>1 DEF TypeOK
    <3>3. decision[p] = Verdict(p) /\ Verdict(p)' = Verdict(p)
      BY <1>1, <3>1 DEF ProcOK, Verdict
    <3>4. ASSUME outcome = "approved"
          PROVE  /\ Verdict(p) = "approved"
                 /\ options[p].execute => Cleared(p)'
      <4> HIDE DEF ticket
      <4>1. /\ decision[p] = "approved" /\ ~GuardBlocks(options[p], Target(p), setting[p])
            /\ options[p].execute => options[p].approver # "none" /\ ticket # NoTicket
        BY <1>3, <3>4 DEF Authorised, Outcomes
      <4>2. Issues(options[p]) =>
              ticket = [proposal |-> Chosen(p), plane |-> Target(p), outcome |-> "approved"]
        BY <4>1 DEF TicketAfter, ticket
      <4> QED
        BY <1>1, <3>1, <3>2, <3>3, <4>1, <4>2 DEF Cleared
    <3>5. ReadyOK(p)'
      BY <1>1, <3>1, <3>2, <3>3, <3>4 DEF ReadyOK
    <3>6. CommandOK(p)' /\ HistoryOK(base[p])'
      BY <1>1, <1>2, <1>8, <3>2 DEF CommandOK, HistoryOK, TypeOK
    <3> QED
      BY <2>1, <3>2, <3>5, <3>6 DEF ProcOK, ReportOK, DoneOK
  <2>2. CASE q # p
    <3> HIDE DEF ticket, outcome
    <3> QED
      BY <2>2, <1>1, Unmoved DEF TypeOK
  <2> QED
    BY <2>1, <2>2
<1>9. RunOK'
  BY <1>1 DEF RunOK, HistoryOK
<1> QED
  BY <1>6, <1>7, <1>9

\* A rehearsal takes the free run id and holds a bundle of its own.
LEMMA StartRehearsalInv == ASSUME Inv, NEW p \in Procs, StartRehearsal(p) PROVE Inv'
<1> USE DEF Inv
<1>1. PICK o \in Rehearsals, s \in Settings :
        /\ options' = [options EXCEPT ![p] = o]
        /\ setting' = [setting EXCEPT ![p] = s]
        /\ decision' = [decision EXCEPT ![p] = Policy(o, "demo", Recommended, s)]
  BY DEF StartRehearsal
<1>2. /\ run.status = "absent" /\ run' = [run EXCEPT !.status = "taken"]
      /\ art' = [art EXCEPT ![p].bundle = Recommended]
      /\ pc' = [pc EXCEPT ![p] = "ready"]
      /\ UNCHANGED <<artifacts, claimed, sent, base, status>>
  BY DEF StartRehearsal, Goto
<1>3. Policy(o, "demo", Recommended, s) \in Outcomes
  BY PolicyType
<1>7. /\ [art[p] EXCEPT !.bundle = Recommended] \in Artifacts
      /\ [art[p] EXCEPT !.bundle = Recommended].bundle = Recommended
      /\ art' = [art EXCEPT ![p] = [art[p] EXCEPT !.bundle = Recommended]]
  <2>1. art[p] \in Artifacts
    BY DEF StartRehearsal, ProcOK, CommandOK
  <2>2. art' = [art EXCEPT ![p] = [art[p] EXCEPT !.bundle = Recommended]]
    BY <1>2
  <2> QED
    BY <2>1, <2>2, RunAssumption DEF Artifacts
<1>4. TypeOK'
  <2>1. run' \in Run
    BY <1>2 DEF TypeOK, Run
  <2>2. art' \in [Procs -> Artifacts \cup {NoFile}]
    BY <1>2, <1>7 DEF TypeOK
  <2> QED
    BY <1>1, <1>2, <1>3, <2>1, <2>2 DEF TypeOK
<1>5. ASSUME NEW q \in Procs PROVE (ProcOK(q) /\ HistoryOK(base[q]))'
  <2>1. CASE q = p
    <3>1. /\ options'[p] = o /\ setting'[p] = s /\ pc'[p] = "ready" /\ base'[p] = base[p]
          /\ decision'[p] = Policy(o, "demo", Recommended, s)
          /\ art'[p].bundle = Recommended
      BY <1>1, <1>2, <1>7 DEF TypeOK
    <3>2. o.cmd = "rehearse"
      BY RunAssumption DEF RehearseOptions
    <3>3. /\ Rehearses(p)' /\ Target(p)' = "demo" /\ Chosen(p)' = Recommended
      BY <3>1, <3>2 DEF Rehearses, Target, Chosen
    <3>4. ReadyOK(p)'
      BY <3>1, <3>3 DEF ReadyOK, Verdict
    <3>5. CommandOK(p)'
      BY <1>2, <1>7, <3>1 DEF CommandOK, TypeOK
    <3> QED
      BY <2>1, <3>1, <3>4, <3>5 DEF ProcOK, ReportOK, DoneOK, HistoryOK
  <2>2. CASE q # p
    BY <2>2, <1>1, <1>2, Unmoved DEF TypeOK
  <2> QED
    BY <2>1, <2>2
<1>6. RunOK'
  BY <1>2 DEF RunOK, HistoryOK, TypeOK, Run
<1> QED
  BY <1>4, <1>5, <1>6

\* What is sent on live is sent under a ticket of that apply.
LEMMA ClearedTicketed ==
    ASSUME NEW p \in Procs, options[p].execute, Cleared(p)
    PROVE  Ticketed(Target(p), Chosen(p), art[p].ticket)
<1>1. ASSUME Target(p) = "live"
      PROVE  art[p].ticket.plane = "live" /\ art[p].ticket.proposal = Chosen(p)
  <2>1. Confirmed(options[p], setting[p])
    BY <1>1 DEF Cleared, GuardBlocks
  <2>2. Issues(options[p])
    BY <2>1 DEF Confirmed, Issues
  <2> QED
    BY <1>1, <2>2 DEF Cleared
<1> QED
  BY <1>1 DEF Ticketed, Cleared

LEMMA EndedInv ==
    ASSUME Inv, NEW p \in Procs, pc[p] = "ready",
           NEW outcome \in {"blocked", "approval_required", "dry_run", "executed", "failed"},
           Ended(p, outcome),
           outcome \in {"executed", "failed"} => options[p].execute,
           outcome \in {"executed", "failed", "dry_run"} => decision[p] = "approved",
           claimed' \subseteq Writes, sent' \in [Writes -> Nat]
    PROVE  Inv'
<1> USE DEF Inv, Ended, Goto
<1>1. TypeOK'
  BY SettingExists DEF TypeOK
<1>2. ASSUME NEW q \in Procs PROVE (ProcOK(q) /\ HistoryOK(base[q]))'
  <2>1. CASE q = p
    <3>1. /\ status'[p] = outcome /\ pc'[p] = "saveRun" /\ options'[p] = options[p]
          /\ base'[p] = base[p] /\ art'[p] = art[p] /\ decision'[p] = decision[p]
      BY DEF TypeOK
    <3>2. Target(p)' = Target(p) /\ Chosen(p)' = Chosen(p) /\ (Rehearses(p)' <=> Rehearses(p))
      BY <3>1 DEF Target, Chosen, Rehearses
    <3>3. ASSUME outcome \in {"executed", "failed"}, ~Rehearses(p)
          PROVE  Ticketed(Target(p), Chosen(p), art[p].ticket)
      <4>1. Cleared(p)
        BY <3>3 DEF ProcOK, ReadyOK
      <4> QED
        BY <3>3, <4>1, ClearedTicketed
    <3>4. DoneOK(p)'
      <4>1. status'[p] \in {"executed", "failed", "dry_run"} => decision'[p] = "approved"
        BY <3>1
      <4>2. (status'[p] \in {"executed", "failed"} /\ ~Rehearses(p)') =>
              Ticketed(Target(p)', Chosen(p)', art'[p].ticket)
        BY <3>1, <3>2, <3>3
      <4> QED
        BY <3>1, <4>1, <4>2 DEF DoneOK, Ticketed
    <3>5. CommandOK(p)' /\ HistoryOK(base[p])'
      BY <3>1 DEF ProcOK, CommandOK, HistoryOK
    <3> QED
      BY <2>1, <3>1, <3>4, <3>5 DEF ProcOK, ReportOK, ReadyOK
  <2>2. CASE q # p
    BY <2>2, Unmoved DEF TypeOK
  <2> QED
    BY <2>1, <2>2
<1>3. RunOK'
  BY DEF RunOK, HistoryOK
<1> QED
  BY <1>1, <1>2, <1>3

LEMMA SendType ==
    ASSUME TypeOK, NEW fs, Send(fs)
    PROVE  sent' \in [Writes -> Nat]
  BY DEF Send, TypeOK

\* A bundle is made of orders of its proposal, on the plane of its apply.
LEMMA BundleType ==
    ASSUME Inv, NEW p \in Procs, pc[p] = "ready"
    PROVE  /\ BundleOf(p) \subseteq Writes
           /\ \A f \in BundleOf(p) :
                f.plane = Target(p) /\ f.proposal = Chosen(p) /\ f.leg \in LegsOf[Chosen(p)]
<1>1. Target(p) \in Planes /\ Chosen(p) \in Proposals /\ art[p].bundle = Chosen(p)
  BY CommandType DEF Inv, ProcOK, CommandOK, ReadyOK
<1>2. Chosen(p) # NoProposal /\ LegsOf[Chosen(p)] \subseteq Legs
  BY <1>1, RunAssumption
<1>3. BundleOf(p) = [plane : {Target(p)}, proposal : {Chosen(p)}, leg : LegsOf[Chosen(p)]]
  BY <1>1, <1>2 DEF BundleOf
<1> QED
  BY <1>1, <1>2, <1>3 DEF Writes

LEMMA ExecutionInv ==
    ASSUME Inv, NEW p \in Procs, Skip(p) \/ Preview(p) \/ Submit(p) \/ Rehearse(p)
    PROVE  Inv'
<1>1. TypeOK /\ claimed \subseteq Writes /\ sent \in [Writes -> Nat]
  BY DEF Inv, TypeOK
<1>2. CASE Skip(p)
  <2>1. StatusOf(decision[p]) \in {"blocked", "approval_required"}
    BY DEF StatusOf
  <2> QED
    BY <1>1, <1>2, <2>1, EndedInv DEF Skip
<1>3. CASE Preview(p)
  BY <1>1, <1>3, EndedInv DEF Preview
<1>4. CASE Submit(p)
  <2>1. PICK fs \in SUBSET (BundleOf(p) \ claimed), outcome \in {"executed", "failed", "blocked"} :
          Send(fs) /\ claimed' = claimed \cup fs /\ Ended(p, outcome)
    BY <1>4 DEF Submit
  <2>3. pc[p] = "ready" /\ decision[p] = "approved" /\ options[p].execute
    BY <1>4 DEF Submit
  <2>4. claimed' \subseteq Writes /\ sent' \in [Writes -> Nat]
    BY <1>1, <2>1, <2>3, BundleType, SendType
  <2> QED
    BY <2>1, <2>3, <2>4, EndedInv
<1>5. CASE Rehearse(p)
  <2>1. PICK fs \in SUBSET BundleOf(p), outcome \in {"executed", "failed"} :
          Send(fs) /\ Ended(p, outcome)
    BY <1>5 DEF Rehearse
  <2>2. pc[p] = "ready" /\ decision[p] = "approved" /\ options[p].execute /\ claimed' = claimed
    BY <1>5 DEF Rehearse
  <2>3. sent' \in [Writes -> Nat]
    BY <1>1, <2>1, SendType
  <2> QED
    BY <1>1, <2>1, <2>2, <2>3, EndedInv
<1> QED
  BY <1>2, <1>3, <1>4, <1>5

-----------------------------------------------------------------------------
(* Saving.                                                                 *)

LEMMA RecordType ==
    ASSUME Inv, NEW p \in Procs, pc[p] = "saveRun", NEW retryable \in BOOLEAN
    PROVE  RecordOf(p, retryable) \in Execution /\ Accountable(RecordOf(p, retryable))
<1>1. /\ options[p].cmd \in {"apply", "rehearse"} /\ options[p].execute \in BOOLEAN
      /\ Target(p) \in Planes /\ Chosen(p) \in Proposals
  BY CommandType DEF Inv, ProcOK, CommandOK
<1>2. art[p].ticket \in Tickets \cup {NoTicket}
  BY DEF Inv, ProcOK, CommandOK, Artifacts
<1>3. status[p] \in {"blocked", "approval_required", "dry_run", "executed", "failed"}
  BY DEF Inv, TypeOK
<1>4. RecordOf(p, retryable) \in Execution
  BY <1>1, <1>2, <1>3 DEF RecordOf, Execution
<1>5. (options[p].cmd = "apply" /\ status[p] \in {"executed", "failed"}) =>
        Ticketed(Target(p), Chosen(p), art[p].ticket)
  BY DEF Inv, ProcOK, DoneOK, Rehearses
<1> QED
  BY <1>4, <1>5 DEF RecordOf, Accountable

\* What a run has when one record more is appended and its own fields are set by it.
LEMMA Appended ==
    ASSUME NEW es \in Seq(Execution), NEW e \in Execution
    PROVE  /\ Append(es, e) \in Seq(Execution) /\ Append(es, e) # << >>
           /\ Len(Append(es, e)) = Len(es) + 1
           /\ DOMAIN Append(es, e) = 1..(Len(es) + 1) /\ DOMAIN es = 1..Len(es)
           /\ Len(es) \in Nat
           /\ Append(es, e)[Len(es) + 1] = e
           /\ \A i \in 1..Len(es) : Append(es, e)[i] = es[i]
  OBVIOUS

LEMMA RepeatsStays ==
    ASSUME NEW r, NEW s, NEW i \in Nat, Repeats(r, i),
           \A j \in 1..i : s.executions[j] = r.executions[j]
    PROVE  Repeats(s, i)
<1>1. PICK j \in 1..(i - 1) :
        /\ Own(r.executions[j]) /\ r.executions[j].execute /\ r.executions[j].retryable
        /\ r.executions[j].plane = r.executions[i].plane
        /\ r.executions[j].proposal = r.executions[i].proposal
  BY DEF Repeats
<1>2. j \in 1..i /\ i \in 1..i
  BY <1>1
<1> QED
  BY <1>1, <1>2 DEF Repeats

LEMMA OwnAppended ==
    ASSUME NEW r \in Run, HistoryOK(r), NEW e \in Execution, Own(e), Accountable(e),
           NEW s \in Run, s.executions = Append(r.executions, e), s.status = e.status,
           DecisiveOK(s, e)
    PROVE  HistoryOK(s)
<1> DEFINE n == Len(r.executions)
<1>1. r.executions \in Seq(Execution)
  BY DEF Run
<1>2. /\ Len(s.executions) = n + 1 /\ DOMAIN s.executions = 1..(n + 1) /\ n \in Nat
      /\ DOMAIN r.executions = 1..n /\ s.executions[n + 1] = e
      /\ \A i \in 1..n : s.executions[i] = r.executions[i]
  BY <1>1, Appended
<1> HIDE DEF n
<1>3. ASSUME NEW i \in DOMAIN s.executions PROVE EntryOK(s, i)
  <2>1. CASE i = n + 1
    BY <1>2, <2>1 DEF EntryOK, LastOK
  <2>2. CASE i # n + 1
    <3>1. i \in 1..n /\ i # Len(s.executions) /\ s.executions[i] = r.executions[i] /\ i \in Nat
      BY <1>2, <2>2
    <3>2. EntryOK(r, i)
      BY <1>2, <3>1 DEF HistoryOK
    <3>3. ~Decisive(s, i)
      <4>1. n + 1 \in DOMAIN s.executions /\ n + 1 > i
        BY <1>2, <3>1
      <4> QED
        BY <1>2, <4>1 DEF Decisive
    <3>4. ~Own(s.executions[i]) => Repeats(s, i)
      <4>1. \A j \in 1..i : s.executions[j] = r.executions[j]
        BY <1>2, <3>1
      <4> QED
        BY <3>1, <3>2, <4>1, RepeatsStays DEF EntryOK
    <3> QED
      BY <3>1, <3>2, <3>3, <3>4 DEF EntryOK
  <2> QED
    BY <2>1, <2>2
<1>4. s.status # "absent"
  BY DEF Execution
<1> QED
  BY <1>3, <1>4 DEF HistoryOK

\* A retry's record leaves the run's plane, proposal and decision to the record they are of.
LEMMA RetryAppended ==
    ASSUME NEW r \in Run, HistoryOK(r), NEW k \in Retried(r), NEW e \in Execution,
           e.cmd = "retry", e.plane = r.executions[k].plane, e.proposal = r.executions[k].proposal,
           NEW s \in Run, s.executions = Append(r.executions, e), s.status = e.status,
           s.plane = r.plane, s.selected = r.selected, s.decision = r.decision
    PROVE  HistoryOK(s)
<1> DEFINE n == Len(r.executions)
<1>1. r.executions \in Seq(Execution)
  BY DEF Run
<1>2. /\ Len(s.executions) = n + 1 /\ DOMAIN s.executions = 1..(n + 1) /\ n \in Nat
      /\ DOMAIN r.executions = 1..n /\ s.executions[n + 1] = e
      /\ \A i \in 1..n : s.executions[i] = r.executions[i]
  BY <1>1, Appended
<1> HIDE DEF n
<1>3. ~Own(e) /\ Accountable(e)
  BY DEF Own, Accountable
<1>4. /\ k \in 1..n /\ k \in Nat
      /\ r.executions[k].execute /\ r.executions[k].retryable /\ EntryOK(r, k)
  BY <1>2 DEF Retried, HistoryOK
<1>5. Repeats(s, n + 1)
  <2>1. CASE Own(r.executions[k])
    <3>1. k \in 1..(n + 1 - 1) /\ s.executions[k] = r.executions[k]
      BY <1>2, <1>4
    <3> QED
      BY <1>2, <1>4, <2>1, <3>1 DEF Repeats
  <2>2. CASE ~Own(r.executions[k])
    <3>1. PICK j \in 1..(k - 1) :
            /\ Own(r.executions[j]) /\ r.executions[j].execute /\ r.executions[j].retryable
            /\ r.executions[j].plane = r.executions[k].plane
            /\ r.executions[j].proposal = r.executions[k].proposal
      BY <1>4, <2>2 DEF EntryOK, Repeats
    <3>2. j \in 1..(n + 1 - 1) /\ s.executions[j] = r.executions[j]
      BY <1>2, <1>4, <3>1
    <3> QED
      BY <1>2, <3>1, <3>2 DEF Repeats
  <2> QED
    BY <2>1, <2>2
<1>6. ASSUME NEW i \in DOMAIN s.executions PROVE EntryOK(s, i)
  <2>1. CASE i = n + 1
    BY <1>2, <1>3, <1>5, <2>1 DEF EntryOK, LastOK, Decisive
  <2>2. CASE i # n + 1
    <3>1. i \in 1..n /\ i # Len(s.executions) /\ s.executions[i] = r.executions[i] /\ i \in Nat
      BY <1>2, <2>2
    <3>2. EntryOK(r, i)
      BY <1>2, <3>1 DEF HistoryOK
    <3>3. Decisive(s, i) => Decisive(r, i)
      <4>1. \A j \in DOMAIN r.executions :
              j \in DOMAIN s.executions /\ s.executions[j] = r.executions[j]
        BY <1>2
      <4> QED
        BY <3>1, <4>1 DEF Decisive
    <3>4. Decisive(s, i) => DecisiveOK(s, s.executions[i])
      BY <3>1, <3>2, <3>3 DEF EntryOK, DecisiveOK
    <3>5. ~Own(s.executions[i]) => Repeats(s, i)
      <4>1. \A j \in 1..i : s.executions[j] = r.executions[j]
        BY <1>2, <3>1
      <4> QED
        BY <3>1, <3>2, <4>1, RepeatsStays DEF EntryOK
    <3> QED
      BY <3>1, <3>2, <3>4, <3>5 DEF EntryOK
  <2> QED
    BY <2>1, <2>2
<1>7. s.status # "absent"
  BY DEF Execution
<1> QED
  BY <1>6, <1>7 DEF HistoryOK

\* A process that goes on to a stage at which only its base run and artifacts matter.
LEMMA MovesOn ==
    ASSUME Inv, NEW p \in Procs, NEW stage,
           stage \in {"retry", "reconcile", "reconciled", "replay", "replayed", "saveArtifacts"},
           pc' = [pc EXCEPT ![p] = stage], options' = options, setting' = setting,
           decision' = decision, status' = status,
           \A q \in Procs \ {p} : base'[q] = base[q] /\ art'[q] = art[q],
           HistoryOK(base'[p]),
           stage \in {"reconcile", "reconciled"} => LastExecutes(base'[p]),
           stage \in {"reconciled", "replayed", "saveArtifacts"} \/ art'[p] \in Artifacts
    PROVE  \A q \in Procs : (ProcOK(q) /\ HistoryOK(base[q]))'
<1> SUFFICES ASSUME NEW q \in Procs PROVE (ProcOK(q) /\ HistoryOK(base[q]))'
  OBVIOUS
<1>1. CASE q = p
  <2>1. pc'[p] = stage
    BY DEF Inv, TypeOK
  <2> QED
    BY <1>1, <2>1 DEF ProcOK, CommandOK, ReportOK, ReadyOK, DoneOK, HistoryOK
<1>2. CASE q # p
  BY <1>2, Unmoved DEF Inv, TypeOK
<1> QED
  BY <1>1, <1>2

LEMMA SaveRunInv == ASSUME Inv, NEW p \in Procs, SaveRun(p) PROVE Inv'
<1>1. PICK retryable \in BOOLEAN :
        run' = [plane |-> Target(p), status |-> status[p], selected |-> Chosen(p),
                decision |-> decision[p],
                executions |-> Append(base[p].executions, RecordOf(p, retryable))]
  <2>1. (HasReads /\ decision[p] = "approved" /\ options[p].execute) \in BOOLEAN
    BY CommandType, RunAssumption DEF Inv, ProcOK, CommandOK, SaveRun
  <2> QED
    BY <2>1 DEF SaveRun
<1> DEFINE record == RecordOf(p, retryable)
<1>2. /\ pc[p] = "saveRun" /\ pc' = [pc EXCEPT ![p] = "saveArtifacts"]
      /\ UNCHANGED <<artifacts, claimed, sent, options, base, art, setting, decision, status>>
  BY DEF SaveRun, Goto
<1>3. TypeOK
  BY DEF Inv
<1>4. /\ Target(p) \in Planes /\ Chosen(p) \in Proposals /\ decision[p] \in Outcomes
      /\ status[p] \in {"blocked", "approval_required", "dry_run", "executed", "failed"}
      /\ base[p] \in Run /\ base[p].executions \in Seq(Execution) /\ HistoryOK(base[p])
      /\ options[p].cmd \in {"apply", "rehearse"}
  BY <1>2, <1>3, CommandType DEF Inv, ProcOK, CommandOK, TypeOK, Run
<1>5. record \in Execution /\ Accountable(record)
  BY <1>2, RecordType
<1>6. /\ record.plane = Target(p) /\ record.status = status[p] /\ record.proposal = Chosen(p)
      /\ Own(record)
  BY <1>4 DEF RecordOf, Own
<1> HIDE DEF record
<1>7. run' \in Run /\ run'.executions = Append(base[p].executions, record)
  <2>1. Append(base[p].executions, record) \in Seq(Execution)
    BY <1>4, <1>5, Appended
  <2>2. run' = [plane |-> Target(p), status |-> status[p], selected |-> Chosen(p),
                decision |-> decision[p], executions |-> Append(base[p].executions, record)]
    BY <1>1 DEF record
  <2> QED
    BY <1>4, <2>1, <2>2 DEF Run
<1>8. DecisiveOK(run', record)
  BY <1>1, <1>2, <1>6 DEF DecisiveOK, Inv, ProcOK, DoneOK
<1>9. HistoryOK(run')
  <2>1. run'.status = record.status
    BY <1>1, <1>6
  <2> QED
    BY <1>4, <1>5, <1>6, <1>7, <1>8, <2>1, OwnAppended
<1>10. TypeOK'
  BY <1>2, <1>3, <1>7 DEF TypeOK
<1>11. \A q \in Procs : (ProcOK(q) /\ HistoryOK(base[q]))'
  BY <1>2, <1>4, MovesOn
<1> QED
  BY <1>9, <1>10, <1>11 DEF Inv, RunOK, HistoryOK

-----------------------------------------------------------------------------
(* Retry, reconcile and replay.                                            *)

LEMMA LoadInv ==
    ASSUME Inv, NEW p \in Procs, NEW stage \in {"retry", "reconcile", "replay"},
           Load(p, stage), options' = options, stage = "reconcile" => LastExecutes(run)
    PROVE  Inv'
<1>1. /\ pc[p] = "idle" /\ pc' = [pc EXCEPT ![p] = stage]
      /\ base' = [base EXCEPT ![p] = run]
      /\ UNCHANGED <<run, artifacts, claimed, sent, art, setting, decision, status>>
  BY DEF Load, Goto
<1>2. TypeOK'
  BY <1>1 DEF Inv, TypeOK
<1>3. /\ base'[p] = run /\ HistoryOK(run) /\ art'[p] \in Artifacts
      /\ \A q \in Procs \ {p} : base'[q] = base[q] /\ art'[q] = art[q]
  BY <1>1 DEF Inv, TypeOK, RunOK, ProcOK, CommandOK
<1>4. \A q \in Procs : (ProcOK(q) /\ HistoryOK(base[q]))'
  BY <1>1, <1>3, MovesOn
<1> QED
  BY <1>1, <1>2, <1>4 DEF Inv, RunOK, HistoryOK

LEMMA LoadArtifactsInv == ASSUME Inv, NEW p \in Procs, LoadArtifacts(p) PROVE Inv'
<1>1. PICK stage \in {"reconciled", "replayed"} :
        /\ pc' = [pc EXCEPT ![p] = stage]
        /\ stage = "reconciled" => pc[p] = "reconcile"
  BY DEF LoadArtifacts, Goto
<1>2. /\ art' = [art EXCEPT ![p] = artifacts]
      /\ UNCHANGED <<run, artifacts, claimed, sent, options, base, setting, decision, status>>
  BY DEF LoadArtifacts
<1>3. TypeOK'
  BY <1>1, <1>2 DEF Inv, TypeOK
<1>4. /\ HistoryOK(base'[p]) /\ (stage = "reconciled" => LastExecutes(base'[p]))
      /\ \A q \in Procs \ {p} : base'[q] = base[q] /\ art'[q] = art[q]
  BY <1>1, <1>2 DEF Inv, TypeOK, ProcOK, ReportOK
<1>5. \A q \in Procs : (ProcOK(q) /\ HistoryOK(base[q]))'
  BY <1>1, <1>2, <1>4, MovesOn
<1> QED
  BY <1>2, <1>3, <1>5 DEF Inv, RunOK, HistoryOK

\* A run as it was loaded, or taken from blocked to executed, has the same records.
LEMMA ReportedHistory ==
    ASSUME NEW r \in Run, HistoryOK(r), r.status = "blocked",
           \A i \in DOMAIN r.executions : i = Len(r.executions) => r.executions[i].execute
    PROVE  /\ [r EXCEPT !.status = "executed"] \in Run
           /\ HistoryOK([r EXCEPT !.status = "executed"])
<1> DEFINE s == [r EXCEPT !.status = "executed"]
<1>1. /\ s \in Run /\ s.status = "executed" /\ s.executions = r.executions
      /\ s.plane = r.plane /\ s.selected = r.selected /\ s.decision = r.decision
  BY DEF Run
<1> HIDE DEF s
<1>2. ASSUME NEW i \in DOMAIN r.executions PROVE EntryOK(s, i)
  <2>1. EntryOK(r, i)
    BY DEF HistoryOK
  <2>2. i = Len(s.executions) => LastOK(s, s.executions[i])
    BY <1>1, <2>1 DEF EntryOK, LastOK
  <2>3. Decisive(s, i) => DecisiveOK(s, s.executions[i])
    BY <1>1, <2>1 DEF EntryOK, Decisive, DecisiveOK
  <2>4. Repeats(r, i) => Repeats(s, i)
    BY <1>1 DEF Repeats
  <2> QED
    BY <1>1, <2>1, <2>2, <2>3, <2>4 DEF EntryOK
<1>3. s \in Run /\ HistoryOK(s)
  BY <1>1, <1>2 DEF HistoryOK
<1> QED
  BY <1>3 DEF s

LEMMA SaveReportInv ==
    ASSUME Inv, NEW p \in Procs, SaveReconciled(p) \/ SaveReplayed(p) PROVE Inv'
<1>1. /\ pc' = [pc EXCEPT ![p] = "saveArtifacts"]
      /\ UNCHANGED <<artifacts, claimed, sent, options, base, art, setting, decision, status>>
  BY DEF SaveReconciled, SaveReplayed, Goto
<1>2. base[p] \in Run /\ HistoryOK(base[p])
  BY DEF Inv, TypeOK
<1>3. run' \in Run /\ HistoryOK(run')
  <2>1. CASE run' = base[p]
    BY <1>2, <2>1
  <2>2. CASE run' # base[p]
    <3>1. /\ pc[p] = "reconciled" /\ base[p].status = "blocked"
          /\ run' = [base[p] EXCEPT !.status = "executed"]
      BY <2>2 DEF SaveReconciled, SaveReplayed
    <3>2. \A i \in DOMAIN base[p].executions :
            i = Len(base[p].executions) => base[p].executions[i].execute
      BY <3>1 DEF Inv, ProcOK, ReportOK, LastExecutes
    <3> QED
      BY <1>2, <3>1, <3>2, ReportedHistory
  <2> QED
    BY <2>1, <2>2
<1>4. TypeOK'
  BY <1>1, <1>3 DEF Inv, TypeOK
<1>5. \A q \in Procs : (ProcOK(q) /\ HistoryOK(base[q]))'
  BY <1>1, <1>2, MovesOn
<1> QED
  BY <1>3, <1>4, <1>5 DEF Inv, RunOK, HistoryOK

LEMMA RetryInv == ASSUME Inv, NEW p \in Procs, Retry(p) PROVE Inv'
<1>1. PICK k \in Retried(base[p]), outcome \in {"executed", "failed"}, again \in BOOLEAN :
        run' = [base[p] EXCEPT !.status = outcome,
                !.executions = Append(@, RetryOf(base[p], base[p].executions[k], outcome, again))]
  BY DEF Retry
<1> DEFINE e == RetryOf(base[p], base[p].executions[k], outcome, again)
<1>2. Leave(p) /\ UNCHANGED <<artifacts, claimed, sent>>
  BY DEF Retry
<1>3. base[p] \in Run /\ base[p].executions \in Seq(Execution) /\ HistoryOK(base[p])
  BY DEF Inv, TypeOK, Run
<1>4. base[p].executions[k] \in Execution
  BY <1>3 DEF Retried
<1>5. /\ e \in Execution /\ e.cmd = "retry" /\ e.status = outcome
      /\ e.plane = base[p].executions[k].plane /\ e.proposal = base[p].executions[k].proposal
  BY <1>4 DEF RetryOf, Execution
<1> HIDE DEF e
<1>6. /\ run' \in Run /\ run'.executions = Append(base[p].executions, e)
      /\ run'.status = outcome /\ run'.plane = base[p].plane
      /\ run'.selected = base[p].selected /\ run'.decision = base[p].decision
  <2>1. Append(base[p].executions, e) \in Seq(Execution)
    BY <1>3, <1>5, Appended
  <2>2. run' = [base[p] EXCEPT !.status = outcome, !.executions = Append(@, e)]
    BY <1>1 DEF e
  <2> QED
    BY <1>3, <2>1, <2>2 DEF Run
<1>7. HistoryOK(run')
  BY <1>1, <1>3, <1>5, <1>6, RetryAppended
<1>8. \A q \in Procs : (ProcOK(q) /\ HistoryOK(base[q]))'
  BY <1>2, LeaveInv DEF Inv
<1>9. TypeOK'
  BY <1>2, <1>6, LeaveInv DEF Inv, TypeOK
<1> QED
  BY <1>7, <1>8, <1>9 DEF Inv, RunOK, HistoryOK

LEMMA LeavingInv == ASSUME Inv, NEW p \in Procs, SaveArtifacts(p) \/ Abandon(p) PROVE Inv'
<1>1. Leave(p) /\ UNCHANGED <<run, claimed, sent>> /\ artifacts' \in Artifacts \cup {NoFile}
  BY DEF Inv, TypeOK, SaveArtifacts, Abandon
<1>2. TypeOK' /\ \A q \in Procs : (ProcOK(q) /\ HistoryOK(base[q]))'
  BY <1>1, LeaveInv DEF Inv, TypeOK
<1>3. RunOK'
  BY <1>1 DEF Inv, RunOK
<1> QED
  BY <1>2, <1>3 DEF Inv

LEMMA StutterInv == ASSUME Inv, UNCHANGED vars PROVE Inv'
<1> USE DEF Inv, vars, procVars
<1>1. TypeOK' /\ RunOK'
  BY DEF TypeOK, RunOK
<1>2. ASSUME NEW q \in Procs PROVE (ProcOK(q) /\ HistoryOK(base[q]))'
  BY Unmoved
<1> QED
  BY <1>1, <1>2

LEMMA StepInv == Inv /\ [Next]_vars => Inv'
<1> SUFFICES ASSUME Inv, [Next]_vars PROVE Inv'
  OBVIOUS
<1>1. CASE UNCHANGED vars
  BY <1>1, StutterInv
<1>2. ASSUME NEW p \in Procs, Step(p) PROVE Inv'
  <2>1. CASE StartRetry(p) \/ StartReport(p)
    BY <2>1, LoadInv DEF StartRetry, StartReport
  <2>2. CASE ~(StartRetry(p) \/ StartReport(p))
    BY <1>2, <2>2, StartApplyInv, EvaluateInv, GateInv, StartRehearsalInv, ExecutionInv, SaveRunInv,
       RetryInv, LoadArtifactsInv, SaveReportInv, LeavingInv DEF Step
  <2> QED
    BY <2>1, <2>2
<1> QED
  BY <1>1, <1>2 DEF Next

THEOREM Invariance == Spec => []Inv
  BY InitInv, StepInv, PTL DEF Spec

-----------------------------------------------------------------------------
(* The theorems.                                                           *)

\* The run, the artifacts and what every process holds keep their types.
THEOREM TypeCorrect == Spec => []TypeOK
<1>1. Inv => TypeOK
  BY DEF Inv
<1> QED
  BY <1>1, Invariance, PTL

\* Whichever command saved the run last, its records say what was done and under which
\* ticket.
THEOREM RunsAreAccountable == Spec => []RecordsAccountable
<1>1. Inv => RecordsAccountable
  BY AccountedIsHistory DEF Inv, RunOK, HistoryOK, RecordsAccountable
<1> QED
  BY <1>1, Invariance, PTL

\* A step that sends f is the execution of a process whose bundle has f, in a decision that
\* policy approved for that proposal and that plane.
LEMMA SendStep ==
    ASSUME Inv, [Next]_vars, NEW f \in Writes, sent'[f] # sent[f]
    PROVE  \E p \in Procs :
              /\ Sends(p, f) /\ options[p].execute
              /\ options[p] \in Applies \cup Rehearsals
              /\ f.plane = Target(p) /\ f.proposal = Chosen(p) /\ f.leg \in LegsOf[Chosen(p)]
              /\ Verdict(p) = "approved"
              /\ Rehearses(p) \/ Cleared(p)
<1>1. ~UNCHANGED vars
  BY DEF vars
<1>2. PICK p \in Procs : Step(p)
  BY <1>1 DEF Next
<1>3. Submit(p) \/ Rehearse(p)
  BY <1>2 DEF Step, StartApply, Evaluate, Gate, StartRehearsal, Skip, Preview, SaveRun,
              SaveArtifacts, StartRetry, Retry, StartReport, LoadArtifacts, SaveReconciled,
              SaveReplayed, Load, Abandon
<1>4. /\ pc[p] = "ready" /\ decision[p] = "approved" /\ options[p].execute
      /\ pc' = [pc EXCEPT ![p] = "saveRun"]
      /\ \E fs \in SUBSET BundleOf(p) : Send(fs)
  BY <1>3 DEF Submit, Rehearse, Ended, Goto
<1>5. Sends(p, f)
  BY <1>4 DEF Sends, Inv, TypeOK
<1>6. f \in BundleOf(p)
  BY <1>4 DEF Send
<1>7. /\ Verdict(p) = "approved" /\ (Rehearses(p) \/ Cleared(p))
      /\ options[p] \in Applies \cup Rehearsals
  BY <1>4 DEF Inv, ProcOK, CommandOK, ReadyOK
<1> QED
  BY <1>4, <1>5, <1>6, <1>7, BundleType

\* An order goes out only for a process that was told to execute and approved, under a
\* decision that policy reached on the whole proposal of that order.
THEOREM OrdersAreLicensed == Spec => SendsAreLicensed
<1>1. ASSUME Inv, [Next]_vars, NEW f \in Writes, sent'[f] # sent[f]
      PROVE  \E p \in Procs :
          /\ Sends(p, f)
          /\ options[p].execute /\ options[p].approve
          /\ f.plane # "research" /\ Bounded(f, setting[p])
          /\ options[p].cmd = "apply" => options[p].approver # "none" /\ art[p].ticket # NoTicket
  <2>1. PICK p \in Procs :
              /\ Sends(p, f) /\ options[p].execute
              /\ options[p] \in Applies \cup Rehearsals
              /\ f.plane = Target(p) /\ f.proposal = Chosen(p) /\ f.leg \in LegsOf[Chosen(p)]
              /\ Verdict(p) = "approved"
              /\ Rehearses(p) \/ Cleared(p)
    BY <1>1, SendStep
  <2>2. options[p].execute \in BOOLEAN /\ options[p].approve \in BOOLEAN
    BY <2>1, <1>1, CommandType DEF Inv
  <2>3. /\ options[p].approve /\ f.plane # "research"
        /\ setting[p].discipline # "restricted" /\ setting[p].credentials
        /\ WithinLimits(LegsOf[f.proposal], setting[p])
    BY <2>1, <2>2 DEF Verdict, Policy, Hopeless, Unapproved, Barred
  <2>4. Bounded(f, setting[p])
    BY <2>1, <2>3 DEF Bounded, WithinLimits
  <2>5. options[p].cmd = "apply" => options[p].approver # "none" /\ art[p].ticket # NoTicket
    BY <2>1 DEF Cleared, Rehearses
  <2> QED
    BY <2>1, <2>3, <2>4, <2>5
<1>2. Inv /\ [Next]_vars =>
        [\A f \in Writes : sent'[f] # sent[f] => \E p \in Procs :
          /\ Sends(p, f)
          /\ options[p].execute /\ options[p].approve
          /\ f.plane # "research" /\ Bounded(f, setting[p])
          /\ options[p].cmd = "apply" => options[p].approver # "none" /\ art[p].ticket # NoTicket]_vars
  BY <1>1
<1> QED
  BY <1>2, Invariance, PTL DEF Spec, SendsAreLicensed

\* An order goes out on live only for an apply that passed every check of the live guard,
\* under its own ticket for this proposal on live.
THEOREM LiveOrdersAreConfirmed == Spec => LiveSendsConfirmed
<1>1. ASSUME Inv, [Next]_vars, NEW f \in Writes, sent'[f] # sent[f], f.plane = "live"
      PROVE  \E p \in Procs :
          /\ Sends(p, f)
          /\ options[p].cmd = "apply" /\ options[p].approver = "named" /\ options[p].confirm
          /\ options[p].maxOrder \in 1..setting[p].single
          /\ options[p].maxTotal \in 1..setting[p].total
          /\ art[p].ticket = [proposal |-> f.proposal, plane |-> "live", outcome |-> "approved"]
  <2>1. PICK p \in Procs :
              /\ Sends(p, f) /\ options[p].execute
              /\ options[p] \in Applies \cup Rehearsals
              /\ f.plane = Target(p) /\ f.proposal = Chosen(p)
              /\ Rehearses(p) \/ Cleared(p)
    BY <1>1, SendStep
  <2>2. ~Rehearses(p)
    BY <1>1, <2>1 DEF Target
  <2>3. options[p] \in ApplyOptions /\ setting[p] \in Setting
    BY <1>1, <2>1, <2>2, CommandType, RunAssumption DEF Inv, TypeOK
  <2>4. Confirmed(options[p], setting[p])
    BY <1>1, <2>1, <2>2 DEF Cleared, GuardBlocks
  <2>5. art[p].ticket = [proposal |-> f.proposal, plane |-> "live", outcome |-> "approved"]
    BY <1>1, <2>1, <2>2, <2>4 DEF Cleared, Confirmed, Issues
  <2> QED
    BY <2>1, <2>3, <2>4, <2>5 DEF Confirmed, ApplyOptions, Setting
<1>2. Inv /\ [Next]_vars =>
        [\A f \in Writes : (sent'[f] # sent[f] /\ f.plane = "live") => \E p \in Procs :
          /\ Sends(p, f)
          /\ options[p].cmd = "apply" /\ options[p].approver = "named" /\ options[p].confirm
          /\ options[p].maxOrder \in 1..setting[p].single
          /\ options[p].maxTotal \in 1..setting[p].total
          /\ art[p].ticket = [proposal |-> f.proposal, plane |-> "live", outcome |-> "approved"]]_vars
  BY <1>1
<1> QED
  BY <1>2, Invariance, PTL DEF Spec, LiveSendsConfirmed

\* Once policy has refused an apply, nothing that runs after it approves.
THEOREM VerdictsOnlyTighten == Spec => VerdictNeverLoosens
<1>1. ASSUME Inv, [Next]_vars, NEW p \in Procs,
             pc[p] \in {"evaluated", "ready", "saveRun", "saveArtifacts"},
             pc'[p] # "idle", decision[p] # "approved"
      PROVE  decision'[p] # "approved"
  <2>1. TypeOK
    BY <1>1 DEF Inv
  <2>2. CASE UNCHANGED vars
    BY <1>1, <2>2 DEF vars, procVars
  <2>3. ASSUME NEW q \in Procs, Step(q), q # p PROVE decision'[p] = decision[p]
    BY <2>1, <2>3 DEF Step, StartApply, Evaluate, Gate, StartRehearsal, Skip, Preview, Submit,
         Rehearse, Ended, SaveRun, SaveArtifacts, StartRetry, Retry, StartReport, LoadArtifacts,
         SaveReconciled, SaveReplayed, Load, Abandon, Leave, Goto, TypeOK
  <2>4. CASE Gate(p)
    <3> DEFINE ticket == TicketAfter(options[p], Target(p), Chosen(p), decision[p], art[p].ticket)
               outcome == Authorised(options[p], Target(p), setting[p], decision[p], ticket)
    <3>1. \/ decision' = [decision EXCEPT ![p] = outcome]
          \/ decision' = [decision EXCEPT ![p] = "blocked"]
      BY <2>4 DEF Gate
    <3>2. outcome # "approved"
      BY <1>1 DEF Authorised
    <3> HIDE DEF outcome
    <3> QED
      BY <2>1, <3>1, <3>2 DEF TypeOK
  <2>5. CASE Step(p) /\ ~Gate(p)
    BY <1>1, <2>1, <2>5 DEF Step, StartApply, Evaluate, StartRehearsal, Skip, Preview, Submit,
         Rehearse, Ended, SaveRun, SaveArtifacts, StartRetry, Retry, StartReport, LoadArtifacts,
         SaveReconciled, SaveReplayed, Load, Abandon, Leave, Goto, TypeOK
  <2> QED
    BY <1>1, <2>2, <2>3, <2>4, <2>5 DEF Next
<1>2. Inv /\ [Next]_vars =>
        [\A p \in Procs :
          (pc[p] \in {"evaluated", "ready", "saveRun", "saveArtifacts"}
             /\ pc'[p] # "idle" /\ decision[p] # "approved")
          => decision'[p] # "approved"]_vars
  BY <1>1
<1> QED
  BY <1>2, Invariance, PTL DEF Spec, VerdictNeverLoosens

=============================================================================
