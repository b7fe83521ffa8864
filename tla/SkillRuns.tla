------------------------------- MODULE SkillRuns -------------------------------
(***************************************************************************)
(* One operator running `plan`, `skills run`, `replay` and `export`        *)
(* (runtime/executor.ts) over the files of the run store                   *)
(* (runtime/trace.ts), with the process dying anywhere.                    *)
(*                                                                         *)
(* A command loads what it needs, runs its skills in memory and then       *)
(* rewrites its files in place, one after the other.  Loading is one step: *)
(* no other command runs meanwhile.  A command that cannot load what it    *)
(* needs fails without having changed anything and is left out.            *)
(***************************************************************************)
EXTENDS SkillGraph

CONSTANTS
    Goals,        \* what `plan` and `skills run` are asked for: sets of trigger words
    Standalone,   \* skills that `skills run` is asked for
    MaxRuns,      \* bounds the run ids that createRunId gives out
    MaxRoute,     \* bounds the route of a plan
    MaxCrashes    \* bounds how often the process dies while it saves

Certification == "mesh.skill-certification"
RouteProofKey == "mesh.route-proof"
Reports == {"report.operator-summary", "report.operator-brief", "report.business-brief"}
PlanTargets == {"planning.proposals", "policy.plan-decision"}
ReplayTargets == {"report.operator-summary"}
RunIds == 1..MaxRuns
AllKeys == Keys \cup {Certification, RouteProofKey} \cup Reports

ASSUME RunsAssumption ==
    /\ Goals \subseteq SUBSET Words
    /\ Standalone \subseteq Skills
    /\ MaxRuns \in Nat /\ MaxRoute \in Nat /\ MaxCrashes \in Nat
    /\ {"replay", "operator-summarizer"} \subseteq Skills
    /\ PlanTargets \subseteq Keys

VARIABLES
    pc,       \* what the process is doing
    cmd,      \* the command it runs
    store,    \* keys of its artifact store
    route,    \* the skills it has executed
    at,       \* steps of an explicit route that are behind it
    skipped,  \* those of them that --skip-satisfied passed over
    proof,    \* the content of mesh.route-proof
    left,     \* files it has still to write
    files,    \* the state of each file of each run
    saved,    \* what the artifacts file of a run holds
    bundle,   \* what the portable bundle of a run holds
    held,     \* history: the keys a whole artifacts file of a run has held
    crashes

memory == <<pc, cmd, store, route, at, skipped, proof, left>>
disk == <<files, saved, bundle, held, crashes>>
vars == <<pc, cmd, store, route, at, skipped, proof, left, files, saved, bundle, held, crashes>>

\* "trace" stands for trace.json, policy.json and executions.json, which are
\* written one after the other and read together.
Files == {"run", "trace", "artifacts", "bundle"}
SaveOrder == <<"run", "trace", "artifacts">>
ExportOrder == <<"bundle", "artifacts">>

NoProof == RouteProof("none", << >>, {}, {}, {})
Snapshot(keys, p) == [keys |-> keys, proof |-> p]
Proofs ==
    [kind : {"none", "workflow", "standalone", "operations"}, route : Seq(Skills),
     targets : SUBSET AllKeys, passed : BOOLEAN, redundant : SUBSET Nat, resume : SUBSET Skills]
Snapshots == [keys : SUBSET AllKeys, proof : Proofs]

NoCommand ==
    [kind |-> "none", goal |-> {}, skill |-> None, skip |-> FALSE, given |-> {}, id |-> 0]
Commands ==
    [kind : {"none", "plan", "skill", "replay", "export"}, goal : SUBSET Words,
     skill : Skills \cup {None}, skip : BOOLEAN, given : SUBSET AllKeys, id : RunIds \cup {0}]

Init ==
    /\ pc = "idle" /\ cmd = NoCommand
    /\ store = {} /\ route = << >> /\ at = 0 /\ skipped = {} /\ proof = NoProof /\ left = << >>
    /\ files = [i \in RunIds |-> [f \in Files |-> "absent"]]
    /\ saved = [i \in RunIds |-> Snapshot({}, NoProof)]
    /\ bundle = [i \in RunIds |-> Snapshot({}, NoProof)]
    /\ held = [i \in RunIds |-> {}]
    /\ crashes = 0

\* The process ends: returned, thrown or dead.
Rest ==
    /\ pc' = "idle" /\ cmd' = NoCommand
    /\ store' = {} /\ route' = << >> /\ at' = 0 /\ skipped' = {}
    /\ proof' = NoProof /\ left' = << >>
-----------------------------------------------------------------------------
(* Files.                                                                  *)

Unused(i) == \A f \in Files : files[i][f] = "absent"
\* createRunId: ids grow with the clock.  One whose command saved nothing is not
\* seen again, which is as if it had not been given out.
Fresh(i) == Unused(i) /\ \A j \in 1..(i - 1) : ~Unused(j)
\* Mutant: a torn file counts as one that is not there.
ReadableMutant(i, f) == TRUE
Readable(i, f) == files[i][f] # "torn"

\* loadArtifactSnapshot: a run without the file has no artifacts.
Loaded(i) ==
    IF files[i]["artifacts"] = "whole" THEN saved[i] ELSE Snapshot({}, NoProof)

\* What is in a file of the run is replaced.
Put(f, snapshot) ==
    /\ saved' = IF f = "artifacts" THEN [saved EXCEPT ![cmd.id] = snapshot] ELSE saved
    /\ bundle' = IF f = "bundle" THEN [bundle EXCEPT ![cmd.id] = snapshot] ELSE bundle

\* fs.writeFile first empties the file: what it held is gone ...
Truncate ==
    /\ pc = "saving" /\ files[cmd.id][Head(left)] # "torn"
    /\ files' = [files EXCEPT ![cmd.id][Head(left)] = "torn"]
    /\ Put(Head(left), Snapshot({}, NoProof))
    /\ UNCHANGED <<memory, held, crashes>>

\* Mutant: the command does not end with its last file.
WriteMutant ==
    /\ pc = "saving" /\ files[cmd.id][Head(left)] = "torn"
    /\ files' = [files EXCEPT ![cmd.id][Head(left)] = "whole"]
    /\ saved' = [saved EXCEPT ![cmd.id] = Snapshot(store, proof)]
    /\ left' = Tail(left)
    /\ UNCHANGED <<pc, cmd, store, route, at, skipped, proof, bundle, held, crashes>>

\* ... and has then written it.
Write ==
    LET f == Head(left)
    IN  /\ pc = "saving" /\ files[cmd.id][f] = "torn"
        /\ files' = [files EXCEPT ![cmd.id][f] = "whole"]
        /\ Put(f, Snapshot(store, proof))
        /\ held' = IF f = "artifacts" THEN [held EXCEPT ![cmd.id] = @ \cup store] ELSE held
        /\ IF Len(left) = 1 THEN Rest
           ELSE /\ left' = Tail(left)
                /\ UNCHANGED <<pc, cmd, store, route, at, skipped, proof>>
        /\ UNCHANGED crashes

\* Attach the proof of what was run and go on to save the run.
ProveAndSave(kind, path, targets, keys) ==
    LET all == keys \cup {Certification}
    IN  /\ proof' = RouteProof(kind, path, targets, skipped, all)
        /\ store' = all \cup {RouteProofKey}
        /\ left' = SaveOrder /\ pc' = "saving"
        /\ UNCHANGED <<route, at, skipped, disk>>
-----------------------------------------------------------------------------
(* plan                                                                    *)

StartPlan(goal, i) ==
    /\ pc = "idle" /\ Fresh(i)
    /\ pc' = "planning"
    /\ cmd' = [NoCommand EXCEPT !.kind = "plan", !.goal = goal, !.id = i]
    /\ UNCHANGED <<store, route, at, skipped, proof, left, disk>>

LastSkill == IF route = << >> THEN None ELSE route[Len(route)]
ReadyNow == Ready(cmd.goal, Range(route), store)

PlanStep(s) ==
    /\ pc = "planning" /\ Len(route) < MaxRoute
    /\ s \in ReadyNow /\ IsNext(cmd.goal, s, ReadyNow, LastSkill, store)
    /\ Registry[s].fails # "always"
    /\ store' = store \cup Registry[s].makes
    /\ route' = Append(route, s)
    /\ UNCHANGED <<pc, cmd, at, skipped, proof, left, disk>>

PlanThrows(s) ==
    /\ pc = "planning" /\ Len(route) < MaxRoute
    /\ s \in ReadyNow /\ IsNext(cmd.goal, s, ReadyNow, LastSkill, store)
    /\ Registry[s].fails # "never"
    /\ Rest /\ UNCHANGED disk

PlanBlocked ==
    /\ pc = "planning" /\ ReadyNow = {}
    /\ Blocked(cmd.goal, Range(route), store) # {}
    /\ Rest /\ UNCHANGED disk

\* Mutant: the loop also ends once the targets are there.
PlanMadeMutant ==
    /\ pc = "planning" /\ (ReadyNow = {} \/ PlanTargets \subseteq store)
    /\ Blocked(cmd.goal, Range(route), store) = {}
    /\ ProveAndSave("workflow", route, PlanTargets, store \cup Reports)
    /\ UNCHANGED cmd

PlanMade ==
    /\ pc = "planning" /\ ReadyNow = {}
    /\ Blocked(cmd.goal, Range(route), store) = {}
    /\ ProveAndSave("workflow", route, PlanTargets, store \cup Reports)
    /\ UNCHANGED cmd
-----------------------------------------------------------------------------
(* skills run                                                              *)

\* What the store may start from: nothing, a run's artifacts (--input), or a
\* bundle; a skill that takes a run id looks for that run's artifacts itself.
Sources ==
    {Snapshot({}, NoProof)}
        \cup {saved[j] : j \in {k \in RunIds : files[k]["artifacts"] = "whole"}}
        \cup {bundle[j] : j \in {k \in RunIds : files[k]["bundle"] = "whole"}}

StartSkill(s, source, skip, i) ==
    /\ pc = "idle" /\ Fresh(i)
    /\ pc' = "routing"
    /\ store' = source.keys \cup {Certification}
    /\ proof' = source.proof
    /\ cmd' = [NoCommand EXCEPT !.kind = "skill", !.skill = s, !.skip = skip,
                                !.given = source.keys \cup {Certification}, !.id = i]
    /\ UNCHANGED <<route, at, skipped, left, disk>>

Declared == Registry[cmd.skill].route
OnRoute == pc = "routing" /\ at < Len(Declared)
Step == Declared[at + 1]

\* The runtime passes over a step: it has been run, or its outputs are there.
RoutePasses ==
    /\ OnRoute
    /\ Superfluous(Step, Range(route)) \/ (Satisfied(Step, store) /\ CanSkip(Step, store, cmd.skip))
    /\ skipped' = IF Superfluous(Step, Range(route)) THEN skipped ELSE skipped \cup {Step}
    /\ at' = at + 1
    /\ UNCHANGED <<pc, cmd, store, route, proof, left, disk>>

MustRun ==
    OnRoute /\ ~Superfluous(Step, Range(route)) /\ ~CanSkip(Step, store, cmd.skip)

\* The replay handler also reads the files of the run it is given, and the
\* prover, run as a skill, proves the route of no command.
RouteStep ==
    /\ MustRun /\ Satisfied(Step, store) /\ Registry[Step].fails # "always"
    /\ store' = store \cup Registry[Step].makes
    /\ proof' = IF RouteProofKey \in Registry[Step].makes
                THEN RouteProof("workflow", << >>, {}, {}, store) ELSE proof
    /\ route' = Append(route, Step)
    /\ at' = at + 1
    /\ UNCHANGED <<pc, cmd, skipped, left, disk>>

RouteThrows ==
    /\ OnRoute /\ ~Superfluous(Step, Range(route))
    /\ \/ ~Satisfied(Step, store)
       \/ MustRun /\ Registry[Step].fails # "never"
    /\ Rest /\ UNCHANGED disk

OutputsThere(s, keys) == s = "replay" \/ Registry[s].outputs \subseteq keys

\* assertStandaloneOutputs throws.
RouteLacking ==
    /\ pc = "routing" /\ at = Len(Declared) /\ ~OutputsThere(cmd.skill, store)
    /\ Rest /\ UNCHANGED disk

RouteMade ==
    /\ pc = "routing" /\ at = Len(Declared) /\ OutputsThere(cmd.skill, store)
    /\ ProveAndSave("standalone", Declared, Registry[cmd.skill].outputs, store)
    /\ UNCHANGED cmd
-----------------------------------------------------------------------------
(* replay and export                                                       *)

\* Mutant: the proof keeps the kind of the run that is replayed.
ReplayMutant(i) ==
    /\ pc = "idle" /\ files[i]["run"] = "whole"
    /\ \A f \in {"trace", "artifacts"} : Readable(i, f)
    /\ cmd' = [NoCommand EXCEPT !.kind = "replay", !.id = i]
    /\ ProveAndSave("workflow", <<"replay", "operator-summarizer">>, ReplayTargets,
                    Loaded(i).keys \cup Registry["operator-summarizer"].makes)

\* The handler of replay reads the other files too, and throws on a torn one.
Replay(i) ==
    /\ pc = "idle" /\ files[i]["run"] = "whole"
    /\ \A f \in {"trace", "artifacts"} : Readable(i, f)
    /\ cmd' = [NoCommand EXCEPT !.kind = "replay", !.id = i]
    /\ ProveAndSave("operations", <<"replay", "operator-summarizer">>, ReplayTargets,
                    Loaded(i).keys \cup Registry["operator-summarizer"].makes)

Export(i) ==
    /\ pc = "idle" /\ files[i]["run"] = "whole" /\ Readable(i, "artifacts")
    /\ cmd' = [NoCommand EXCEPT !.kind = "export", !.id = i]
    /\ store' = Loaded(i).keys \cup Registry["operator-summarizer"].makes
    /\ proof' = Loaded(i).proof
    /\ left' = ExportOrder /\ pc' = "saving"
    /\ UNCHANGED <<route, at, skipped, disk>>
-----------------------------------------------------------------------------
Crash ==
    /\ pc # "idle"
    /\ IF pc = "saving" THEN crashes < MaxCrashes /\ crashes' = crashes + 1
                         ELSE UNCHANGED crashes
    /\ Rest /\ UNCHANGED <<files, saved, bundle, held>>

Planning == PlanBlocked \/ PlanMade \/ \E s \in Skills : PlanStep(s) \/ PlanThrows(s)
Routing == RoutePasses \/ RouteStep \/ RouteThrows \/ RouteLacking \/ RouteMade
Progress == Truncate \/ Write \/ Routing \/ Planning

Start ==
    \E i \in RunIds :
        \/ \E goal \in Goals : StartPlan(goal, i)
        \/ \E s \in Standalone, source \in Sources, skip \in BOOLEAN : StartSkill(s, source, skip, i)
        \/ Replay(i)
        \/ Export(i)

Next == Start \/ Progress \/ Crash

Spec == Init /\ [][Next]_vars
FairSpec == Spec /\ WF_vars(Progress)
-----------------------------------------------------------------------------
(* Properties.                                                             *)

\* The variables have their types; a saving process has something to write.
TypeOK ==
    /\ pc \in {"idle", "planning", "routing", "saving"}
    /\ cmd \in Commands
    /\ store \subseteq AllKeys
    /\ route \in Seq(Skills) /\ at \in Nat /\ skipped \subseteq Skills
    /\ proof \in Proofs
    /\ left \in Seq(Files)
    /\ files \in [RunIds -> [Files -> {"absent", "torn", "whole"}]]
    /\ saved \in [RunIds -> Snapshots]
    /\ bundle \in [RunIds -> Snapshots]
    /\ held \in [RunIds -> SUBSET AllKeys]
    /\ crashes \in 0..MaxCrashes
    /\ pc # "idle" => cmd.id \in RunIds
    /\ pc = "saving" => left # << >>
    /\ pc = "routing" => cmd.skill \in Skills

\* What a plan for a goal has to run, whatever the order: the least set that
\* holds every candidate whose inputs it makes.
Made(S) == UNION {Registry[s].makes : s \in S}
Closed(S, candidates) ==
    LET made == Made(S) IN {s \in candidates : Registry[s].consumes \subseteq made} \subseteq S
ClosedSets(candidates) == {S \in SUBSET candidates : Closed(S, candidates)}
Least(candidates) == candidates \ UNION {candidates \ S : S \in ClosedSets(candidates)}
Warranted == [goal \in Goals |-> Least(Candidates(goal))]
Planned == cmd.kind = "plan" /\ pc = "saving"

\* A finished plan has run exactly what its goal warrants: handoffs, trigger
\* scores and names decide the order in which runPlanningGraph runs skills and
\* never which of them it runs, so the same goal always gives the same artifacts.
PlanIsWarranted == Planned => Range(route) = Warranted[cmd.goal]

\* A goal that makes a repeatable skill ready is never planned to the end: the
\* skill stays ready, and the loop of runPlanningGraph only ends with nothing ready.
Spins(goal) == \E s \in Warranted[goal] : Registry[s].repeatable
SpinningGoalsAreNeverPlanned == Planned => ~Spins(cmd.goal)

\* s, run from these keys alone, goes through its declared route and finds its
\* outputs.
Resumes(s, given, skip) ==
    LET rerun == RouteStores(Registry[s].route, given, skip)
    IN  rerun.ok /\ OutputsThere(s, rerun.store)

\* What a route leaves in the store, and what the skill at its end must find there.
Leaves(s) == Registry[s].consumes \cup Registry[s].makes
RouteLeaves(s) ==
    (IF s = "replay" THEN {} ELSE Registry[s].outputs)
        \cup UNION {Leaves(t) : t \in Range(Registry[s].route)}

\* What ResumePointsResume asks of the manifests that are installed: a skill makes
\* what it says it produces or has already; one that a plan may run resumes from
\* what it leaves itself, and one on a declared route from what that route leaves.
RoutesAreWhole ==
    /\ \A s \in Skills : Registry[s].makes \subseteq Registry[s].produces \cup Registry[s].consumes
    /\ \A s \in PlanningSkills : Certified(s) => Resumes(s, Leaves(s), FALSE)
    /\ \A s \in Skills : \A t \in Range(Registry[s].route) :
           Certified(t) => Resumes(t, RouteLeaves(s), FALSE)

\* Every resume point in the route proof of a plan or a skill run does resume:
\* when no command runs, its rerun command over the artifacts of the run goes
\* through its whole route and finds the outputs the skill declares.
ResumePointsResume ==
    \A i \in RunIds :
        pc = "idle" /\ files[i]["artifacts"] = "whole"
        /\ saved[i].proof.kind \in {"workflow", "standalone"}
        => \A s \in saved[i].proof.resume : Resumes(s, saved[i].keys, TRUE)

\* Keys that are in a store without a step of a route having put them there.
Free == Reports \cup {Certification, RouteProofKey} \cup Registry["operator-summarizer"].makes

\* Keys that any store with these holds: what each maker of one takes and puts, and
\* what each maker of that does.
Makers(key) == {s \in Skills : key \in Registry[s].makes}
Alongside(keys) ==
    keys \cup {k \in Keys : \E h \in keys \ Free : \A s \in Makers(h) : k \in Leaves(s)}
Implied == [key \in Keys |-> Alongside(Alongside({key}))]

\* For each step of a route those whose outputs are there whenever its own are there
\* before the route has made any of them: --skip-satisfied passes over them with it.
PassedWith(path) ==
    [u \in Range(path) |->
        {t \in Range(path) :
            /\ Registry[t].produces # {}
            /\ \E key \in Registry[u].produces \ Made(Range(path) \ {u}) :
                   Registry[t].produces \subseteq Implied[key]}]

\* A step that is run and kept although nothing needs what it produces takes nothing
\* that a redundant step before it produces.
KeptAreFed(path, targets, passed) ==
    LET redundant == Redundant(path, targets, passed)
    IN  \A i \in 1..Len(path) : \A j \in redundant :
            /\ j < i /\ i \notin redundant /\ path[i] \notin passed
            /\ Registry[path[i]].produces \cap Required(path, targets, passed)[i] = {}
            => Registry[path[j]].produces \cap Registry[path[i]].consumes = {}

\* What RedundantIsUseless asks of the manifests that are installed: in a plan, a
\* guard and a skill that produces nothing, unless the plan would spin on it, produce
\* a target; and a declared route names no skill twice and feeds what it keeps,
\* whatever --skip-satisfied may pass over.
GuardsAreFed ==
    /\ \A s \in PlanningSkills :
           (Registry[s].guards \/ Registry[s].produces = {}) /\ ~Registry[s].repeatable
           => Registry[s].produces \cap PlanTargets # {}
    /\ Registry["replay"].outputs = {}
    /\ \A s \in Skills :
        LET path == Registry[s].route
            with == PassedWith(path)
        IN  /\ \A i, j \in 1..Len(path) : path[i] = path[j] => i = j
            /\ \A passed \in SUBSET Range(path) :
                   (\A u \in passed : with[u] \subseteq passed)
                   => KeptAreFed(path, Registry[s].outputs, passed)

\* A route without some of its steps.
Without(path, dropped) ==
    LET kept == (1..Len(path)) \ dropped
    IN  [k \in 1..Cardinality(kept) |->
            path[CHOOSE j \in kept : Cardinality({l \in kept : l <= j}) = k]]

\* The steps that a command has run and proved, run again from what the command
\* started with but without those that the proof calls redundant, still get through
\* and reach the targets.
RedundantIsUseless ==
    pc = "saving" /\ cmd.kind \in {"plan", "skill"}
    => LET unrun == {j \in 1..Len(proof.route) : proof.route[j] \in skipped}
           rerun == RouteStores(Without(proof.route, proof.redundant \cup unrun),
                                cmd.given, cmd.skip)
       IN  proof.targets \subseteq store => rerun.ok /\ proof.targets \subseteq rerun.store

\* Whenever the artifacts file of a run is whole it holds every key it has ever held:
\* replay and export write back all they have loaded.  A crash inside the write empties
\* the file and its keys are lost with it; but no later command takes the torn file for
\* a missing one and puts less in its place.  Of the commands of this module, one at a
\* time: apply, reconcile and rehearse save artifacts too.
SavedKeysSurvive ==
    \A i \in RunIds : files[i]["artifacts"] = "whole" => held[i] \subseteq saved[i].keys

\* Every command ends, a plan whose goal spins excepted.
CommandsEnd ==
    (pc # "idle" /\ (pc = "planning" => ~Spins(cmd.goal))) ~> pc = "idle"
=============================================================================
