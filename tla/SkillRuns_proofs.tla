--------------------------- MODULE SkillRuns_proofs ---------------------------
(***************************************************************************)
(* Proofs about SkillRuns, for any installed skills, goals and bounds: a   *)
(* plan runs what its goal warrants whatever the order, it never ends when *)
(* something repeatable gets ready, and a whole artifacts file has lost no *)
(* key; and, of manifests that hold what RoutesAreWhole and GuardsAreFed say,   *)
(* resume points resume and redundant steps are useless.                   *)
(*                                                                         *)
(* While a plan is made, the invariant has its route within every closed   *)
(* set of candidates and its store made by its route; a store about to be  *)
(* saved holds what the file it goes to has held.  The last section adds the history   *)
(* of the command: the store after each step of its route.  The route      *)
(* without its redundant steps is run alongside that history, and never    *)
(* lacks what the prover, which reads the route backwards, says is needed. *)
(***************************************************************************)
EXTENDS SkillRuns, SequenceTheorems, FiniteSetTheorems, WellFoundedInduction, TLAPS

PlanningOK ==
    pc = "planning" =>
        /\ cmd.kind = "plan" /\ cmd.goal \in Goals
        /\ Range(route) \subseteq Candidates(cmd.goal)
        /\ store = Made(Range(route))
        /\ \A s \in Range(route) : Registry[s].consumes \subseteq store
        /\ \A S \in ClosedSets(Candidates(cmd.goal)) : Range(route) \subseteq S

PlannedOK ==
    Planned => /\ cmd.goal \in Goals
               /\ Range(route) = Warranted[cmd.goal]
               /\ ~Spins(cmd.goal)

KeysOK ==
    /\ SavedKeysSurvive
    /\ \A i \in RunIds : files[i]["artifacts"] = "absent" => held[i] = {}
    /\ pc \in {"planning", "routing"} => files[cmd.id]["artifacts"] = "absent"
    /\ pc = "saving" => held[cmd.id] \subseteq store

IdleOK == pc = "idle" => store = {} /\ route = << >>

SkillOK == pc = "routing" => cmd.kind = "skill"

Inv == TypeOK /\ IdleOK /\ SkillOK /\ PlanningOK /\ PlannedOK /\ KeysOK

-----------------------------------------------------------------------------
(* Types.                                                                  *)

LEMMA RegistryType ==
    ASSUME NEW s \in Skills
    PROVE  /\ Registry[s].consumes \subseteq Keys /\ Registry[s].produces \subseteq Keys
           /\ Registry[s].makes \subseteq Keys /\ Registry[s].outputs \subseteq Keys
           /\ Registry[s].route \in Seq(Skills)
           /\ Registry[s].repeatable \in BOOLEAN
  BY RegistryAssumption DEF Manifest

LEMMA RangeType ==
    ASSUME NEW S, NEW r \in Seq(S)
    PROVE  /\ Range(r) \subseteq S
           /\ \A s \in S : Range(Append(r, s)) = Range(r) \cup {s}
<1>1. Range(r) \subseteq S
  BY DEF Range
<1>2. ASSUME NEW s \in S PROVE Range(Append(r, s)) = Range(r) \cup {s}
  <2>1. /\ DOMAIN r = 1..Len(r) /\ DOMAIN Append(r, s) = 1..(Len(r) + 1)
        /\ \A j \in 1..Len(r) : Append(r, s)[j] = r[j]
        /\ Append(r, s)[Len(r) + 1] = s /\ Len(r) \in Nat
    OBVIOUS
  <2>2. Range(Append(r, s)) \subseteq Range(r) \cup {s}
    BY <2>1 DEF Range
  <2>3. Range(r) \subseteq Range(Append(r, s))
    BY <2>1 DEF Range
  <2>4. s \in Range(Append(r, s))
    BY <2>1 DEF Range
  <2> QED
    BY <2>2, <2>3, <2>4
<1> QED
  BY <1>1, <1>2

LEMMA ProofType ==
    ASSUME NEW kind \in {"none", "workflow", "standalone", "operations"},
           NEW path \in Seq(Skills), NEW targets \in SUBSET AllKeys, NEW passed, NEW keys
    PROVE  RouteProof(kind, path, targets, passed, keys) \in Proofs
<1>1. Redundant(path, targets, passed) \subseteq Nat
  <2>1. Redundant(path, targets, passed) \subseteq 1..Len(path)
    BY DEF Redundant
  <2> QED
    BY <2>1
<1>2. ResumePoints(path) \subseteq Skills
  BY RangeType DEF ResumePoints
<1> QED
  BY <1>1, <1>2 DEF RouteProof, Proofs

LEMMA KeysType ==
    /\ Keys \subseteq AllKeys /\ Reports \subseteq AllKeys
    /\ Certification \in AllKeys /\ RouteProofKey \in AllKeys
    /\ PlanTargets \subseteq AllKeys /\ ReplayTargets \subseteq AllKeys
  BY RunsAssumption DEF AllKeys, Reports, ReplayTargets

LEMMA NoProofType == NoProof \in Proofs
<1>1. << >> \in Seq(Skills)
  OBVIOUS
<1> QED
  BY <1>1, ProofType DEF NoProof

LEMMA NoCommandType == NoCommand \in Commands
  BY DEF NoCommand, Commands

-----------------------------------------------------------------------------
(* The invariant holds at first, and when a command ends.                  *)

LEMMA InitInv == Init => Inv
<1> SUFFICES ASSUME Init PROVE Inv
  OBVIOUS
<1>1. TypeOK
  BY NoProofType, NoCommandType, RunsAssumption DEF Init, TypeOK, Snapshot, Snapshots
<1>2. IdleOK /\ SkillOK /\ PlanningOK /\ PlannedOK
  BY DEF Init, IdleOK, SkillOK, PlanningOK, PlannedOK, Planned
<1>3. KeysOK
  BY DEF Init, KeysOK, SavedKeysSurvive, Snapshot
<1> QED
  BY <1>1, <1>2, <1>3 DEF Inv

LEMMA RestInv ==
    ASSUME Inv, Rest,
           files' \in [RunIds -> [Files -> {"absent", "torn", "whole"}]],
           saved' \in [RunIds -> Snapshots], bundle' \in [RunIds -> Snapshots],
           held' \in [RunIds -> SUBSET AllKeys], crashes' \in 0..MaxCrashes, SavedKeysSurvive',
           \A i \in RunIds : files'[i]["artifacts"] = "absent" => held'[i] = {}
    PROVE  Inv'
<1>1. TypeOK'
  BY NoProofType, NoCommandType DEF Rest, TypeOK
<1>2. (IdleOK /\ SkillOK /\ PlanningOK /\ PlannedOK)'
  BY DEF Rest, IdleOK, SkillOK, PlanningOK, PlannedOK, Planned
<1>3. KeysOK'
  BY DEF Rest, KeysOK
<1> QED
  BY <1>1, <1>2, <1>3 DEF Inv

LEMMA RestKeepingDisk ==
    ASSUME Inv, Rest, UNCHANGED <<files, saved, bundle, held>>, crashes' \in 0..MaxCrashes
    PROVE  Inv'
  BY RestInv DEF Inv, TypeOK, KeysOK, SavedKeysSurvive

-----------------------------------------------------------------------------
(* The actions.                                                            *)

LEMMA StartPlanInv ==
    ASSUME Inv, NEW goal \in Goals, NEW i \in RunIds, StartPlan(goal, i)
    PROVE  Inv'
<1>1. cmd' \in Commands /\ cmd'.kind = "plan" /\ cmd'.goal = goal /\ cmd'.id = i
  BY RunsAssumption DEF StartPlan, NoCommand, Commands
<1>2. pc' = "planning" /\ UNCHANGED <<store, route, at, skipped, proof, left, disk>>
  BY DEF StartPlan
<1>3. files[i]["artifacts"] = "absent"
  BY DEF StartPlan, Fresh, Unused, Files
<1>4. store = {} /\ route = << >>
  BY DEF StartPlan, Inv, IdleOK
<1>5. Range(<< >>) = {} /\ Made({}) = {}
  BY DEF Range, Made
<1>6. TypeOK'
  BY <1>1, <1>2 DEF Inv, TypeOK, disk
<1>7. (IdleOK /\ SkillOK /\ PlanningOK /\ PlannedOK)'
  BY <1>1, <1>2, <1>4, <1>5 DEF IdleOK, SkillOK, PlanningOK, PlannedOK, Planned
<1>8. KeysOK'
  BY <1>1, <1>2, <1>3 DEF Inv, KeysOK, SavedKeysSurvive, disk
<1> QED
  BY <1>6, <1>7, <1>8 DEF Inv

LEMMA StartSkillInv ==
    ASSUME Inv, NEW s \in Standalone, NEW source \in Sources, NEW skip \in BOOLEAN,
           NEW i \in RunIds, StartSkill(s, source, skip, i)
    PROVE  Inv'
<1>1. source \in Snapshots
  BY NoProofType DEF Inv, TypeOK, Sources, Snapshot, Snapshots
<1>2. source.keys \cup {Certification} \subseteq AllKeys /\ source.proof \in Proofs
  BY <1>1, KeysType DEF Snapshots
<1>3. /\ cmd' \in Commands /\ cmd'.kind = "skill" /\ cmd'.id = i /\ cmd'.skill \in Skills
  BY <1>2, RunsAssumption DEF StartSkill, NoCommand, Commands
<1>4. pc' = "routing" /\ UNCHANGED <<route, at, skipped, left, disk>>
  BY DEF StartSkill
<1>5. files[i]["artifacts"] = "absent"
  BY DEF StartSkill, Fresh, Unused, Files
<1>6. TypeOK'
  BY <1>2, <1>3, <1>4 DEF Inv, TypeOK, StartSkill, disk
<1>7. (IdleOK /\ SkillOK /\ PlanningOK /\ PlannedOK)'
  BY <1>3, <1>4 DEF IdleOK, SkillOK, PlanningOK, PlannedOK, Planned
<1>8. KeysOK'
  BY <1>3, <1>4, <1>5 DEF Inv, KeysOK, SavedKeysSurvive, disk
<1> QED
  BY <1>6, <1>7, <1>8 DEF Inv

\* One lemma for the commands that go on to save: what they save is not less.
LEMMA SavingInv ==
    ASSUME Inv, pc' = "saving", cmd' \in Commands, cmd'.id \in RunIds,
           store' \in SUBSET AllKeys, proof' \in Proofs, left' \in {SaveOrder, ExportOrder},
           UNCHANGED <<route, at, skipped, disk>>,
           held[cmd'.id] \subseteq store', PlannedOK'
    PROVE  Inv'
<1>1. left' \in Seq(Files) /\ left' # << >>
  <2>1. SaveOrder \in Seq(Files) /\ SaveOrder # << >>
    BY DEF SaveOrder, Files
  <2>2. ExportOrder \in Seq(Files) /\ ExportOrder # << >>
    BY DEF ExportOrder, Files
  <2> QED
    BY <2>1, <2>2
<1>2. TypeOK'
  BY <1>1 DEF Inv, TypeOK, disk
<1>3. (IdleOK /\ SkillOK /\ PlanningOK)'
  BY DEF IdleOK, SkillOK, PlanningOK
<1>4. KeysOK'
  BY DEF Inv, KeysOK, SavedKeysSurvive, disk
<1> QED
  BY <1>2, <1>3, <1>4 DEF Inv

\* What a file step does to what the files hold.
LEMMA PutType ==
    ASSUME Inv, NEW f, NEW snapshot \in Snapshots, Put(f, snapshot)
    PROVE  saved' \in [RunIds -> Snapshots] /\ bundle' \in [RunIds -> Snapshots]
  BY DEF Put, Inv, TypeOK

LEMMA TruncateInv == ASSUME Inv, Truncate PROVE Inv'
<1>1. /\ pc = "saving" /\ UNCHANGED <<pc, cmd, store, route, at, skipped, proof, left>>
      /\ UNCHANGED <<held, crashes>> /\ Put(Head(left), Snapshot({}, NoProof))
  BY DEF Truncate, memory
<1>2. Head(left) \in Files /\ cmd.id \in RunIds
  BY <1>1 DEF Inv, TypeOK
<1>3. /\ files' \in [RunIds -> [Files -> {"absent", "torn", "whole"}]]
      /\ \A i \in RunIds : files'[i]["artifacts"] = "absent" => files[i]["artifacts"] = "absent"
  BY <1>2 DEF Truncate, Inv, TypeOK, Files
<1>4. TypeOK'
  <2>1. Snapshot({}, NoProof) \in Snapshots
    BY NoProofType DEF Snapshot, Snapshots
  <2>2. saved' \in [RunIds -> Snapshots] /\ bundle' \in [RunIds -> Snapshots]
    BY <1>1, <2>1, PutType
  <2> QED
    BY <1>1, <1>3, <2>2 DEF Inv, TypeOK
<1>5. (IdleOK /\ SkillOK /\ PlanningOK /\ PlannedOK)'
  BY <1>1 DEF Inv, IdleOK, SkillOK, PlanningOK, PlannedOK, Planned
<1>6. SavedKeysSurvive'
  <2> SUFFICES ASSUME NEW i \in RunIds, files'[i]["artifacts"] = "whole"
               PROVE  held[i] \subseteq saved'[i].keys
    BY <1>1 DEF SavedKeysSurvive
  <2>1. files[i]["artifacts"] = "whole" /\ (i = cmd.id => Head(left) # "artifacts")
    BY <1>2 DEF Truncate, Inv, TypeOK, Files
  <2>2. saved'[i] = saved[i]
    BY <1>1, <1>2, <2>1 DEF Put, Inv, TypeOK
  <2> QED
    BY <2>1, <2>2 DEF Inv, KeysOK, SavedKeysSurvive
<1>7. KeysOK'
  BY <1>1, <1>3, <1>6 DEF Inv, KeysOK
<1> QED
  BY <1>4, <1>5, <1>7 DEF Inv

LEMMA WriteInv == ASSUME Inv, Write PROVE Inv'
<1> DEFINE f == Head(left)
<1>1. f \in Files /\ cmd.id \in RunIds /\ left # << >> /\ pc = "saving" /\ store \subseteq AllKeys
  BY DEF Write, Inv, TypeOK
<1>2. Snapshot(store, proof) \in Snapshots
  BY DEF Inv, TypeOK, Snapshot, Snapshots
<1>3. /\ files' \in [RunIds -> [Files -> {"absent", "torn", "whole"}]]
      /\ \A i \in RunIds : files'[i]["artifacts"] = "absent" => files[i]["artifacts"] = "absent"
      /\ files'[cmd.id][f] = "whole"
      /\ \A i \in RunIds : i # cmd.id \/ f # "artifacts" =>
            files'[i]["artifacts"] = files[i]["artifacts"]
  BY <1>1 DEF Write, Inv, TypeOK, Files
<1>4. /\ saved' \in [RunIds -> Snapshots] /\ bundle' \in [RunIds -> Snapshots]
      /\ held' \in [RunIds -> SUBSET AllKeys] /\ crashes' \in 0..MaxCrashes
  <2>1. Put(f, Snapshot(store, proof))
    BY DEF Write
  <2>2. held' \in [RunIds -> SUBSET AllKeys] /\ crashes' \in 0..MaxCrashes
    BY <1>1 DEF Write, Inv, TypeOK
  <2> QED
    BY <1>2, <2>1, <2>2, PutType
<1>5. /\ SavedKeysSurvive' /\ held'[cmd.id] \subseteq store
      /\ \A i \in RunIds : files'[i]["artifacts"] = "absent" => held'[i] = {}
  <2>1. CASE f = "artifacts"
    <3>1. /\ saved'[cmd.id].keys = store /\ held'[cmd.id] = held[cmd.id] \cup store
          /\ held[cmd.id] \subseteq store
          /\ \A i \in RunIds \ {cmd.id} : saved'[i] = saved[i] /\ held'[i] = held[i]
      BY <1>1, <2>1 DEF Write, Put, Snapshot, Inv, TypeOK, KeysOK
    <3>2. SavedKeysSurvive'
      BY <1>3, <3>1 DEF Inv, KeysOK, SavedKeysSurvive
    <3>3. \A i \in RunIds : files'[i]["artifacts"] = "absent" => held'[i] = {}
      BY <1>3, <2>1, <3>1 DEF Inv, KeysOK
    <3> QED
      BY <3>1, <3>2, <3>3
  <2>2. CASE f # "artifacts"
    <3>1. saved' = saved /\ held' = held
      BY <2>2 DEF Write, Put
    <3>2. SavedKeysSurvive'
      BY <1>3, <2>2, <3>1 DEF Inv, KeysOK, SavedKeysSurvive
    <3>3. \A i \in RunIds : files'[i]["artifacts"] = "absent" => held'[i] = {}
      BY <1>3, <2>2, <3>1 DEF Inv, KeysOK
    <3>4. held'[cmd.id] \subseteq store
      BY <1>1, <3>1 DEF Inv, KeysOK
    <3> QED
      BY <3>2, <3>3, <3>4
  <2> QED
    BY <2>1, <2>2
<1>6. CASE Len(left) = 1
  <2>1. Rest
    BY <1>6 DEF Write
  <2> QED
    BY <2>1, <1>3, <1>4, <1>5, RestInv
<1>7. CASE Len(left) # 1
  <2>1. left' = Tail(left) /\ UNCHANGED <<pc, cmd, store, route, at, skipped, proof>>
    BY <1>7 DEF Write
  <2>2. left' \in Seq(Files) /\ left' # << >>
    <3>1. left \in Seq(Files) /\ left # << >>
      BY <1>1 DEF Inv, TypeOK
    <3>2. Tail(left) \in Seq(Files) /\ Len(Tail(left)) = Len(left) - 1
      BY <3>1, HeadTailProperties
    <3>3. Len(left) \in Nat \ {0} /\ Len(<< >>) = 0
      BY <3>1, EmptySeq
    <3>4. Len(Tail(left)) # 0
      BY <1>7, <3>2, <3>3
    <3>5. Tail(left) # << >>
      BY <3>3, <3>4, Zenon
    <3> QED
      BY <2>1, <3>2, <3>5
  <2>3. TypeOK'
    BY <1>3, <1>4, <2>1, <2>2 DEF Inv, TypeOK
  <2>4. (IdleOK /\ SkillOK /\ PlanningOK /\ PlannedOK)'
    BY <2>1 DEF Inv, IdleOK, SkillOK, PlanningOK, PlannedOK, Planned
  <2>5. KeysOK'
    BY <1>1, <1>5, <2>1 DEF KeysOK
  <2> QED
    BY <2>3, <2>4, <2>5 DEF Inv
<1> QED
  BY <1>6, <1>7

LEMMA PlanStepInv == ASSUME Inv, NEW s \in Skills, PlanStep(s) PROVE Inv'
<1> DEFINE C == Candidates(cmd.goal)
           R == Range(route)
<1>1. /\ pc = "planning" /\ cmd.goal \in Goals /\ cmd.kind = "plan"
      /\ R \subseteq C /\ store = Made(R)
      /\ \A t \in R : Registry[t].consumes \subseteq store
      /\ \A S \in ClosedSets(C) : R \subseteq S
  BY DEF PlanStep, Inv, PlanningOK
<1>2. s \in C /\ Registry[s].consumes \subseteq store
  BY DEF PlanStep, ReadyNow, Ready, Satisfied
<1>3. /\ store' = store \cup Registry[s].makes /\ route' = Append(route, s)
      /\ UNCHANGED <<pc, cmd, at, skipped, proof, left, disk>>
  BY DEF PlanStep
<1>4. Range(route') = R \cup {s} /\ route' \in Seq(Skills)
  BY <1>3, RangeType DEF Inv, TypeOK
<1>5. store' = Made(Range(route'))
  BY <1>1, <1>3, <1>4 DEF Made
<1>6. ASSUME NEW S \in ClosedSets(C) PROVE R \cup {s} \subseteq S
  <2>1. R \subseteq S /\ Closed(S, C)
    BY <1>1 DEF ClosedSets
  <2>2. Made(R) \subseteq Made(S)
    BY <2>1 DEF Made
  <2>3. Registry[s].consumes \subseteq Made(S)
    BY <1>1, <1>2, <2>2
  <2> QED
    BY <1>2, <2>1, <2>3 DEF Closed
<1>7. PlanningOK'
  BY <1>1, <1>2, <1>3, <1>4, <1>5, <1>6 DEF PlanningOK
<1>8. TypeOK'
  BY <1>3, <1>4, RegistryType, KeysType DEF Inv, TypeOK, disk
<1>9. (IdleOK /\ SkillOK /\ PlannedOK)'
  BY <1>1, <1>3 DEF IdleOK, SkillOK, PlannedOK, Planned
<1>10. KeysOK'
  BY <1>1, <1>3 DEF Inv, KeysOK, SavedKeysSurvive, disk
<1> QED
  BY <1>7, <1>8, <1>9, <1>10 DEF Inv

\* A plan that ends has run the least closed set of its candidates.
LEMMA PlanMadeInv == ASSUME Inv, PlanMade PROVE Inv'
<1> DEFINE C == Candidates(cmd.goal)
           R == Range(route)
<1>1. /\ pc = "planning" /\ cmd.goal \in Goals /\ cmd.kind = "plan"
      /\ R \subseteq C /\ store = Made(R)
      /\ \A t \in R : Registry[t].consumes \subseteq store
      /\ \A S \in ClosedSets(C) : R \subseteq S
  BY DEF PlanMade, Inv, PlanningOK
<1>2. \A t \in C : Registry[t].consumes \subseteq store => t \in R /\ ~Registry[t].repeatable
  BY DEF PlanMade, ReadyNow, Ready, Satisfied, MayRun
<1>3. R \in ClosedSets(C)
  BY <1>1, <1>2 DEF ClosedSets, Closed
<1>4. Least(C) = R
  BY <1>1, <1>3 DEF Least
<1>5. Warranted[cmd.goal] = R
  BY <1>1, <1>4 DEF Warranted
<1>6. ~Spins(cmd.goal)
  BY <1>1, <1>2, <1>5 DEF Spins
<1>7. ProveAndSave("workflow", route, PlanTargets, store \cup Reports) /\ cmd' = cmd
  BY DEF PlanMade
<1>8. /\ UNCHANGED <<route, at, skipped, disk>> /\ pc' = "saving" /\ left' = SaveOrder
      /\ store \subseteq store' /\ store' \in SUBSET AllKeys /\ proof' \in Proofs
  BY <1>7, KeysType, ProofType DEF ProveAndSave, Inv, TypeOK
<1>9. PlannedOK'
  BY <1>1, <1>5, <1>6, <1>7, <1>8 DEF PlannedOK
<1>10. cmd' \in Commands /\ cmd'.id \in RunIds
  BY <1>1, <1>7 DEF Inv, TypeOK
<1>11. held[cmd'.id] \subseteq store'
  BY <1>1, <1>7, <1>10 DEF Inv, KeysOK
<1> QED
  BY <1>8, <1>9, <1>10, <1>11, SavingInv

LEMMA RouteStepsInv == ASSUME Inv, RoutePasses \/ RouteStep PROVE Inv'
<1>1. /\ pc = "routing" /\ UNCHANGED <<pc, cmd, left, disk>> /\ at' = at + 1
      /\ Step \in Skills
  <2>1. pc = "routing" /\ UNCHANGED <<pc, cmd, left, disk>> /\ at' = at + 1 /\ at < Len(Declared)
    BY DEF RoutePasses, RouteStep, MustRun, OnRoute
  <2>2. Declared \in Seq(Skills) /\ at \in Nat
    BY <2>1, RegistryType DEF Declared, Inv, TypeOK
  <2> QED
    BY <2>1, <2>2 DEF Step
<1>2. store' \subseteq AllKeys /\ route' \in Seq(Skills) /\ skipped' \subseteq Skills /\ proof' \in Proofs
  <2>1. CASE RoutePasses
    BY <1>1, <2>1 DEF RoutePasses, Inv, TypeOK
  <2>2. CASE RouteStep
    <3>1. << >> \in Seq(Skills)
      OBVIOUS
    <3>2. RouteProof("workflow", << >>, {}, {}, store) \in Proofs
      BY <3>1, ProofType
    <3> QED
      BY <1>1, <2>2, <3>2, RegistryType, KeysType DEF RouteStep, Inv, TypeOK
  <2> QED
    BY <2>1, <2>2
<1>3. TypeOK'
  BY <1>1, <1>2 DEF Inv, TypeOK, disk
<1>4. (IdleOK /\ SkillOK /\ PlanningOK /\ PlannedOK)'
  BY <1>1 DEF Inv, IdleOK, SkillOK, PlanningOK, PlannedOK, Planned
<1>5. KeysOK'
  BY <1>1 DEF Inv, KeysOK, SavedKeysSurvive, disk
<1> QED
  BY <1>3, <1>4, <1>5 DEF Inv

LEMMA RouteMadeInv == ASSUME Inv, RouteMade PROVE Inv'
<1>1. /\ pc = "routing" /\ cmd' = cmd
      /\ ProveAndSave("standalone", Declared, Registry[cmd.skill].outputs, store)
  BY DEF RouteMade
<1>2. cmd.skill \in Skills /\ cmd.id \in RunIds /\ cmd \in Commands
  BY <1>1 DEF Inv, TypeOK
<1>3. Declared \in Seq(Skills) /\ Registry[cmd.skill].outputs \subseteq AllKeys
  BY <1>2, RegistryType, KeysType DEF Declared
<1>4. /\ UNCHANGED <<route, at, skipped, disk>> /\ pc' = "saving" /\ left' = SaveOrder
      /\ store' \in SUBSET AllKeys /\ proof' \in Proofs
  BY <1>1, <1>3, KeysType, ProofType DEF ProveAndSave, Inv, TypeOK
<1>5. held[cmd'.id] \subseteq store'
  BY <1>1, <1>2 DEF Inv, KeysOK
<1>6. PlannedOK'
  <2>1. cmd.kind # "plan"
    BY <1>1 DEF Inv, SkillOK
  <2> QED
    BY <1>1, <2>1 DEF PlannedOK, Planned
<1> QED
  BY <1>1, <1>2, <1>4, <1>5, <1>6, SavingInv

\* What replay and export load of a run is not less than what its file has held.
LEMMA LoadedAll ==
    ASSUME Inv, NEW i \in RunIds, Readable(i, "artifacts")
    PROVE  /\ held[i] \subseteq Loaded(i).keys
           /\ Loaded(i).keys \subseteq AllKeys /\ Loaded(i).proof \in Proofs
  BY NoProofType DEF Inv, TypeOK, KeysOK, SavedKeysSurvive, Readable, Loaded, Files, Snapshot, Snapshots

LEMMA ReplayInv == ASSUME Inv, NEW i \in RunIds, Replay(i) PROVE Inv'
<1> DEFINE made == Registry["operator-summarizer"].makes
           keys == Loaded(i).keys \cup made
           path == <<"replay", "operator-summarizer">>
<1>1. /\ cmd' = [NoCommand EXCEPT !.kind = "replay", !.id = i] /\ Readable(i, "artifacts")
      /\ ProveAndSave("operations", path, ReplayTargets, keys)
  BY DEF Replay
<1>2. cmd' \in Commands /\ cmd'.id = i /\ cmd'.kind = "replay"
  BY <1>1 DEF NoCommand, Commands
<1>3. path \in Seq(Skills) /\ made \subseteq AllKeys
  BY RunsAssumption, RegistryType, KeysType
<1>4. keys \subseteq AllKeys /\ held[i] \subseteq keys
  BY <1>1, <1>3, LoadedAll
<1>5. proof' \in Proofs
  BY <1>1, <1>3, KeysType, ProofType DEF ProveAndSave
<1>6. /\ UNCHANGED <<route, at, skipped, disk>> /\ pc' = "saving" /\ left' = SaveOrder
      /\ store' \in SUBSET AllKeys /\ keys \subseteq store'
  BY <1>1, <1>4, KeysType DEF ProveAndSave
<1>7. PlannedOK'
  BY <1>2 DEF PlannedOK, Planned
<1> QED
  BY <1>2, <1>4, <1>5, <1>6, <1>7, SavingInv

LEMMA ExportInv == ASSUME Inv, NEW i \in RunIds, Export(i) PROVE Inv'
<1> DEFINE made == Registry["operator-summarizer"].makes
<1>1. /\ cmd' = [NoCommand EXCEPT !.kind = "export", !.id = i] /\ Readable(i, "artifacts")
      /\ store' = Loaded(i).keys \cup made /\ proof' = Loaded(i).proof
      /\ left' = ExportOrder /\ pc' = "saving" /\ UNCHANGED <<route, at, skipped, disk>>
  BY DEF Export
<1>2. cmd' \in Commands /\ cmd'.id = i /\ cmd'.kind = "export"
  BY <1>1 DEF NoCommand, Commands
<1>3. made \subseteq AllKeys
  BY RunsAssumption, RegistryType, KeysType
<1>4. held[i] \subseteq store' /\ store' \in SUBSET AllKeys /\ proof' \in Proofs
  BY <1>1, <1>3, LoadedAll
<1>5. PlannedOK'
  BY <1>2 DEF PlannedOK, Planned
<1> QED
  BY <1>1, <1>2, <1>4, <1>5, SavingInv

LEMMA EndedInv ==
    ASSUME Inv,
           \/ \E s \in Skills : PlanThrows(s)
           \/ PlanBlocked \/ RouteThrows \/ RouteLacking \/ Crash
    PROVE  Inv'
<1>1. Rest /\ UNCHANGED <<files, saved, bundle, held>>
  BY DEF PlanThrows, PlanBlocked, RouteThrows, RouteLacking, Crash, disk
<1>2. crashes' \in 0..MaxCrashes
  <2>1. CASE Crash
    BY <2>1, RunsAssumption DEF Crash, Inv, TypeOK
  <2>2. CASE ~Crash
    BY <2>2 DEF PlanThrows, PlanBlocked, RouteThrows, RouteLacking, disk, Inv, TypeOK
  <2> QED
    BY <2>1, <2>2
<1> QED
  BY <1>1, <1>2, RestKeepingDisk

LEMMA NextInv == ASSUME Inv, [Next]_vars PROVE Inv'
<1>1. CASE Start
  BY <1>1, StartPlanInv, StartSkillInv, ReplayInv, ExportInv DEF Start
<1>2. CASE Routing
  BY <1>2, RouteStepsInv, RouteMadeInv, EndedInv DEF Routing
<1>3. CASE Planning
  BY <1>3, PlanStepInv, PlanMadeInv, EndedInv DEF Planning
<1>4. CASE UNCHANGED vars
  BY <1>4 DEF vars, Inv, TypeOK, IdleOK, PlanningOK, PlannedOK, Planned, KeysOK, SavedKeysSurvive,
              SkillOK
<1> QED
  BY <1>1, <1>2, <1>3, <1>4, TruncateInv, WriteInv, EndedInv DEF Next, Progress

-----------------------------------------------------------------------------
(* The theorems.                                                           *)

LEMMA SpecInv == Spec => []Inv
  BY InitInv, NextInv, PTL DEF Spec

\* The files, the store and what the process holds in memory have their types,
\* whichever skills are installed and wherever the process dies.
THEOREM TypeCorrect == Spec => []TypeOK
<1>1. Inv => TypeOK
  BY DEF Inv
<1> QED
  BY <1>1, SpecInv, PTL

\* runPlanningGraph runs the least set of skills that its goal warrants, whatever
\* handoffs, scores and names there are: the order it chooses decides nothing else.
THEOREM PlansAreWarranted == Spec => []PlanIsWarranted
<1>1. Inv => PlanIsWarranted
  BY DEF Inv, PlannedOK, PlanIsWarranted
<1> QED
  BY <1>1, SpecInv, PTL

\* With any registry, a goal that makes a repeatable skill ready never becomes a
\* plan: the loop of runPlanningGraph has no way out.
THEOREM SpinningIsNeverPlanned == Spec => []SpinningGoalsAreNeverPlanned
<1>1. Inv => SpinningGoalsAreNeverPlanned
  BY DEF Inv, PlannedOK, SpinningGoalsAreNeverPlanned
<1> QED
  BY <1>1, SpecInv, PTL

\* Whatever plans, skill runs, replays and exports follow each other and wherever they
\* die, an artifacts file that is whole holds every key it has ever held.
THEOREM KeysSurvive == Spec => []SavedKeysSurvive
<1>1. Inv => SavedKeysSurvive
  BY DEF Inv, KeysOK
<1> QED
  BY <1>1, SpecInv, PTL

-----------------------------------------------------------------------------
(* Resume points.                                                          *)

\* One step of an explicit route.
StepOn(path, i, prior, skip) ==
    LET s == path[i]
    IN  IF ~prior.ok \/ Superfluous(s, {path[j] : j \in 1..(i - 1)}) THEN prior
        ELSE IF ~Satisfied(s, prior.store) THEN [prior EXCEPT !.ok = FALSE]
        ELSE IF CanSkip(s, prior.store, skip) THEN prior
        ELSE [prior EXCEPT !.store = @ \cup Registry[s].makes]

Outcomes == [ok : BOOLEAN, store : SUBSET AllKeys]

IsRun(run, n, path, given, skip) ==
    run = [i \in 0..n |-> IF i = 0 THEN [ok |-> TRUE, store |-> given]
                                   ELSE StepOn(path, i, run[i - 1], skip)]

\* Counting up to n, for a set of numbers.
LEMMA CountUp ==
    ASSUME NEW n \in Nat, NEW C, 0 \in C, \A i \in 0..(n - 1) : i \in C => i + 1 \in C
    PROVE  n \in C
<1> DEFINE Bad == (0..n) \ C
<1>1. ASSUME NEW i \in Bad, \A j \in Bad : ~(<<j, i>> \in OpToRel(<, Nat)) PROVE FALSE
  <2>1. i \in 0..n /\ i # 0 /\ i - 1 \in 0..(n - 1) /\ i - 1 \in 0..n /\ i = (i - 1) + 1
    OBVIOUS
  <2>2. i - 1 \in Bad
    BY <2>1
  <2>3. <<i - 1, i>> \in OpToRel(<, Nat)
    BY <2>1 DEF OpToRel
  <2> QED
    BY <1>1, <2>2, <2>3
<1>2. Bad \subseteq Nat
  OBVIOUS
<1>3. Bad = {}
  <2>1. ASSUME Bad # {} PROVE FALSE
    <3> HIDE DEF Bad
    <3>1. PICK i \in Bad : \A j \in Bad : ~(<<j, i>> \in OpToRel(<, Nat))
      BY <1>2, <2>1, NatLessThanWellFounded, WFMin
    <3> QED
      BY <1>1, <3>1
  <2> QED
    BY <2>1
<1> QED
  BY <1>3

LEMMA RunExists ==
    ASSUME NEW n \in Nat, NEW path, NEW given, NEW skip
    PROVE  \E run : IsRun(run, n, path, given, skip)
<1> DEFINE C == {m \in Nat : \E run : IsRun(run, m, path, given, skip)}
<1>1. 0 \in C
  <2> DEFINE first == [i \in 0..0 |-> [ok |-> TRUE, store |-> given]]
  <2>1. IsRun(first, 0, path, given, skip)
    BY DEF IsRun
  <2> QED
    BY <2>1
<1>2. ASSUME NEW m \in 0..(n - 1), m \in C PROVE m + 1 \in C
  <2>1. PICK g : IsRun(g, m, path, given, skip)
    BY <1>2
  <2> DEFINE h == [i \in 0..(m + 1) |-> IF i = m + 1 THEN StepOn(path, i, g[m], skip) ELSE g[i]]
  <2>2. \A i \in 0..m : g[i] = IF i = 0 THEN [ok |-> TRUE, store |-> given]
                                       ELSE StepOn(path, i, g[i - 1], skip)
    BY <2>1 DEF IsRun
  <2>3. \A i \in 0..m : h[i] = g[i]
    OBVIOUS
  <2>4. ASSUME NEW i \in 0..(m + 1)
        PROVE  h[i] = IF i = 0 THEN [ok |-> TRUE, store |-> given]
                               ELSE StepOn(path, i, h[i - 1], skip)
    <3>1. CASE i = m + 1
      <4>1. i # 0 /\ i - 1 = m /\ m \in 0..m /\ h[i] = StepOn(path, i, g[m], skip)
        BY <3>1
      <4>2. h[m] = g[m]
        BY <2>3, <4>1
      <4> HIDE DEF h
      <4> QED
        BY <4>1, <4>2
    <3>2. CASE i # m + 1
      <4>1. i \in 0..m /\ (i # 0 => i - 1 \in 0..m)
        BY <3>2
      <4> HIDE DEF h
      <4> QED
        BY <2>2, <2>3, <4>1
    <3> QED
      BY <3>1, <3>2
  <2>5. IsRun(h, m + 1, path, given, skip)
    <3>1. h = [i \in 0..(m + 1) |-> h[i]]
      OBVIOUS
    <3> HIDE DEF h
    <3> QED
      BY <2>4, <3>1 DEF IsRun
  <2> HIDE DEF h
  <2> QED
    BY <2>5
<1>3. n \in C
  <2> HIDE DEF C
  <2> QED
    BY <1>1, <1>2, CountUp
<1> QED
  BY <1>3

GoesThrough(run, path, given, skip) ==
    /\ RouteStores(path, given, skip) = run[Len(path)]
    /\ run[0] = [ok |-> TRUE, store |-> given]
    /\ \A i \in 1..Len(path) : run[i] = StepOn(path, i, run[i - 1], skip)

\* RouteStores is the end of such a run.
LEMMA RouteStoresRun ==
    ASSUME NEW path \in Seq(Skills), NEW given, NEW skip
    PROVE  \E run : GoesThrough(run, path, given, skip)
<1> DEFINE n == Len(path)
           run == CHOOSE run : IsRun(run, n, path, given, skip)
<1>1. n \in Nat
  OBVIOUS
<1>2. IsRun(run, n, path, given, skip)
  <2> HIDE DEF n
  <2> QED
    BY <1>1, RunExists
<1>3. RouteStores(path, given, skip) = run[n]
  BY DEF RouteStores, IsRun, StepOn
<1> HIDE DEF run
<1>4. \A i \in 0..n : run[i] = IF i = 0 THEN [ok |-> TRUE, store |-> given]
                                        ELSE StepOn(path, i, run[i - 1], skip)
  BY <1>2 DEF IsRun
<1>5. run[0] = [ok |-> TRUE, store |-> given]
  <2>1. 0 \in 0..n
    BY <1>1
  <2> HIDE DEF n
  <2> QED
    BY <1>4, <2>1
<1>6. ASSUME NEW i \in 1..n PROVE run[i] = StepOn(path, i, run[i - 1], skip)
  <2>1. i \in 0..n /\ i # 0
    BY <1>1
  <2> HIDE DEF n
  <2> QED
    BY <1>4, <2>1
<1> QED
  BY <1>3, <1>5, <1>6 DEF GoesThrough

\* A step goes as well from more keys, and whatever --skip-satisfied passes over
\* has left its keys already.
LEMMA StepGoesWithMore ==
    ASSUME NEW path \in Seq(Skills), NEW i \in 1..Len(path),
           NEW less \in Outcomes, NEW more \in Outcomes,
           \A s \in Skills : Registry[s].makes \subseteq Registry[s].produces \cup Registry[s].consumes,
           less.ok => more.ok /\ less.store \subseteq more.store
    PROVE  /\ StepOn(path, i, less, FALSE) \in Outcomes
           /\ StepOn(path, i, more, TRUE) \in Outcomes
           /\ StepOn(path, i, less, FALSE).ok =>
                  /\ StepOn(path, i, more, TRUE).ok
                  /\ StepOn(path, i, less, FALSE).store \subseteq StepOn(path, i, more, TRUE).store
<1> DEFINE s == path[i]
           before == {path[j] : j \in 1..(i - 1)}
           to == StepOn(path, i, less, FALSE)
           from == StepOn(path, i, more, TRUE)
<1>1. s \in Skills
  OBVIOUS
<1>2. /\ Registry[s].makes \subseteq AllKeys
      /\ Registry[s].makes \subseteq Registry[s].produces \cup Registry[s].consumes
  BY <1>1, RegistryType, KeysType
<1>3. CASE ~less.ok
  <2>1. to = less
    BY <1>3 DEF StepOn
  <2>2. from \in Outcomes
    BY <1>2 DEF StepOn, Outcomes
  <2> QED
    BY <1>3, <2>1, <2>2
<1>4. CASE less.ok /\ Superfluous(s, before)
  <2>1. to = less /\ from = more
    BY <1>4 DEF StepOn
  <2> QED
    BY <1>4, <2>1
<1>5. CASE less.ok /\ ~Superfluous(s, before) /\ ~Satisfied(s, less.store)
  <2>1. to = [less EXCEPT !.ok = FALSE]
    BY <1>5 DEF StepOn
  <2>2. to \in Outcomes /\ ~to.ok
    BY <2>1 DEF Outcomes
  <2>3. from \in Outcomes
    BY <1>2 DEF StepOn, Outcomes
  <2> QED
    BY <2>2, <2>3
<1>6. CASE less.ok /\ ~Superfluous(s, before) /\ Satisfied(s, less.store)
  <2>1. Satisfied(s, more.store)
    BY <1>6 DEF Satisfied
  <2>2. to = [less EXCEPT !.store = @ \cup Registry[s].makes]
    BY <1>6 DEF StepOn, CanSkip
  <2>3. to \in Outcomes /\ to.ok /\ to.store = less.store \cup Registry[s].makes
    BY <1>2, <1>6, <2>2 DEF Outcomes
  <2>4. CASE CanSkip(s, more.store, TRUE)
    <3>1. from = more
      BY <1>6, <2>1, <2>4 DEF StepOn
    <3>2. Registry[s].makes \subseteq more.store
      BY <1>2, <2>1, <2>4 DEF CanSkip, Satisfied
    <3> QED
      BY <1>6, <2>3, <3>1, <3>2
  <2>5. CASE ~CanSkip(s, more.store, TRUE)
    <3>1. from = [more EXCEPT !.store = @ \cup Registry[s].makes]
      BY <1>6, <2>1, <2>5 DEF StepOn
    <3>2. from \in Outcomes /\ from.ok /\ from.store = more.store \cup Registry[s].makes
      BY <1>2, <1>6, <3>1 DEF Outcomes
    <3> QED
      BY <1>6, <2>3, <3>2
  <2> QED
    BY <2>4, <2>5
<1> QED
  BY <1>3, <1>4, <1>5, <1>6

\* So does a whole route.
LEMMA RouteGoesWithMore ==
    ASSUME NEW path \in Seq(Skills), NEW given, NEW keys \in SUBSET AllKeys, given \subseteq keys,
           \A s \in Skills : Registry[s].makes \subseteq Registry[s].produces \cup Registry[s].consumes,
           RouteStores(path, given, FALSE).ok
    PROVE  /\ RouteStores(path, keys, TRUE).ok
           /\ RouteStores(path, given, FALSE).store \subseteq RouteStores(path, keys, TRUE).store
<1> DEFINE n == Len(path)
<1>1. PICK less : GoesThrough(less, path, given, FALSE)
  BY RouteStoresRun
<1>2. PICK more : GoesThrough(more, path, keys, TRUE)
  BY RouteStoresRun
<1> DEFINE C == {i \in Nat : /\ less[i] \in Outcomes /\ more[i] \in Outcomes
                             /\ less[i].ok => more[i].ok /\ less[i].store \subseteq more[i].store}
<1>3. 0 \in C
  <2>1. /\ less[0] = [ok |-> TRUE, store |-> given] /\ given \subseteq AllKeys
        /\ more[0] = [ok |-> TRUE, store |-> keys]
    BY <1>1, <1>2 DEF GoesThrough
  <2>2. less[0] \in Outcomes /\ more[0] \in Outcomes
    BY <2>1 DEF Outcomes
  <2> QED
    BY <2>1, <2>2
<1>4. ASSUME NEW i \in 0..(n - 1), i \in C PROVE i + 1 \in C
  <2>1. i + 1 \in 1..n /\ (i + 1) - 1 = i /\ i + 1 \in Nat /\ n \in Nat
    OBVIOUS
  <2>2. less[i + 1] = StepOn(path, i + 1, less[i], FALSE) /\ more[i + 1] = StepOn(path, i + 1, more[i], TRUE)
    <3> HIDE DEF n
    <3>1. less[i + 1] = StepOn(path, i + 1, less[(i + 1) - 1], FALSE)
      BY <1>1, <2>1 DEF GoesThrough, n
    <3>2. more[i + 1] = StepOn(path, i + 1, more[(i + 1) - 1], TRUE)
      BY <1>2, <2>1 DEF GoesThrough, n
    <3> QED
      BY <2>1, <3>1, <3>2
  <2>3. /\ less[i] \in Outcomes /\ more[i] \in Outcomes
        /\ less[i].ok => more[i].ok /\ less[i].store \subseteq more[i].store
    BY <1>4
  <2> QED
    BY <2>1, <2>2, <2>3, StepGoesWithMore
<1>5. n \in C
  <2>1. n \in Nat
    OBVIOUS
  <2> HIDE DEF C, n
  <2> QED
    BY <1>3, <1>4, <2>1, CountUp
<1> QED
  BY <1>1, <1>2, <1>5 DEF GoesThrough

\* What the invariant says of a snapshot: each resume point of its proof resumes
\* from keys that it holds.
Resumable(keys, p) ==
    p.kind \in {"workflow", "standalone"}
    => \A s \in p.resume : \E given \in SUBSET keys : Resumes(s, given, FALSE)

PlannedLeaves == pc = "planning" => \A s \in Range(route) : Leaves(s) \subseteq store
RoutedLeaves ==
    pc = "routing" => /\ \A s \in Range(route) : Leaves(s) \subseteq store
                      /\ at <= Len(Declared)
                      /\ \A j \in 1..at : Leaves(Declared[j]) \subseteq store
SnapshotsResume ==
    /\ \A i \in RunIds : /\ Resumable(saved[i].keys, saved[i].proof)
                         /\ Resumable(bundle[i].keys, bundle[i].proof)
    /\ pc = "saving" => Resumable(store, proof)

Rested == pc = "idle" => at = 0
ResumeInv == Rested /\ PlannedLeaves /\ RoutedLeaves /\ SnapshotsResume

LEMMA ResumesWithMore ==
    ASSUME RoutesAreWhole, NEW s \in Skills, NEW given, NEW keys \in SUBSET AllKeys,
           given \subseteq keys, Resumes(s, given, FALSE)
    PROVE  Resumes(s, keys, TRUE)
<1> DEFINE path == Registry[s].route
<1>1. path \in Seq(Skills)
  BY RegistryType
<1>2. RouteStores(path, given, FALSE).ok /\ OutputsThere(s, RouteStores(path, given, FALSE).store)
  BY DEF Resumes
<1>3. /\ RouteStores(path, keys, TRUE).ok
      /\ RouteStores(path, given, FALSE).store \subseteq RouteStores(path, keys, TRUE).store
  BY <1>1, <1>2, RouteGoesWithMore DEF RoutesAreWhole
<1>4. OutputsThere(s, RouteStores(path, keys, TRUE).store)
  BY <1>2, <1>3 DEF OutputsThere
<1> QED
  BY <1>3, <1>4 DEF Resumes

LEMMA ResumableWithMore ==
    ASSUME NEW keys, NEW more, keys \subseteq more, NEW p, Resumable(keys, p)
    PROVE  Resumable(more, p)
  BY DEF Resumable

LEMMA NoProofResumes == ASSUME NEW keys PROVE Resumable(keys, NoProof)
  BY DEF Resumable, NoProof, RouteProof

LEMMA InitResume == Init => ResumeInv
  BY NoProofResumes
     DEF Init, ResumeInv, Rested, PlannedLeaves, RoutedLeaves, SnapshotsResume, Snapshot

\* A plan resumes from what its skills have left.
LEMMA PlanMadeResume == ASSUME RoutesAreWhole, Inv, ResumeInv, PlanMade PROVE ResumeInv'
<1>1. /\ pc = "planning" /\ Range(route) \subseteq Candidates(cmd.goal)
      /\ \A s \in Range(route) : Leaves(s) \subseteq store
  BY DEF PlanMade, Inv, PlanningOK, ResumeInv, PlannedLeaves
<1>2. /\ pc' = "saving" /\ UNCHANGED <<route, at, disk>> /\ store \subseteq store'
      /\ proof'.resume = ResumePoints(route)
  BY DEF PlanMade, ProveAndSave, RouteProof
<1>3. \A s \in ResumePoints(route) : s \in Range(route) /\ s \in PlanningSkills /\ Certified(s)
  BY <1>1 DEF ResumePoints, Candidates
<1>4. \A s \in ResumePoints(route) : Leaves(s) \in SUBSET store' /\ Resumes(s, Leaves(s), FALSE)
  BY <1>1, <1>2, <1>3 DEF RoutesAreWhole
<1>5. Resumable(store', proof')
  BY <1>2, <1>4 DEF Resumable
<1> QED
  BY <1>1, <1>2, <1>5
     DEF ResumeInv, Rested, PlannedLeaves, RoutedLeaves, SnapshotsResume, disk

\* A declared route resumes from what its steps and its outputs left.
LEMMA RouteMadeResume == ASSUME RoutesAreWhole, Inv, ResumeInv, RouteMade PROVE ResumeInv'
<1>1. /\ pc = "routing" /\ at = Len(Declared) /\ OutputsThere(cmd.skill, store)
      /\ pc' = "saving" /\ UNCHANGED <<route, at, disk>> /\ store \subseteq store'
      /\ proof'.resume = ResumePoints(Declared)
  BY DEF RouteMade, ProveAndSave, RouteProof
<1>2. cmd.skill \in Skills /\ Declared \in Seq(Skills)
  BY <1>1, RegistryType DEF Inv, TypeOK, Declared
<1>3. \A s \in Range(Declared) : Leaves(s) \subseteq store
  <2>1. \A j \in 1..Len(Declared) : Leaves(Declared[j]) \subseteq store
    BY <1>1 DEF ResumeInv, RoutedLeaves
  <2>2. DOMAIN Declared = 1..Len(Declared)
    BY <1>2
  <2> QED
    BY <2>1, <2>2 DEF Range
<1>4. RouteLeaves(cmd.skill) \subseteq store
  <2> DEFINE outputs == IF cmd.skill = "replay" THEN {} ELSE Registry[cmd.skill].outputs
             steps == UNION {Leaves(t) : t \in Range(Declared)}
  <2>1. outputs \subseteq store
    BY <1>1 DEF OutputsThere
  <2>2. steps \subseteq store
    BY <1>3
  <2>3. RouteLeaves(cmd.skill) = outputs \cup steps
    BY DEF RouteLeaves, Declared
  <2> HIDE DEF outputs, steps
  <2> QED
    BY <2>1, <2>2, <2>3
<1>5. \A s \in ResumePoints(Declared) : Resumes(s, RouteLeaves(cmd.skill), FALSE)
  BY <1>2 DEF RoutesAreWhole, ResumePoints, Declared
<1>6. Resumable(store', proof')
  <2>1. RouteLeaves(cmd.skill) \in SUBSET store'
    BY <1>1, <1>4
  <2> QED
    BY <1>1, <1>5, <2>1 DEF Resumable
<1> QED
  BY <1>1, <1>6
     DEF ResumeInv, Rested, PlannedLeaves, RoutedLeaves, SnapshotsResume, disk

LEMMA PlanStepResume == ASSUME Inv, ResumeInv, NEW s \in Skills, PlanStep(s) PROVE ResumeInv'
<1>1. /\ pc = "planning" /\ pc' = pc /\ UNCHANGED disk /\ at' = at
      /\ store' = store \cup Registry[s].makes /\ route' = Append(route, s)
      /\ Registry[s].consumes \subseteq store
  BY DEF PlanStep, ReadyNow, Ready, Satisfied
<1>2. Range(route') = Range(route) \cup {s}
  BY <1>1, RangeType DEF Inv, TypeOK
<1>3. \A t \in Range(route') : Leaves(t) \subseteq store'
  BY <1>1, <1>2 DEF ResumeInv, PlannedLeaves, Leaves
<1> QED
  BY <1>1, <1>3
     DEF ResumeInv, Rested, PlannedLeaves, RoutedLeaves, SnapshotsResume, disk

\* A step that is passed over has left its keys before, and one that runs leaves
\* them now.
LEMMA RouteStepsResume ==
    ASSUME RoutesAreWhole, Inv, ResumeInv, RoutePasses \/ RouteStep
    PROVE  ResumeInv'
<1>1. /\ pc = "routing" /\ UNCHANGED <<pc, cmd, disk>> /\ at' = at + 1 /\ at < Len(Declared)
  BY DEF RoutePasses, RouteStep, MustRun, OnRoute
<1>2. cmd.skill \in Skills /\ Declared \in Seq(Skills) /\ at \in Nat
  BY <1>1, RegistryType DEF Inv, TypeOK, Declared
<1>3. Step \in Skills
  BY <1>1, <1>2 DEF Step
<1>4. /\ \A s \in Range(route) : Leaves(s) \subseteq store
      /\ \A j \in 1..at : Leaves(Declared[j]) \subseteq store
  BY <1>1 DEF ResumeInv, RoutedLeaves
<1>5. /\ store \subseteq store' /\ Leaves(Step) \subseteq store'
      /\ \A s \in Range(route') : Leaves(s) \subseteq store'
  <2>1. CASE RoutePasses /\ Superfluous(Step, Range(route))
    BY <1>4, <2>1 DEF RoutePasses, Superfluous
  <2>2. CASE RoutePasses /\ ~Superfluous(Step, Range(route))
    <3>1. Satisfied(Step, store) /\ CanSkip(Step, store, cmd.skip) /\ UNCHANGED <<store, route>>
      BY <2>2 DEF RoutePasses
    <3> QED
      BY <1>3, <1>4, <3>1 DEF Satisfied, CanSkip, Leaves, RoutesAreWhole
  <2>3. CASE RouteStep
    <3>1. /\ Satisfied(Step, store) /\ store' = store \cup Registry[Step].makes
          /\ route' = Append(route, Step)
      BY <2>3 DEF RouteStep
    <3>2. Range(route') = Range(route) \cup {Step}
      BY <1>3, <3>1, RangeType DEF Inv, TypeOK
    <3> QED
      BY <1>4, <3>1, <3>2 DEF Satisfied, Leaves
  <2> QED
    BY <2>1, <2>2, <2>3
<1>6. \A j \in 1..at' : Leaves(Declared[j]) \subseteq store'
  <2> SUFFICES ASSUME NEW j \in 1..at' PROVE Leaves(Declared[j]) \subseteq store'
    OBVIOUS
  <2>1. CASE j = at + 1
    BY <1>5, <2>1 DEF Step
  <2>2. CASE j # at + 1
    <3>1. j \in 1..at
      BY <1>1, <1>2, <2>2
    <3> QED
      BY <1>4, <1>5, <3>1
  <2> QED
    BY <2>1, <2>2
<1>7. at' <= Len(Declared) /\ Declared' = Declared
  BY <1>1, <1>2 DEF Declared
<1>8. RoutedLeaves'
  BY <1>5, <1>6, <1>7 DEF RoutedLeaves
<1> QED
  BY <1>1, <1>8 DEF ResumeInv, Rested, PlannedLeaves, SnapshotsResume, disk

LEMMA WriteResume == ASSUME Inv, ResumeInv, Write PROVE ResumeInv'
<1>1. pc = "saving" /\ cmd.id \in RunIds /\ Resumable(store, proof)
  BY DEF Write, Inv, TypeOK, ResumeInv, SnapshotsResume
<1>2. \A i \in RunIds : Resumable(saved'[i].keys, saved'[i].proof)
  BY <1>1 DEF Write, Put, Inv, TypeOK, ResumeInv, SnapshotsResume, Snapshot
<1>3. \A i \in RunIds : Resumable(bundle'[i].keys, bundle'[i].proof)
  BY <1>1 DEF Write, Put, Inv, TypeOK, ResumeInv, SnapshotsResume, Snapshot
<1>4. \/ pc' = "idle" /\ at' = 0
      \/ UNCHANGED <<pc, store, proof>>
  BY DEF Write, Rest
<1> QED
  BY <1>1, <1>2, <1>3, <1>4
     DEF ResumeInv, Rested, PlannedLeaves, RoutedLeaves, SnapshotsResume

LEMMA ReplayResume == ASSUME Inv, ResumeInv, NEW i \in RunIds, Replay(i) PROVE ResumeInv'
<1>1. /\ proof'.kind = "operations" /\ pc' = "saving" /\ UNCHANGED disk
  BY DEF Replay, ProveAndSave, RouteProof
<1>2. Resumable(store', proof')
  BY <1>1 DEF Resumable
<1> QED
  BY <1>1, <1>2
     DEF ResumeInv, Rested, PlannedLeaves, RoutedLeaves, SnapshotsResume, disk

LEMMA ExportResume == ASSUME Inv, ResumeInv, NEW i \in RunIds, Export(i) PROVE ResumeInv'
<1>1. /\ Loaded(i).keys \subseteq store' /\ proof' = Loaded(i).proof
      /\ pc' = "saving" /\ UNCHANGED disk
  BY DEF Export
<1>2. Resumable(Loaded(i).keys, Loaded(i).proof)
  BY NoProofResumes DEF Loaded, Snapshot, ResumeInv, SnapshotsResume
<1>3. Resumable(store', proof')
  BY <1>1, <1>2, ResumableWithMore
<1> QED
  BY <1>1, <1>3
     DEF ResumeInv, Rested, PlannedLeaves, RoutedLeaves, SnapshotsResume, disk

LEMMA StartResume ==
    ASSUME Inv, ResumeInv, NEW i \in RunIds,
           \/ \E goal \in Goals : StartPlan(goal, i)
           \/ \E s \in Standalone, source \in Sources, skip \in BOOLEAN : StartSkill(s, source, skip, i)
    PROVE  ResumeInv'
<1>1. /\ pc = "idle" /\ at = 0 /\ route = << >>
      /\ pc' \in {"planning", "routing"} /\ UNCHANGED <<route, at, disk>>
  BY DEF StartPlan, StartSkill, Inv, IdleOK, ResumeInv, Rested
<1>2. Range(route') = {} /\ 1..at' = {}
  BY <1>1 DEF Range
<1>3. pc' = "routing" => cmd'.skill \in Skills
  BY RunsAssumption DEF StartPlan, StartSkill, NoCommand
<1>4. pc' = "routing" => at' <= Len(Declared')
  <2>1. ASSUME pc' = "routing" PROVE Declared' \in Seq(Skills)
    BY <1>3, <2>1, RegistryType DEF Declared
  <2>2. ASSUME pc' = "routing" PROVE Len(Declared') \in Nat
    BY <2>1, <2>2
  <2> QED
    BY <1>1, <2>2
<1> QED
  BY <1>1, <1>2, <1>4
     DEF ResumeInv, Rested, PlannedLeaves, RoutedLeaves, SnapshotsResume, disk

LEMMA NextResume ==
    ASSUME RoutesAreWhole, Inv, ResumeInv, [Next]_vars
    PROVE  ResumeInv'
<1>1. CASE Start
  <2>1. PICK i \in RunIds :
            \/ \E goal \in Goals : StartPlan(goal, i)
            \/ \E s \in Standalone, source \in Sources, skip \in BOOLEAN :
                   StartSkill(s, source, skip, i)
            \/ Replay(i)
            \/ Export(i)
    BY <1>1 DEF Start
  <2> QED
    BY <2>1, StartResume, ReplayResume, ExportResume
<1>2. CASE Truncate
  <2>1. /\ UNCHANGED <<pc, cmd, store, route, at, skipped, proof, left>>
        /\ Put(Head(left), Snapshot({}, NoProof)) /\ cmd.id \in RunIds
    BY <1>2 DEF Truncate, memory, Inv, TypeOK
  <2>2. \A i \in RunIds : /\ Resumable(saved'[i].keys, saved'[i].proof)
                          /\ Resumable(bundle'[i].keys, bundle'[i].proof)
    BY <2>1, NoProofResumes DEF Put, Snapshot, Inv, TypeOK, ResumeInv, SnapshotsResume
  <2> QED
    BY <2>1, <2>2 DEF ResumeInv, Rested, PlannedLeaves, RoutedLeaves, SnapshotsResume, Declared
<1>3. CASE Write
  BY <1>3, WriteResume
<1>4. CASE RoutePasses \/ RouteStep
  BY <1>4, RouteStepsResume
<1>5. CASE RouteMade
  BY <1>5, RouteMadeResume
<1>6. CASE PlanMade
  BY <1>6, PlanMadeResume
<1>7. CASE \E s \in Skills : PlanStep(s)
  BY <1>7, PlanStepResume
<1>8. CASE \/ \E s \in Skills : PlanThrows(s)
           \/ PlanBlocked \/ RouteThrows \/ RouteLacking \/ Crash
  <2>1. Rest /\ UNCHANGED <<saved, bundle>>
    BY <1>8 DEF PlanThrows, PlanBlocked, RouteThrows, RouteLacking, Crash, disk
  <2> QED
    BY <2>1 DEF Rest, ResumeInv, Rested, PlannedLeaves, RoutedLeaves, SnapshotsResume
<1>9. CASE UNCHANGED vars
  BY <1>9 DEF vars, ResumeInv, Rested, PlannedLeaves, RoutedLeaves, SnapshotsResume, Declared
<1> QED
  BY <1>1, <1>2, <1>3, <1>4, <1>5, <1>6, <1>7, <1>8, <1>9
     DEF Next, Progress, Planning, Routing

\* Where the routes of the installed skills are whole (and those of the repository
\* are: a run evaluates it), the rerun command of every resume point that a plan or
\* a skill run ever proved goes through, whatever other commands have saved since
\* and wherever they died.
THEOREM ResumePointsHold == RoutesAreWhole => (Spec => []ResumePointsResume)
<1> SUFFICES ASSUME RoutesAreWhole PROVE Spec => []ResumePointsResume
  OBVIOUS
<1>1. Inv /\ ResumeInv => ResumePointsResume
  <2> SUFFICES ASSUME Inv, ResumeInv, NEW i \in RunIds,
                      saved[i].proof.kind \in {"workflow", "standalone"},
                      NEW s \in saved[i].proof.resume
               PROVE  Resumes(s, saved[i].keys, TRUE)
    BY DEF ResumePointsResume
  <2>1. s \in Skills /\ saved[i].keys \in SUBSET AllKeys
    BY DEF Inv, TypeOK, Snapshots, Proofs
  <2>2. PICK given \in SUBSET saved[i].keys : Resumes(s, given, FALSE)
    BY DEF ResumeInv, SnapshotsResume, Resumable
  <2> QED
    BY <2>1, <2>2, ResumesWithMore
<1>2. Inv /\ ResumeInv /\ [Next]_vars => ResumeInv'
  BY NextResume
<1> QED
  BY <1>1, <1>2, InitResume, SpecInv, PTL DEF Spec

-----------------------------------------------------------------------------
(* Redundant steps: what is needed after each step of a route, and the     *)
(* places in a route without some of its steps.                            *)

NeededBy(s, later, passed) ==
    IF s \notin passed /\ Registry[s].produces \cap later # {}
    THEN later \cup Registry[s].consumes ELSE later

NeedOn(path, i, later, passed) == NeededBy(path[Len(path) + 1 - i], later, passed)

IsNeed(need, n, path, targets, passed) ==
    need = [i \in 0..n |-> IF i = 0 THEN targets ELSE NeedOn(path, i, need[i - 1], passed)]

LEMMA NeedExists ==
    ASSUME NEW n \in Nat, NEW path, NEW targets, NEW passed
    PROVE  \E need : IsNeed(need, n, path, targets, passed)
<1> DEFINE C == {m \in Nat : \E need : IsNeed(need, m, path, targets, passed)}
<1>1. 0 \in C
  <2> DEFINE first == [i \in 0..0 |-> targets]
  <2>1. IsNeed(first, 0, path, targets, passed)
    BY DEF IsNeed
  <2> QED
    BY <2>1
<1>2. ASSUME NEW m \in 0..(n - 1), m \in C PROVE m + 1 \in C
  <2>1. PICK g : IsNeed(g, m, path, targets, passed)
    BY <1>2
  <2> DEFINE h == [i \in 0..(m + 1) |-> IF i = m + 1 THEN NeedOn(path, i, g[m], passed) ELSE g[i]]
  <2>2. \A i \in 0..m : g[i] = IF i = 0 THEN targets ELSE NeedOn(path, i, g[i - 1], passed)
    BY <2>1 DEF IsNeed
  <2>3. \A i \in 0..m : h[i] = g[i]
    OBVIOUS
  <2>4. ASSUME NEW i \in 0..(m + 1)
        PROVE  h[i] = IF i = 0 THEN targets ELSE NeedOn(path, i, h[i - 1], passed)
    <3>1. CASE i = m + 1
      <4>1. i # 0 /\ i - 1 = m /\ m \in 0..m /\ h[i] = NeedOn(path, i, g[m], passed)
        BY <3>1
      <4>2. h[m] = g[m]
        BY <2>3, <4>1
      <4> HIDE DEF h
      <4> QED
        BY <4>1, <4>2
    <3>2. CASE i # m + 1
      <4>1. i \in 0..m /\ (i # 0 => i - 1 \in 0..m)
        BY <3>2
      <4> HIDE DEF h
      <4> QED
        BY <2>2, <2>3, <4>1
    <3> QED
      BY <3>1, <3>2
  <2>5. IsNeed(h, m + 1, path, targets, passed)
    <3>1. h = [i \in 0..(m + 1) |-> h[i]]
      OBVIOUS
    <3> HIDE DEF h
    <3> QED
      BY <2>4, <3>1 DEF IsNeed
  <2> HIDE DEF h
  <2> QED
    BY <2>5
<1>3. n \in C
  <2> HIDE DEF C
  <2> QED
    BY <1>1, <1>2, CountUp
<1> QED
  BY <1>3

\* Required, step by step from the end of the route.
LEMMA RequiredSteps ==
    ASSUME NEW path \in Seq(Skills), NEW targets, NEW passed, NEW i \in 1..Len(path)
    PROVE  Required(path, targets, passed)[i] =
               IF i = Len(path) THEN targets
               ELSE NeededBy(path[i + 1], Required(path, targets, passed)[i + 1], passed)
<1> DEFINE n == Len(path)
           need == CHOOSE need : IsNeed(need, n, path, targets, passed)
<1>1. n \in Nat
  OBVIOUS
<1>2. IsNeed(need, n, path, targets, passed)
  <2> HIDE DEF n
  <2> QED
    BY <1>1, NeedExists
<1>3. Required(path, targets, passed) = [j \in 1..n |-> need[n - j]]
  BY DEF Required, IsNeed, NeedOn, NeededBy
<1> HIDE DEF need
<1>4. \A j \in 0..n : need[j] = IF j = 0 THEN targets ELSE NeedOn(path, j, need[j - 1], passed)
  BY <1>2 DEF IsNeed
<1>5. Required(path, targets, passed)[i] = need[n - i]
  BY <1>3
<1>6. ASSUME i = n PROVE need[n - i] = targets
  <2>1. n - i = 0 /\ 0 \in 0..n
    BY <1>1, <1>6
  <2> QED
    BY <1>4, <2>1
<1>7. ASSUME i # n PROVE need[n - i] = NeedOn(path, n - i, Required(path, targets, passed)[i + 1], passed)
  <2>1. /\ n - i \in 0..n /\ n - i # 0 /\ (n - i) - 1 = n - (i + 1) /\ i + 1 \in 1..n
    BY <1>1, <1>7
  <2>2. Required(path, targets, passed)[i + 1] = need[n - (i + 1)]
    BY <1>3, <2>1
  <2> HIDE DEF n
  <2> QED
    BY <1>4, <2>1, <2>2
<1>8. n + 1 - (n - i) = i + 1
  BY <1>1
<1> QED
  BY <1>5, <1>6, <1>7, <1>8 DEF NeedOn

UpTo(kept, i) == Cardinality({l \in kept : l <= i})

\* How many steps are kept up to each.
LEMMA UpToSteps ==
    ASSUME NEW n \in Nat, NEW kept \in SUBSET (1..n)
    PROVE  /\ UpTo(kept, 0) = 0 /\ UpTo(kept, n) = Cardinality(kept)
           /\ \A i \in 0..n : UpTo(kept, i) \in Nat
           /\ \A i \in 0..(n - 1) :
                  UpTo(kept, i + 1) = IF i + 1 \in kept THEN UpTo(kept, i) + 1 ELSE UpTo(kept, i)
           /\ \A i, j \in 0..n : i <= j => UpTo(kept, i) <= UpTo(kept, j)
<1> DEFINE S(i) == {l \in kept : l <= i}
<1>0. IsFiniteSet(kept)
  <2>1. IsFiniteSet(1..n)
    BY FS_Interval, 1 \in Int, n \in Int
  <2> QED
    BY <2>1, FS_Subset
<1>7. \A l \in kept : l \in Nat /\ 1 <= l /\ l <= n
  OBVIOUS
<1>1. \A i \in 0..n : IsFiniteSet(S(i))
  BY <1>0, FS_Subset
<1>2. S(0) = {} /\ S(n) = kept
  <2>1. ASSUME NEW l \in S(0) PROVE FALSE
    BY <1>7, <2>1
  <2>2. S(n) = kept
    BY <1>7
  <2> QED
    BY <2>1, <2>2
<1>3. ASSUME NEW i \in 0..(n - 1)
      PROVE  UpTo(kept, i + 1) = IF i + 1 \in kept THEN UpTo(kept, i) + 1 ELSE UpTo(kept, i)
  <2>1. CASE i + 1 \in kept
    <3>1. S(i + 1) = S(i) \cup {i + 1} /\ i + 1 \notin S(i) /\ IsFiniteSet(S(i))
      <4>1. i \in Nat /\ i \in 0..n
        OBVIOUS
      <4>2. S(i + 1) = S(i) \cup {i + 1}
        <5>1. ASSUME NEW l \in S(i + 1) PROVE l \in S(i) \cup {i + 1}
          <6>1. l \in kept /\ l \in Nat /\ l <= i + 1
            BY <1>7, <5>1
          <6>2. l <= i \/ l = i + 1
            BY <4>1, <6>1
          <6> QED
            BY <6>1, <6>2
        <5>2. ASSUME NEW l \in S(i) PROVE l \in S(i + 1)
          <6>1. l \in kept /\ l \in Nat /\ l <= i
            BY <1>7, <5>2
          <6>2. l <= i + 1
            BY <4>1, <6>1
          <6> QED
            BY <6>1, <6>2
        <5>3. i + 1 \in S(i + 1)
          BY <2>1, <4>1
        <5> HIDE DEF S
        <5> QED
          BY <5>1, <5>2, <5>3
      <4>3. i + 1 \notin S(i)
        BY <4>1
      <4> QED
        BY <1>1, <4>1, <4>2, <4>3
    <3> HIDE DEF S
    <3>2. Cardinality(S(i + 1)) = Cardinality(S(i)) + 1
      BY <3>1, FS_AddElement
    <3> QED
      BY <2>1, <3>2 DEF S, UpTo
  <2>2. CASE i + 1 \notin kept
    <3>1. i \in Nat
      OBVIOUS
    <3>2. S(i + 1) = S(i)
      <4>1. ASSUME NEW l \in S(i + 1) PROVE l \in S(i)
        <5>1. l \in kept /\ l \in Nat /\ l <= i + 1
          BY <1>7, <4>1
        <5>2. l <= i
          BY <2>2, <3>1, <5>1
        <5> QED
          BY <5>1, <5>2
      <4>2. ASSUME NEW l \in S(i) PROVE l \in S(i + 1)
        <5>1. l \in kept /\ l \in Nat /\ l <= i
          BY <1>7, <4>2
        <5>2. l <= i + 1
          BY <3>1, <5>1
        <5> QED
          BY <5>1, <5>2
      <4> HIDE DEF S
      <4> QED
        BY <4>1, <4>2
    <3> QED
      BY <2>2, <3>2 DEF UpTo
  <2> QED
    BY <2>1, <2>2
<1>4. ASSUME NEW i \in 0..n, NEW j \in 0..n, i <= j PROVE UpTo(kept, i) <= UpTo(kept, j)
  <2>1. S(i) \subseteq S(j) /\ IsFiniteSet(S(j))
    <3>1. i \in Nat /\ j \in Nat
      OBVIOUS
    <3> QED
      <4>1. ASSUME NEW l \in S(i) PROVE l \in S(j)
        <5>1. l \in kept /\ l \in Nat /\ l <= i
          BY <1>7, <4>1
        <5>2. l <= j
          BY <1>4, <3>1, <5>1
        <5> QED
          BY <5>1, <5>2
      <4> HIDE DEF S
      <4> QED
        BY <1>1, <4>1
  <2> HIDE DEF S
  <2>2. Cardinality(S(i)) <= Cardinality(S(j))
    BY <2>1, FS_Subset
  <2> QED
    BY <2>2 DEF S, UpTo
<1>5. \A i \in 0..n : UpTo(kept, i) \in Nat
  BY <1>1, FS_CardinalityType DEF UpTo
<1>6. UpTo(kept, 0) = 0 /\ UpTo(kept, n) = Cardinality(kept)
  BY <1>2, FS_EmptySet DEF UpTo
<1> QED
  BY <1>3, <1>4, <1>5, <1>6

\* A place of the shorter route is that of one kept step, and each has its own.
LEMMA UpToPlaces ==
    ASSUME NEW n \in Nat, NEW kept \in SUBSET (1..n)
    PROVE  /\ \A i, j \in kept : i < j => UpTo(kept, i) < UpTo(kept, j)
           /\ \A k \in 1..UpTo(kept, n) : \E j \in kept : UpTo(kept, j) = k
<1>1. ASSUME NEW i \in kept, NEW j \in kept, i < j PROVE UpTo(kept, i) < UpTo(kept, j)
  <2>1. j - 1 \in 0..(n - 1) /\ (j - 1) + 1 = j /\ i <= j - 1 /\ i \in 0..n /\ j - 1 \in 0..n
    BY <1>1
  <2>2. UpTo(kept, j) = UpTo(kept, j - 1) + 1
    <3>1. UpTo(kept, (j - 1) + 1) = IF (j - 1) + 1 \in kept THEN UpTo(kept, j - 1) + 1 ELSE UpTo(kept, j - 1)
      BY <2>1, UpToSteps
    <3> QED
      BY <2>1, <3>1
  <2>3. UpTo(kept, i) <= UpTo(kept, j - 1) /\ UpTo(kept, i) \in Nat /\ UpTo(kept, j - 1) \in Nat
    BY <2>1, UpToSteps
  <2> QED
    BY <2>2, <2>3
<1> DEFINE C == {i \in Nat : \A k \in 1..UpTo(kept, i) : \E j \in kept : UpTo(kept, j) = k}
<1>2. 0 \in C
  BY UpToSteps
<1>3. ASSUME NEW i \in 0..(n - 1), i \in C PROVE i + 1 \in C
  <2>1. UpTo(kept, i + 1) = IF i + 1 \in kept THEN UpTo(kept, i) + 1 ELSE UpTo(kept, i)
    BY UpToSteps
  <2>2. UpTo(kept, i) \in Nat
    BY UpToSteps
  <2>3. ASSUME NEW k \in 1..UpTo(kept, i + 1) PROVE \E j \in kept : UpTo(kept, j) = k
    <3>1. CASE k \in 1..UpTo(kept, i)
      BY <1>3, <3>1
    <3>2. CASE k \notin 1..UpTo(kept, i)
      <4>1. i + 1 \in kept /\ k = UpTo(kept, i + 1)
        BY <2>1, <2>2, <3>2
      <4> QED
        BY <4>1
    <3> QED
      BY <3>1, <3>2
  <2> QED
    BY <2>3
<1>4. n \in C
  <2> HIDE DEF C
  <2> QED
    BY <1>2, <1>3, CountUp
<1> QED
  BY <1>1, <1>4

\* The steps in `kept`, in their order.
IsShortened(lean, path, kept) ==
    /\ lean \in Seq(Skills)
    /\ Len(lean) = UpTo(kept, Len(path))
    /\ \A j \in kept : UpTo(kept, j) \in 1..Len(lean) /\ lean[UpTo(kept, j)] = path[j]
    /\ \A k \in 1..Len(lean) : \E j \in kept : UpTo(kept, j) = k

LEMMA WithoutSteps ==
    ASSUME NEW path \in Seq(Skills), NEW dropped, NEW kept, kept = (1..Len(path)) \ dropped
    PROVE  IsShortened(Without(path, dropped), path, kept)
<1> DEFINE n == Len(path)
           m == UpTo(kept, n)
           lean == Without(path, dropped)
           At(k) == CHOOSE j \in kept : UpTo(kept, j) = k
<1>1. n \in Nat /\ kept \in SUBSET (1..n)
  OBVIOUS
<1>2. /\ m = Cardinality(kept) /\ m \in Nat
      /\ \A k \in 1..m : \E j \in kept : UpTo(kept, j) = k
  <2>1. n \in 0..n
    BY <1>1
  <2> HIDE DEF n
  <2>2. m = Cardinality(kept) /\ m \in Nat
    BY <1>1, <2>1, UpToSteps
  <2>3. \A k \in 1..m : \E j \in kept : UpTo(kept, j) = k
    BY <1>1, UpToPlaces
  <2> QED
    BY <2>2, <2>3
<1>3. lean = [k \in 1..m |-> path[At(k)]]
  BY <1>2 DEF Without, UpTo
<1>4. \A k \in 1..m : At(k) \in kept /\ UpTo(kept, At(k)) = k
  BY <1>2
<1>5. \A j \in kept : path[j] \in Skills
  BY <1>1
<1>6. lean \in [1..m -> Skills]
  BY <1>3, <1>4, <1>5
<1>7. lean \in Seq(Skills) /\ Len(lean) = m
  <2>1. m \in Nat
    BY <1>2
  <2> HIDE DEF m, lean
  <2> QED
    BY <1>6, <2>1
<1>8. ASSUME NEW j \in kept PROVE UpTo(kept, j) \in 1..m /\ lean[UpTo(kept, j)] = path[j]
  <2>1. j - 1 \in 0..(n - 1) /\ (j - 1) + 1 = j /\ j \in 0..n /\ n \in 0..n /\ j <= n /\ j - 1 \in 0..n
    BY <1>1
  <2>2. UpTo(kept, j) >= 1 /\ UpTo(kept, j) \in Nat
    <3>1. UpTo(kept, (j - 1) + 1) = IF (j - 1) + 1 \in kept THEN UpTo(kept, j - 1) + 1 ELSE UpTo(kept, j - 1)
      BY <1>1, <2>1, UpToSteps
    <3>2. UpTo(kept, j - 1) \in Nat
      BY <1>1, <2>1, UpToSteps
    <3> QED
      BY <2>1, <3>1, <3>2
  <2>3. UpTo(kept, j) <= m
    BY <1>1, <2>1, UpToSteps
  <2>4. UpTo(kept, j) \in 1..m
    BY <1>2, <2>2, <2>3
  <2>5. At(UpTo(kept, j)) \in kept /\ UpTo(kept, At(UpTo(kept, j))) = UpTo(kept, j)
    BY <1>4, <2>4
  <2>6. At(UpTo(kept, j)) = j
    <3> DEFINE a == At(UpTo(kept, j))
    <3>1. a \in Nat /\ j \in Nat
      BY <1>1, <2>5
    <3>2. ~(a < j) /\ ~(j < a)
      <4>1. \A i, l \in kept : i < l => UpTo(kept, i) < UpTo(kept, l)
        <5> HIDE DEF n
        <5> QED
          BY <1>1, UpToPlaces
      <4>2. a \in kept /\ UpTo(kept, a) = UpTo(kept, j)
        BY <2>5
      <4> HIDE DEF a
      <4> QED
        BY <2>2, <4>1, <4>2
    <3> HIDE DEF a
    <3>3. a = j
      BY <3>1, <3>2
    <3> QED
      BY <3>3 DEF a
  <2> QED
    BY <1>3, <2>4, <2>6
<1> HIDE DEF lean
<1>9. lean = Without(path, dropped)
  BY DEF lean
<1> HIDE DEF m
<1>10. m = UpTo(kept, Len(path))
  BY DEF m
<1> QED
  BY <1>2, <1>7, <1>8, <1>9, <1>10 DEF IsShortened

-----------------------------------------------------------------------------
(* Redundant steps: the shorter route keeps up.                            *)

\* What the store was after each of the first n steps of a route, of which those in
\* `passed` were passed over.
Ran(stores, path, n, given, skip, passed) ==
    /\ stores[0] = given
    /\ \A j \in 1..n :
        LET s == path[j]
        IN  /\ Satisfied(s, stores[j - 1])
            /\ (CanSkip(s, stores[j - 1], skip) <=> s \in passed)
            /\ stores[j] = IF s \in passed THEN stores[j - 1]
                           ELSE stores[j - 1] \cup Registry[s].makes

\* How the shorter route, at less, keeps up with the route, at keys: it lacks only
\* what redundant steps produce, and nothing that is needed later.
KeepsUp(less, keys, i, path, targets, passed) ==
    /\ less \in Outcomes /\ less.ok /\ less.store \subseteq keys
    /\ \A x \in keys \ less.store :
           \E j \in Redundant(path, targets, passed) : j <= i /\ x \in Registry[path[j]].produces
    /\ i # 0 => keys \cap Required(path, targets, passed)[i] \subseteq less.store

DeclaresMakes ==
    \A s \in Skills : Registry[s].makes \subseteq Registry[s].produces \cup Registry[s].consumes

\* What is needed after a step, or by it where it counts, the shorter route has.
LEMMA NeededIsThere ==
    ASSUME NEW path \in Seq(Skills), NEW i \in 0..(Len(path) - 1), NEW targets, NEW passed,
           NEW less, NEW keys, KeepsUp(less, keys, i, path, targets, passed)
    PROVE  LET s == path[i + 1]
               later == Required(path, targets, passed)[i + 1]
           IN  /\ keys \cap later \subseteq less.store
               /\ s \notin passed /\ Registry[s].produces \cap later # {}
                  => keys \cap Registry[s].consumes \subseteq less.store
<1>1. CASE i = 0
  <2>1. Redundant(path, targets, passed) \subseteq 1..Len(path)
    BY DEF Redundant
  <2>2. \A j \in Redundant(path, targets, passed) : ~(j <= 0)
    BY <2>1
  <2>3. keys \subseteq less.store
    BY <1>1, <2>2 DEF KeepsUp
  <2> QED
    BY <2>3
<1>2. CASE i # 0
  <2>1. i \in 1..Len(path) /\ i # Len(path)
    BY <1>2
  <2>2. Required(path, targets, passed)[i] =
            NeededBy(path[i + 1], Required(path, targets, passed)[i + 1], passed)
    BY <2>1, RequiredSteps
  <2>3. keys \cap Required(path, targets, passed)[i] \subseteq less.store
    BY <1>2 DEF KeepsUp
  <2> QED
    BY <2>2, <2>3 DEF NeededBy
<1> QED
  BY <1>1, <1>2

LEMMA PassedKeepsUp ==
    ASSUME NEW path \in Seq(Skills), NEW i \in 0..(Len(path) - 1), NEW targets, NEW passed,
           NEW less, NEW keys, KeepsUp(less, keys, i, path, targets, passed)
    PROVE  KeepsUp(less, keys, i + 1, path, targets, passed)
<1>1. keys \cap Required(path, targets, passed)[i + 1] \subseteq less.store
  BY NeededIsThere
<1>2. \A j \in Redundant(path, targets, passed) : j <= i => j <= i + 1
  <2>1. Redundant(path, targets, passed) \subseteq 1..Len(path)
    BY DEF Redundant
  <2> QED
    BY <2>1
<1> QED
  BY <1>1, <1>2 DEF KeepsUp

LEMMA DroppedKeepsUp ==
    ASSUME DeclaresMakes, NEW path \in Seq(Skills), NEW i \in 0..(Len(path) - 1),
           NEW targets, NEW passed, i + 1 \in Redundant(path, targets, passed),
           NEW less, NEW keys, KeepsUp(less, keys, i, path, targets, passed),
           Satisfied(path[i + 1], keys)
    PROVE  KeepsUp(less, keys \cup Registry[path[i + 1]].makes, i + 1, path, targets, passed)
<1> DEFINE s == path[i + 1]
<1>1. s \in Skills
  OBVIOUS
<1>2. Registry[s].makes \subseteq Registry[s].produces \cup keys
  BY <1>1 DEF DeclaresMakes, Satisfied
<1>3. Registry[s].produces \cap Required(path, targets, passed)[i + 1] = {}
  BY DEF Redundant
<1>4. keys \cap Required(path, targets, passed)[i + 1] \subseteq less.store
  BY NeededIsThere
<1>5. \A j \in Redundant(path, targets, passed) : j <= i => j <= i + 1
  <2>1. Redundant(path, targets, passed) \subseteq 1..Len(path)
    BY DEF Redundant
  <2> QED
    BY <2>1
<1>6. i + 1 <= i + 1
  OBVIOUS
<1> HIDE DEF s
<1>7. (keys \cup Registry[s].makes) \cap Required(path, targets, passed)[i + 1] \subseteq less.store
  BY <1>2, <1>3, <1>4
<1>8. \A x \in (keys \cup Registry[s].makes) \ less.store :
          \E j \in Redundant(path, targets, passed) : j <= i + 1 /\ x \in Registry[path[j]].produces
  <2> SUFFICES ASSUME NEW x \in (keys \cup Registry[s].makes) \ less.store
               PROVE  \E j \in Redundant(path, targets, passed) : j <= i + 1 /\ x \in Registry[path[j]].produces
    OBVIOUS
  <2>1. CASE x \in keys
    BY <1>5, <2>1 DEF KeepsUp
  <2>2. CASE x \notin keys
    <3>1. x \in Registry[path[i + 1]].produces
      BY <1>2, <2>2 DEF s
    <3> QED
      BY <1>6, <3>1
  <2> QED
    BY <2>1, <2>2
<1> QED
  BY <1>7, <1>8 DEF KeepsUp, s

\* A step that is kept is run again: it has its inputs, and its outputs are no more
\* there than they were.
LEMMA KeptKeepsUp ==
    ASSUME NEW path \in Seq(Skills), NEW i \in 0..(Len(path) - 1),
           NEW targets, NEW passed, KeptAreFed(path, targets, passed),
           i + 1 \notin Redundant(path, targets, passed), path[i + 1] \notin passed,
           NEW less, NEW keys, KeepsUp(less, keys, i, path, targets, passed),
           NEW skip, Satisfied(path[i + 1], keys), ~CanSkip(path[i + 1], keys, skip)
    PROVE  /\ Satisfied(path[i + 1], less.store)
           /\ ~CanSkip(path[i + 1], less.store, skip)
           /\ KeepsUp([less EXCEPT !.store = @ \cup Registry[path[i + 1]].makes],
                      keys \cup Registry[path[i + 1]].makes, i + 1, path, targets, passed)
<1> DEFINE s == path[i + 1]
           later == Required(path, targets, passed)[i + 1]
           redundant == Redundant(path, targets, passed)
           next == [less EXCEPT !.store = @ \cup Registry[s].makes]
<1>1. s \in Skills /\ i + 1 \in 1..Len(path)
  OBVIOUS
<1>2. redundant \subseteq 1..Len(path)
  BY DEF Redundant
<1>3. Registry[s].consumes \subseteq keys
  BY DEF Satisfied
<1>4. Registry[s].consumes \subseteq less.store
  <2>1. CASE Registry[s].produces \cap later # {}
    BY <1>3, <2>1, NeededIsThere
  <2>2. CASE Registry[s].produces \cap later = {}
    <3> SUFFICES ASSUME NEW x \in Registry[s].consumes, x \notin less.store PROVE FALSE
      OBVIOUS
    <3>1. PICK j \in redundant : j <= i /\ x \in Registry[path[j]].produces
      BY <1>3 DEF KeepsUp
    <3>2. j < i + 1
      BY <1>2, <3>1
    <3>3. Registry[path[j]].produces \cap Registry[s].consumes = {}
      BY <1>1, <2>2, <3>2 DEF KeptAreFed
    <3> QED
      BY <3>1, <3>3
  <2> QED
    BY <2>1, <2>2
<1>5. Satisfied(s, less.store)
  BY <1>4 DEF Satisfied
<1>6. ~CanSkip(s, less.store, skip)
  BY DEF CanSkip, KeepsUp
<1>7. next \in Outcomes /\ next.ok /\ next.store = less.store \cup Registry[s].makes
  BY <1>1, RegistryType, KeysType DEF KeepsUp, Outcomes
<1>8. keys \cap later \subseteq less.store
  BY NeededIsThere
<1>9. \A j \in redundant : j <= i => j <= i + 1
  BY <1>2
<1> HIDE DEF next, s, later
<1>10. next.store \subseteq keys \cup Registry[s].makes
  BY <1>7 DEF KeepsUp
<1>11. (keys \cup Registry[s].makes) \cap later \subseteq next.store
  BY <1>7, <1>8
<1>12. \A x \in (keys \cup Registry[s].makes) \ next.store :
          \E j \in redundant : j <= i + 1 /\ x \in Registry[path[j]].produces
  BY <1>7, <1>9 DEF KeepsUp
<1>13. KeepsUp(next, keys \cup Registry[s].makes, i + 1, path, targets, passed)
  BY <1>7, <1>10, <1>11, <1>12 DEF KeepsUp, later
<1> QED
  BY <1>5, <1>6, <1>13 DEF next, s

NoRepeats(path) == \A i, j \in 1..Len(path) : path[i] = path[j] => i = j

Unrun(path, passed) == {j \in 1..Len(path) : path[j] \in passed}

\* The shorter route gets through and reaches what is wanted of the route.
LEMMA LeanRoute ==
    ASSUME DeclaresMakes, NEW path \in Seq(Skills), NoRepeats(path),
           NEW given \in SUBSET AllKeys, NEW skip, NEW passed, NEW targets,
           NEW stores, Ran(stores, path, Len(path), given, skip, passed),
           KeptAreFed(path, targets, passed), targets \subseteq stores[Len(path)],
           NEW lean, lean = Without(path, Redundant(path, targets, passed) \cup Unrun(path, passed))
    PROVE  /\ RouteStores(lean, given, skip).ok
           /\ targets \subseteq RouteStores(lean, given, skip).store
<1> DEFINE n == Len(path)
           redundant == Redundant(path, targets, passed)
           kept == (1..n) \ (redundant \cup Unrun(path, passed))
           m == UpTo(kept, n)
<1>1. n \in Nat /\ kept \in SUBSET (1..n)
  OBVIOUS
<1>2. /\ lean \in Seq(Skills) /\ Len(lean) = m
      /\ \A j \in kept : UpTo(kept, j) \in 1..m /\ lean[UpTo(kept, j)] = path[j]
      /\ \A k \in 1..m : \E j \in kept : UpTo(kept, j) = k
  <2> DEFINE dropped == redundant \cup Unrun(path, passed)
  <2>1. kept = (1..Len(path)) \ dropped /\ lean = Without(path, dropped)
    OBVIOUS
  <2> HIDE DEF kept, dropped
  <2>2. IsShortened(lean, path, kept)
    BY <2>1, WithoutSteps
  <2> QED
    BY <2>2 DEF IsShortened
<1>3. PICK run : GoesThrough(run, lean, given, skip)
  BY <1>2, RouteStoresRun
<1>4. /\ RouteStores(lean, given, skip) = run[m]
      /\ run[0] = [ok |-> TRUE, store |-> given]
      /\ \A k \in 1..m : run[k] = StepOn(lean, k, run[k - 1], skip)
  BY <1>2, <1>3 DEF GoesThrough
<1>5. /\ UpTo(kept, 0) = 0 /\ m \in Nat
      /\ \A i \in 0..n : UpTo(kept, i) \in Nat
      /\ \A i \in 0..(n - 1) :
             UpTo(kept, i + 1) = IF i + 1 \in kept THEN UpTo(kept, i) + 1 ELSE UpTo(kept, i)
  <2>1. n \in 0..n
    BY <1>1
  <2> HIDE DEF n, kept
  <2> QED
    BY <1>1, <2>1, UpToSteps
<1> DEFINE C == {i \in Nat : KeepsUp(run[UpTo(kept, i)], stores[i], i, path, targets, passed)}
<1>6. 0 \in C
  <2>1. run[0] \in Outcomes /\ run[0].ok /\ run[0].store = given
    BY <1>4 DEF Outcomes
  <2>2. stores[0] = given
    BY DEF Ran
  <2> HIDE DEF kept
  <2>3. KeepsUp(run[0], stores[0], 0, path, targets, passed)
    BY <2>1, <2>2 DEF KeepsUp
  <2> QED
    BY <1>5, <2>3
<1>7. ASSUME NEW i \in 0..(n - 1), i \in C PROVE i + 1 \in C
  <2> DEFINE s == path[i + 1]
             less == run[UpTo(kept, i)]
             keys == stores[i]
  <2>1. i + 1 \in 1..n /\ i \in 0..n /\ (i + 1) - 1 = i /\ i \in Nat /\ i + 1 \in Nat /\ s \in Skills
    OBVIOUS
  <2>2. /\ Satisfied(s, keys) /\ (CanSkip(s, keys, skip) <=> s \in passed)
        /\ stores[i + 1] = IF s \in passed THEN keys ELSE keys \cup Registry[s].makes
    <3> HIDE DEF n
    <3> QED
      BY <2>1 DEF Ran, n
  <2>3. KeepsUp(less, keys, i, path, targets, passed)
    BY <1>7
  <2>4. CASE s \in passed
    <3>1. i + 1 \notin kept
      BY <2>1, <2>4 DEF Unrun
    <3>2. UpTo(kept, i + 1) = UpTo(kept, i)
      BY <1>5, <3>1
    <3>3. KeepsUp(less, keys, i + 1, path, targets, passed)
      BY <2>3, PassedKeepsUp
    <3> HIDE DEF kept
    <3> QED
      BY <2>1, <2>2, <2>4, <3>2, <3>3
  <2>5. CASE s \notin passed /\ i + 1 \in redundant
    <3>1. i + 1 \notin kept
      BY <2>5
    <3>2. UpTo(kept, i + 1) = UpTo(kept, i)
      BY <1>5, <3>1
    <3>3. KeepsUp(less, keys \cup Registry[s].makes, i + 1, path, targets, passed)
      BY <2>2, <2>3, <2>5, DroppedKeepsUp
    <3> HIDE DEF kept
    <3> QED
      BY <2>1, <2>2, <2>5, <3>2, <3>3
  <2>6. CASE s \notin passed /\ i + 1 \notin redundant
    <3> DEFINE k == UpTo(kept, i) + 1
    <3>1. i + 1 \in kept
      BY <2>1, <2>6 DEF Unrun
    <3>2. UpTo(kept, i + 1) = k /\ k \in 1..m /\ lean[k] = s /\ k - 1 = UpTo(kept, i)
      <4>1. UpTo(kept, i + 1) = k /\ UpTo(kept, i) \in Nat
        <5> HIDE DEF n, kept
        <5> QED
          BY <1>5, <2>1, <3>1
      <4>2. UpTo(kept, i + 1) \in 1..m /\ lean[UpTo(kept, i + 1)] = path[i + 1]
        <5> HIDE DEF n, kept
        <5> QED
          BY <1>2, <3>1
      <4> HIDE DEF kept, m
      <4> QED
        BY <4>1, <4>2
    <3>3. /\ Satisfied(s, less.store) /\ ~CanSkip(s, less.store, skip)
          /\ KeepsUp([less EXCEPT !.store = @ \cup Registry[s].makes],
                     keys \cup Registry[s].makes, i + 1, path, targets, passed)
      BY <2>2, <2>3, <2>6, KeptKeepsUp
    <3>4. ~Superfluous(s, {lean[l] : l \in 1..(k - 1)})
      <4> SUFFICES ASSUME NEW l \in 1..(k - 1), lean[l] = s PROVE FALSE
        BY DEF Superfluous
      <4>1. l \in 1..m /\ l # k
        BY <1>5, <3>2
      <4>2. PICK j \in kept : UpTo(kept, j) = l
        BY <1>2, <4>1
      <4>3. path[j] = path[i + 1]
        BY <1>2, <4>2
      <4>4. j = i + 1
        BY <1>1, <2>1, <4>2, <4>3 DEF NoRepeats
      <4> QED
        BY <3>2, <4>1, <4>2, <4>4
    <3>5. run[k] = StepOn(lean, k, less, skip)
      BY <1>4, <3>2
    <3>6. less.ok
      BY <2>3 DEF KeepsUp
    <3>7. run[k] = [less EXCEPT !.store = @ \cup Registry[s].makes]
      <4> HIDE DEF k, less, s
      <4> QED
        BY <3>2, <3>3, <3>4, <3>5, <3>6 DEF StepOn
    <3> HIDE DEF kept, k, less
    <3> QED
      BY <2>1, <2>2, <2>6, <3>2, <3>3, <3>7
  <2> QED
    BY <2>4, <2>5, <2>6
<1>8. n \in C
  <2> HIDE DEF C, n
  <2> QED
    BY <1>1, <1>6, <1>7, CountUp
<1>9. KeepsUp(run[m], stores[n], n, path, targets, passed)
  BY <1>8
<1>10. targets \subseteq run[m].store
  <2>1. CASE n = 0
    <3>1. Redundant(path, targets, passed) = {}
      BY <2>1 DEF Redundant
    <3> HIDE DEF kept
    <3> QED
      BY <1>9, <3>1 DEF KeepsUp
  <2>2. CASE n # 0
    <3>1. n \in 1..n
      BY <1>1, <2>2
    <3>2. Required(path, targets, passed)[n] = targets
      BY <3>1, RequiredSteps
    <3> HIDE DEF kept
    <3> QED
      BY <1>9, <2>2, <3>2 DEF KeepsUp
  <2> QED
    BY <2>1, <2>2
<1> QED
  BY <1>4, <1>9, <1>10 DEF KeepsUp

-----------------------------------------------------------------------------
(* Redundant steps: whatever is in a store was earned.  A skill that puts  *)
(* it has found its inputs and put all else that it puts.                  *)

Earned(keys) == \A k \in keys \ Free : \E s \in Makers(k) : Leaves(s) \subseteq keys

EarnedInv ==
    /\ Earned(store) /\ Earned(cmd.given)
    /\ \A i \in RunIds : Earned(saved[i].keys) /\ Earned(bundle[i].keys)

LEMMA FreeIsEarned ==
    ASSUME NEW keys, Earned(keys), NEW more \in SUBSET Free
    PROVE  Earned(keys \cup more)
  BY DEF Earned

LEMMA NothingIsEarned == Earned({}) /\ Earned(NoCommand.given) /\ Earned(Snapshot({}, NoProof).keys)
<1>1. NoCommand.given = {} /\ Snapshot({}, NoProof).keys = {}
  BY DEF NoCommand, Snapshot
<1> QED
  BY <1>1 DEF Earned

LEMMA StepEarns ==
    ASSUME NEW keys, Earned(keys), NEW s \in Skills, Satisfied(s, keys)
    PROVE  Earned(keys \cup Registry[s].makes)
<1> SUFFICES ASSUME NEW k \in (keys \cup Registry[s].makes) \ Free
             PROVE  \E t \in Makers(k) : Leaves(t) \subseteq keys \cup Registry[s].makes
  BY DEF Earned
<1>1. CASE k \in keys
  BY <1>1 DEF Earned
<1>2. CASE k \in Registry[s].makes
  <2>1. s \in Makers(k) /\ Leaves(s) \subseteq keys \cup Registry[s].makes
    BY <1>2 DEF Makers, Leaves, Satisfied
  <2> QED
    BY <2>1
<1> QED
  BY <1>1, <1>2

\* Such a store with a key has all that the key implies.
LEMMA ImpliedIsThere ==
    ASSUME NEW keys, Earned(keys), NEW key \in Keys, key \in keys
    PROVE  Implied[key] \subseteq keys
<1>1. ASSUME NEW some, some \subseteq keys PROVE Alongside(some) \subseteq keys
  <2> SUFFICES ASSUME NEW k \in Keys, NEW h \in some \ Free, \A s \in Makers(h) : k \in Leaves(s)
               PROVE  k \in keys
    BY <1>1 DEF Alongside
  <2>1. PICK s \in Makers(h) : Leaves(s) \subseteq keys
    BY <1>1 DEF Earned
  <2> QED
    BY <2>1
<1>2. Alongside({key}) \subseteq keys
  BY <1>1
<1>3. Alongside(Alongside({key})) \subseteq keys
  BY <1>1, <1>2
<1> QED
  BY <1>3 DEF Implied

LEMMA SummaryIsFree ==
    /\ Registry["operator-summarizer"].makes \subseteq Free /\ Reports \subseteq Free
    /\ Certification \in Free /\ RouteProofKey \in Free
  BY DEF Free

LEMMA LoadedIsEarned == ASSUME EarnedInv, NEW i \in RunIds PROVE Earned(Loaded(i).keys)
  BY NothingIsEarned DEF EarnedInv, Loaded

LEMMA RestEarned == ASSUME EarnedInv, Rest, UNCHANGED <<saved, bundle>> PROVE EarnedInv'
  BY NothingIsEarned DEF EarnedInv, Rest

LEMMA NextEarned == ASSUME Inv, EarnedInv, [Next]_vars PROVE EarnedInv'
<1>1. ASSUME NEW i \in RunIds, NEW goal \in Goals, StartPlan(goal, i) PROVE EarnedInv'
  <2>1. cmd'.given = {} /\ UNCHANGED <<store, saved, bundle>>
    BY <1>1 DEF StartPlan, NoCommand, disk
  <2>2. Earned({})
    BY DEF Earned
  <2> QED
    BY <2>1, <2>2 DEF EarnedInv
<1>2. ASSUME NEW i \in RunIds, NEW s \in Standalone, NEW source \in Sources, NEW skip \in BOOLEAN,
             StartSkill(s, source, skip, i)
      PROVE  EarnedInv'
  <2>1. /\ store' = source.keys \cup {Certification} /\ cmd'.given = source.keys \cup {Certification}
        /\ UNCHANGED <<saved, bundle>>
    BY <1>2 DEF StartSkill, NoCommand, disk
  <2>2. Earned(source.keys)
    BY NothingIsEarned DEF Sources, EarnedInv
  <2>3. Earned(source.keys \cup {Certification})
    BY <2>2, FreeIsEarned, SummaryIsFree
  <2> QED
    BY <2>1, <2>3 DEF EarnedInv
<1>3. ASSUME NEW i \in RunIds, Replay(i) PROVE EarnedInv'
  <2> DEFINE all == (Loaded(i).keys \cup Registry["operator-summarizer"].makes) \cup {Certification}
  <2>1. store' = all \cup {RouteProofKey} /\ cmd'.given = {} /\ UNCHANGED <<saved, bundle>>
    BY <1>3 DEF Replay, ProveAndSave, NoCommand, disk
  <2>2. Earned(Loaded(i).keys \cup Registry["operator-summarizer"].makes)
    BY LoadedIsEarned, FreeIsEarned, SummaryIsFree
  <2>3. Earned(all)
    BY <2>2, FreeIsEarned, SummaryIsFree
  <2> HIDE DEF all
  <2>4. Earned(all \cup {RouteProofKey})
    BY <2>3, FreeIsEarned, SummaryIsFree
  <2>5. Earned({})
    BY DEF Earned
  <2> QED
    BY <2>1, <2>4, <2>5 DEF EarnedInv
<1>4. ASSUME NEW i \in RunIds, Export(i) PROVE EarnedInv'
  <2>1. /\ store' = Loaded(i).keys \cup Registry["operator-summarizer"].makes
        /\ cmd'.given = {} /\ UNCHANGED <<saved, bundle>>
    BY <1>4 DEF Export, NoCommand, disk
  <2>2. Earned(Loaded(i).keys \cup Registry["operator-summarizer"].makes)
    BY LoadedIsEarned, FreeIsEarned, SummaryIsFree
  <2>3. Earned({})
    BY DEF Earned
  <2> QED
    BY <2>1, <2>2, <2>3 DEF EarnedInv
<1>5. CASE UNCHANGED vars
  BY <1>5 DEF vars, EarnedInv
<1>12. CASE Truncate
  <2>1. /\ UNCHANGED <<store, cmd>> /\ cmd.id \in RunIds
        /\ Put(Head(left), Snapshot({}, NoProof))
    BY <1>12 DEF Truncate, memory, Inv, TypeOK
  <2>2. \A i \in RunIds : Earned(saved'[i].keys) /\ Earned(bundle'[i].keys)
    BY <2>1, NothingIsEarned DEF Put, Inv, TypeOK, EarnedInv
  <2> QED
    BY <2>1, <2>2 DEF EarnedInv
<1>6. CASE Write
  <2>1. cmd.id \in RunIds /\ Snapshot(store, proof).keys = store
    BY <1>6 DEF Write, Inv, TypeOK, Snapshot
  <2>2. \A i \in RunIds : Earned(saved'[i].keys)
    BY <1>6, <2>1 DEF Write, Put, Inv, TypeOK, EarnedInv
  <2>3. \A i \in RunIds : Earned(bundle'[i].keys)
    BY <1>6, <2>1 DEF Write, Put, Inv, TypeOK, EarnedInv
  <2>4. \/ store' = {} /\ cmd' = NoCommand
        \/ UNCHANGED <<store, cmd>>
    BY <1>6 DEF Write, Rest
  <2> QED
    BY <2>2, <2>3, <2>4, NothingIsEarned DEF EarnedInv
<1>7. CASE RoutePasses
  BY <1>7 DEF RoutePasses, disk, EarnedInv
<1>8. CASE RouteStep
  <2>1. Step \in Skills
    <3>1. Declared \in Seq(Skills) /\ at \in Nat /\ at < Len(Declared)
      BY <1>8, RegistryType DEF RouteStep, MustRun, OnRoute, Declared, Inv, TypeOK
    <3> QED
      BY <3>1 DEF Step
  <2>2. Satisfied(Step, store) /\ store' = store \cup Registry[Step].makes /\ UNCHANGED <<cmd, saved, bundle>>
    BY <1>8 DEF RouteStep, disk
  <2> HIDE DEF Step
  <2>3. Earned(store')
    BY <2>1, <2>2, StepEarns DEF EarnedInv
  <2> QED
    BY <2>2, <2>3 DEF EarnedInv
<1>9. ASSUME NEW s \in Skills, PlanStep(s) PROVE EarnedInv'
  <2>1. Satisfied(s, store) /\ store' = store \cup Registry[s].makes /\ UNCHANGED <<cmd, saved, bundle>>
    BY <1>9 DEF PlanStep, ReadyNow, Ready, disk
  <2>2. Earned(store')
    BY <2>1, StepEarns DEF EarnedInv
  <2> QED
    BY <2>1, <2>2 DEF EarnedInv
<1>10. CASE PlanMade \/ RouteMade
  <2>1. PICK keys \in {store, store \cup Reports} :
            store' = (keys \cup {Certification}) \cup {RouteProofKey} /\ UNCHANGED <<cmd, saved, bundle>>
    BY <1>10 DEF PlanMade, RouteMade, ProveAndSave, disk
  <2>2. Earned(keys)
    BY FreeIsEarned, SummaryIsFree DEF EarnedInv
  <2>3. Earned(keys \cup {Certification})
    BY <2>2, FreeIsEarned, SummaryIsFree
  <2>4. Earned((keys \cup {Certification}) \cup {RouteProofKey})
    BY <2>3, FreeIsEarned, SummaryIsFree
  <2> QED
    BY <2>1, <2>4 DEF EarnedInv
<1>11. CASE \/ \E s \in Skills : PlanThrows(s)
            \/ PlanBlocked \/ RouteThrows \/ RouteLacking \/ Crash
  <2>1. Rest /\ UNCHANGED <<saved, bundle>>
    BY <1>11 DEF PlanThrows, PlanBlocked, RouteThrows, RouteLacking, Crash, disk
  <2> QED
    BY <2>1, RestEarned
<1> QED
  BY <1>1, <1>2, <1>3, <1>4, <1>5, <1>6, <1>7, <1>8, <1>9, <1>10, <1>11, <1>12
     DEF Next, Start, Progress, Planning, Routing

LEMMA InitEarned == Init => EarnedInv
<1> SUFFICES ASSUME Init PROVE EarnedInv
  OBVIOUS
<1>1. store = {} /\ cmd = NoCommand
  BY DEF Init
<1>2. \A i \in RunIds : saved[i] = Snapshot({}, NoProof) /\ bundle[i] = Snapshot({}, NoProof)
  BY DEF Init
<1> QED
  BY <1>1, <1>2, NothingIsEarned DEF EarnedInv

-----------------------------------------------------------------------------
(* Redundant steps: what a command has run so far.                         *)

RanTo(path, n, given, skip, passed, keys) ==
    \E stores : Ran(stores, path, n, given, skip, passed) /\ stores[n] = keys

LEMMA RanOn ==
    ASSUME NEW path \in Seq(Skills), NEW n \in 0..(Len(path) - 1), NEW before, NEW passed,
           NEW now, \A j \in 1..n : path[j] = before[j] /\ (path[j] \in now <=> path[j] \in passed),
           NEW given, NEW skip, NEW old, RanTo(before, n, given, skip, passed, old),
           Satisfied(path[n + 1], old), CanSkip(path[n + 1], old, skip) <=> path[n + 1] \in now,
           NEW keys, path[n + 1] \in now => keys = old,
           path[n + 1] \notin now => keys = old \cup Registry[path[n + 1]].makes
    PROVE  RanTo(path, n + 1, given, skip, now, keys)
<1>0. PICK stores : Ran(stores, before, n, given, skip, passed) /\ stores[n] = old
  BY DEF RanTo
<1> DEFINE more == [j \in 0..(n + 1) |-> IF j = n + 1 THEN keys ELSE stores[j]]
<1>1. n \in Nat /\ 0 \in 0..n /\ n \in 0..n
  OBVIOUS
<1>2. more[n + 1] = keys /\ \A j \in 0..n : more[j] = stores[j]
  BY <1>1
<1> HIDE DEF more
<1>3. more[0] = given
  BY <1>0, <1>1, <1>2 DEF Ran
<1>4. ASSUME NEW j \in 1..(n + 1)
      PROVE  /\ Satisfied(path[j], more[j - 1])
             /\ (CanSkip(path[j], more[j - 1], skip) <=> path[j] \in now)
             /\ more[j] = IF path[j] \in now THEN more[j - 1]
                          ELSE more[j - 1] \cup Registry[path[j]].makes
  <2>1. CASE j = n + 1
    <3>1. j - 1 = n
      BY <2>1
    <3> QED
      BY <1>0, <1>1, <1>2, <2>1, <3>1
  <2>2. CASE j # n + 1
    <3>1. j \in 1..n /\ j \in 0..n /\ j - 1 \in 0..n
      BY <1>1, <2>2
    <3>2. more[j] = stores[j] /\ more[j - 1] = stores[j - 1] /\ path[j] = before[j]
          /\ (path[j] \in now <=> path[j] \in passed)
      BY <1>2, <3>1
    <3>3. /\ Satisfied(before[j], stores[j - 1])
          /\ (CanSkip(before[j], stores[j - 1], skip) <=> before[j] \in passed)
          /\ stores[j] = IF before[j] \in passed THEN stores[j - 1]
                         ELSE stores[j - 1] \cup Registry[before[j]].makes
      BY <1>0, <3>1 DEF Ran
    <3> QED
      BY <3>2, <3>3
  <2> QED
    BY <2>1, <2>2
<1>5. Ran(more, path, n + 1, given, skip, now)
  BY <1>3, <1>4 DEF Ran
<1> QED
  BY <1>2, <1>5 DEF RanTo

\* Nothing that a route starts from gets lost, and no step comes to what no step
\* before it makes.
LEMMA RanFrom ==
    ASSUME NEW path \in Seq(Skills), NEW stores, NEW given, NEW skip, NEW passed,
           Ran(stores, path, Len(path), given, skip, passed), NEW i \in 0..Len(path)
    PROVE  /\ given \subseteq stores[i]
           /\ stores[i] \subseteq given \cup Made({path[j] : j \in 1..i})
<1> DEFINE C == {k \in Nat : /\ given \subseteq stores[k]
                             /\ stores[k] \subseteq given \cup Made({path[j] : j \in 1..k})}
<1>1. i \in Nat /\ Len(path) \in Nat /\ i <= Len(path)
  OBVIOUS
<1>2. 0 \in C
  BY DEF Ran
<1>3. ASSUME NEW k \in 0..(i - 1), k \in C PROVE k + 1 \in C
  <2>1. k \in Nat /\ k + 1 \in 1..Len(path) /\ (k + 1) - 1 = k /\ 1..k \subseteq 1..(k + 1) /\ k + 1 \in 1..(k + 1)
    BY <1>1
  <2>2. stores[k + 1] = IF path[k + 1] \in passed THEN stores[k]
                        ELSE stores[k] \cup Registry[path[k + 1]].makes
    BY <2>1 DEF Ran
  <2>3. Made({path[j] : j \in 1..k}) \cup Registry[path[k + 1]].makes \subseteq Made({path[j] : j \in 1..(k + 1)})
    BY <2>1 DEF Made
  <2>4. given \subseteq stores[k + 1]
    BY <1>3, <2>2
  <2>5. stores[k + 1] \subseteq given \cup Made({path[j] : j \in 1..(k + 1)})
    BY <1>3, <2>2, <2>3
  <2> QED
    BY <2>1, <2>4, <2>5
<1>4. i \in C
  <2> HIDE DEF C
  <2> QED
    BY <1>1, <1>2, <1>3, CountUp
<1> QED
  BY <1>4

\* --skip-satisfied passes over a step's companions with it.
LEMMA PassedTogether ==
    ASSUME NEW path \in Seq(Skills), NoRepeats(path), NEW stores, NEW given, Earned(given),
           NEW skip, NEW passed \in SUBSET Range(path),
           Ran(stores, path, Len(path), given, skip, passed), NEW u \in passed
    PROVE  PassedWith(path)[u] \subseteq passed
<1> SUFFICES ASSUME NEW t \in PassedWith(path)[u] PROVE t \in passed
  OBVIOUS
<1>1. /\ u \in Range(path) /\ t \in Range(path) /\ Registry[t].produces # {}
      /\ \E key \in Registry[u].produces \ Made(Range(path) \ {u}) :
             Registry[t].produces \subseteq Implied[key]
  BY DEF PassedWith
<1>2. PICK key \in Registry[u].produces \ Made(Range(path) \ {u}) :
          Registry[t].produces \subseteq Implied[key]
  BY <1>1
<1>3. PICK j \in 1..Len(path) : path[j] = u
  BY <1>1 DEF Range
<1>4. PICK i \in 1..Len(path) : path[i] = t
  BY <1>1 DEF Range
<1>5. CanSkip(u, stores[j - 1], skip)
  BY <1>3 DEF Ran
<1>6. skip /\ key \in stores[j - 1]
  BY <1>2, <1>5 DEF CanSkip
<1>7. \A k \in 1..(j - 1) : k \in 1..Len(path) /\ k # j
  OBVIOUS
<1>8. {path[k] : k \in 1..(j - 1)} \subseteq Range(path) \ {u}
  BY <1>3, <1>7 DEF NoRepeats, Range
<1>9. key \notin Made({path[k] : k \in 1..(j - 1)})
  BY <1>2, <1>8 DEF Made
<1>10. j - 1 \in 0..Len(path) /\ i - 1 \in 0..Len(path)
  OBVIOUS
<1>11. key \in given
  BY <1>6, <1>9, <1>10, RanFrom
<1>12. key \in Keys
  BY <1>1, <1>2, RangeType, RegistryType
<1>13. Registry[t].produces \subseteq stores[i - 1]
  BY <1>2, <1>10, <1>11, <1>12, ImpliedIsThere, RanFrom
<1>14. CanSkip(t, stores[i - 1], skip)
  BY <1>1, <1>6, <1>13 DEF CanSkip
<1>15. CanSkip(path[i], stores[i - 1], skip) <=> path[i] \in passed
  BY DEF Ran
<1> QED
  BY <1>4, <1>14, <1>15

\* The targets stay needed all along a route.
LEMMA TargetsRequired ==
    ASSUME NEW path \in Seq(Skills), NEW targets, NEW passed, NEW i \in 1..Len(path)
    PROVE  targets \subseteq Required(path, targets, passed)[i]
<1> DEFINE n == Len(path)
           C == {k \in Nat : k < n => targets \subseteq Required(path, targets, passed)[n - k]}
<1>1. n \in Nat /\ i \in 1..n /\ n - i \in Nat /\ n - (n - i) = i /\ n - i < n
  OBVIOUS
<1>2. 0 \in C
  <2>1. ASSUME 0 < n PROVE n \in 1..n /\ n - 0 = n
    BY <1>1, <2>1
  <2>2. ASSUME n \in 1..n PROVE Required(path, targets, passed)[n] = targets
    BY <2>2, RequiredSteps
  <2> HIDE DEF n
  <2> QED
    BY <2>1, <2>2
<1>3. ASSUME NEW k \in 0..((n - i) - 1), k \in C PROVE k + 1 \in C
  <2>1. /\ n - (k + 1) \in 1..n /\ n - (k + 1) # n /\ (n - (k + 1)) + 1 = n - k
        /\ k < n /\ k + 1 \in Nat
    BY <1>1
  <2> DEFINE m == n - (k + 1)
  <2>2. Required(path, targets, passed)[m] =
            NeededBy(path[m + 1], Required(path, targets, passed)[m + 1], passed)
    <3>1. m \in 1..Len(path) /\ m # Len(path)
      BY <2>1
    <3> HIDE DEF m
    <3> QED
      BY <3>1, RequiredSteps
  <2>3. targets \subseteq Required(path, targets, passed)[n - (k + 1)]
    BY <1>3, <2>1, <2>2 DEF NeededBy
  <2> QED
    BY <2>1, <2>3
<1>4. n - i \in C
  <2> HIDE DEF C, n
  <2> QED
    BY <1>1, <1>2, <1>3, CountUp
<1> QED
  BY <1>1, <1>4

-----------------------------------------------------------------------------
(* Redundant steps: what the invariant says of the command.                *)

RanSoFar(path, n) == RanTo(path, n, cmd.given, cmd.skip, skipped, store)

PlanStory ==
    pc = "planning" =>
        /\ cmd.given = {} /\ ~cmd.skip /\ skipped = {}
        /\ RanSoFar(route, Len(route))
        /\ \A i, j \in 1..Len(route) :
               route[i] = route[j] => i = j \/ Registry[route[i]].repeatable

RouteStory ==
    pc = "routing" =>
        /\ at <= Len(Declared) /\ RanSoFar(Declared, at)
        /\ Range(route) \cup skipped \subseteq {Declared[j] : j \in 1..at}

Story ==
    /\ pc = "idle" => skipped = {} /\ at = 0
    /\ PlanStory /\ RouteStory /\ RedundantIsUseless

LEMMA RestStory == ASSUME Rest PROVE Story'
  BY DEF Rest, Story, PlanStory, RouteStory, RedundantIsUseless

LEMMA InitStory == Init => Story
  BY DEF Init, Story, PlanStory, RouteStory, RedundantIsUseless

LEMMA RanNothing ==
    ASSUME NEW path, NEW given, NEW skip, NEW passed
    PROVE  RanTo(path, 0, given, skip, passed, given)
<1> DEFINE stores == [j \in 0..0 |-> given]
<1>1. stores[0] = given
  OBVIOUS
<1> HIDE DEF stores
<1>2. Ran(stores, path, 0, given, skip, passed)
  BY <1>1 DEF Ran
<1> QED
  BY <1>1, <1>2 DEF RanTo

LEMMA StartPlanStory ==
    ASSUME Inv, Story, NEW goal \in Goals, NEW i \in RunIds, StartPlan(goal, i)
    PROVE  Story'
<1>1. /\ pc' = "planning" /\ cmd'.given = {} /\ cmd'.skip = FALSE
      /\ store' = {} /\ route' = << >> /\ skipped' = {}
  BY DEF StartPlan, NoCommand, Inv, IdleOK, Story
<1>2. Len(route') = 0
  BY <1>1
<1>3. RanSoFar(route, Len(route))'
  <2>1. RanTo(route', 0, {}, cmd'.skip, skipped', {})
    BY RanNothing
  <2> QED
    BY <1>1, <1>2, <2>1 DEF RanSoFar
<1>4. PlanStory'
  BY <1>1, <1>2, <1>3 DEF PlanStory
<1> QED
  BY <1>1, <1>4 DEF Story, RouteStory, RedundantIsUseless

LEMMA StartSkillStory ==
    ASSUME Inv, Story, NEW s \in Standalone, NEW source \in Sources, NEW skip \in BOOLEAN,
           NEW i \in RunIds, StartSkill(s, source, skip, i)
    PROVE  Story'
<1>1. /\ pc' = "routing" /\ store' = cmd'.given /\ cmd'.skill \in Skills
      /\ at' = 0 /\ route' = << >> /\ skipped' = {}
  BY RunsAssumption DEF StartSkill, NoCommand, Inv, IdleOK, Story
<1>2. Declared' \in Seq(Skills)
  BY <1>1, RegistryType DEF Declared
<1>3. at' <= Len(Declared')
  <2>1. Len(Declared') \in Nat
    BY <1>2
  <2> QED
    BY <1>1, <2>1
<1>4. RanSoFar(Declared, at)'
  BY <1>1, RanNothing DEF RanSoFar
<1>5. Range(route') \cup skipped' = {}
  BY <1>1 DEF Range
<1>6. RouteStory'
  BY <1>3, <1>4, <1>5 DEF RouteStory
<1> QED
  BY <1>1, <1>6 DEF Story, PlanStory, RedundantIsUseless

LEMMA OtherStory ==
    ASSUME Story, NEW i \in RunIds, Replay(i) \/ Export(i)
    PROVE  Story'
<1>1. pc' = "saving" /\ cmd'.kind \in {"replay", "export"}
  BY DEF Replay, Export, ProveAndSave, NoCommand
<1> QED
  BY <1>1 DEF Story, PlanStory, RouteStory, RedundantIsUseless

LEMMA SavingStory == ASSUME Story, Truncate \/ Write PROVE Story'
<1>1. CASE UNCHANGED <<pc, cmd, store, route, at, skipped, proof>>
  BY <1>1 DEF Story, PlanStory, RouteStory, RedundantIsUseless, RanSoFar, Declared
<1>2. CASE Rest
  BY <1>2, RestStory
<1> QED
  BY <1>1, <1>2 DEF Truncate, Write, memory

LEMMA PlanStepStory ==
    ASSUME Inv, Story, NEW s \in Skills, PlanStep(s)
    PROVE  Story'
<1> DEFINE n == Len(route)
<1>1. /\ pc = "planning" /\ UNCHANGED <<pc, cmd, at, skipped>>
      /\ store' = store \cup Registry[s].makes /\ route' = Append(route, s)
      /\ MayRun(s, Range(route)) /\ Satisfied(s, store)
      /\ route \in Seq(Skills)
  BY DEF PlanStep, ReadyNow, Ready, Inv, TypeOK
<1>2. /\ n \in Nat /\ route' \in Seq(Skills) /\ Len(route') = n + 1
      /\ \A j \in 1..n : route'[j] = route[j]
      /\ route'[n + 1] = s
  BY <1>1
<1>3. cmd.given = {} /\ ~cmd.skip /\ skipped = {} /\ RanSoFar(route, n)
  BY <1>1 DEF Story, PlanStory
<1>4. RanSoFar(route, Len(route))'
  <2>1. RanTo(route, n, cmd.given, cmd.skip, skipped, store)
    BY <1>3 DEF RanSoFar
  <2>2. n \in 0..(Len(route') - 1)
    BY <1>2
  <2>3. ~CanSkip(s, store, cmd.skip) /\ s \notin skipped
    BY <1>3 DEF CanSkip
  <2> HIDE DEF n
  <2>4. RanTo(route', n + 1, cmd.given, cmd.skip, skipped, store')
    BY <1>1, <1>2, <2>1, <2>2, <2>3, RanOn
  <2> QED
    BY <1>1, <1>2, <2>4 DEF RanSoFar
<1>5. ASSUME NEW i \in 1..(n + 1), NEW j \in 1..(n + 1), route'[i] = route'[j], i # j
      PROVE  Registry[route'[i]].repeatable
  <2>1. CASE i \in 1..n /\ j \in 1..n
    BY <1>1, <1>2, <1>5, <2>1 DEF Story, PlanStory
  <2>2. CASE i = n + 1 \/ j = n + 1
    <3>1. PICK k \in 1..n : route[k] = s
      BY <1>2, <1>5, <2>2
    <3>2. s \in Range(route)
      BY <1>1, <3>1 DEF Range
    <3>3. route'[i] = s
      BY <1>2, <1>5, <2>2
    <3> QED
      BY <1>1, <3>2, <3>3 DEF MayRun
  <2> QED
    BY <1>2, <2>1, <2>2
<1>6. PlanStory'
  BY <1>1, <1>2, <1>3, <1>4, <1>5 DEF PlanStory
<1> QED
  BY <1>1, <1>6 DEF Story, RouteStory, RedundantIsUseless

LEMMA RouteStepsStory ==
    ASSUME GuardsAreFed, Inv, Story, RoutePasses \/ RouteStep
    PROVE  Story'
<1> DEFINE behind == {Declared[j] : j \in 1..at}
<1>1. /\ pc = "routing" /\ UNCHANGED <<pc, cmd>> /\ at' = at + 1 /\ at < Len(Declared)
  BY DEF RoutePasses, RouteStep, MustRun, OnRoute
<1>2. cmd.skill \in Skills /\ Declared \in Seq(Skills) /\ at \in Nat /\ Declared' = Declared
  BY <1>1, RegistryType DEF Inv, TypeOK, Declared
<1>3. at \in 0..(Len(Declared) - 1) /\ at + 1 \in 1..Len(Declared)
  BY <1>1, <1>2
<1>4. RanSoFar(Declared, at) /\ Range(route) \subseteq behind /\ skipped \subseteq behind
  BY <1>1 DEF Story, RouteStory
<1>5. \A j \in 1..at : Declared[j] # Step
  <2>1. NoRepeats(Declared)
    BY <1>2 DEF GuardsAreFed, NoRepeats, Declared
  <2>2. \A j \in 1..at : j \in 1..Len(Declared) /\ j # at + 1
    BY <1>2, <1>3
  <2> QED
    BY <1>3, <2>1, <2>2 DEF NoRepeats, Step
<1>6. Step \notin behind
  BY <1>5
<1>7. ~Superfluous(Step, Range(route)) /\ Step \notin skipped
  BY <1>4, <1>6 DEF Superfluous
<1>8. /\ Satisfied(Step, store) /\ Range(route') \subseteq Range(route) \cup {Step}
      /\ \/ /\ CanSkip(Step, store, cmd.skip)
            /\ skipped' = skipped \cup {Step} /\ store' = store
         \/ /\ ~CanSkip(Step, store, cmd.skip)
            /\ skipped' = skipped /\ store' = store \cup Registry[Step].makes
  <2>1. CASE RoutePasses
    BY <1>7, <2>1 DEF RoutePasses
  <2>2. CASE RouteStep
    <3>1. Step \in Skills
      BY <1>2, <1>3 DEF Step
    <3>2. Range(route') = Range(route) \cup {Step}
      BY <2>2, <3>1, RangeType DEF RouteStep, Inv, TypeOK
    <3> QED
      BY <2>2, <3>2 DEF RouteStep, MustRun
  <2> QED
    BY <2>1, <2>2
<1>9. {Declared[j] : j \in 1..(at + 1)} = behind \cup {Step}
  <2>1. 1..(at + 1) = (1..at) \cup {at + 1}
    BY <1>2
  <2> QED
    BY <2>1 DEF Step
<1>10. RanSoFar(Declared, at)'
  <2>1. RanTo(Declared, at, cmd.given, cmd.skip, skipped, store)
    BY <1>4 DEF RanSoFar
  <2>2. \A j \in 1..at : (Declared[j] \in skipped' <=> Declared[j] \in skipped)
    BY <1>5, <1>8
  <2>3. /\ CanSkip(Step, store, cmd.skip) <=> Step \in skipped'
        /\ Step \in skipped' => store' = store
        /\ Step \notin skipped' => store' = store \cup Registry[Step].makes
    BY <1>7, <1>8
  <2>4. RanTo(Declared, at + 1, cmd.given, cmd.skip, skipped', store')
    BY <1>2, <1>3, <1>8, <2>1, <2>2, <2>3, RanOn DEF Step
  <2> QED
    BY <1>1, <1>2, <2>4 DEF RanSoFar
<1>11. Range(route') \cup skipped' \subseteq behind \cup {Step}
  BY <1>4, <1>8
<1>12. at' <= Len(Declared')
  BY <1>1, <1>2
<1>13. RouteStory'
  BY <1>1, <1>2, <1>9, <1>10, <1>11, <1>12 DEF RouteStory
<1> QED
  BY <1>1, <1>13 DEF Story, PlanStory, RedundantIsUseless

\* What has to be shown of a command that goes on to save.
LEMMA MadeStory ==
    ASSUME NEW kind, NEW path, NEW targets, NEW keys, ProveAndSave(kind, path, targets, keys),
           cmd' = cmd,
           NEW lean, lean = Without(path, Redundant(path, targets, skipped) \cup Unrun(path, skipped)),
           targets \subseteq store' =>
               /\ RouteStores(lean, cmd.given, cmd.skip).ok
               /\ targets \subseteq RouteStores(lean, cmd.given, cmd.skip).store
    PROVE  Story'
<1>1. /\ pc' = "saving" /\ skipped' = skipped /\ proof'.route = path /\ proof'.targets = targets
      /\ proof'.redundant = Redundant(path, targets, skipped)
  BY DEF ProveAndSave, RouteProof
<1>2. lean = Without(proof'.route, proof'.redundant \cup {j \in 1..Len(proof'.route) : proof'.route[j] \in skipped'})
  BY <1>1 DEF Unrun
<1>3. RedundantIsUseless'
  BY <1>1, <1>2 DEF RedundantIsUseless
<1> QED
  BY <1>1, <1>3 DEF Story, PlanStory, RouteStory

LEMMA RouteMadeStory ==
    ASSUME RoutesAreWhole, GuardsAreFed, Inv, EarnedInv, Story, RouteMade
    PROVE  Story'
<1> DEFINE targets == Registry[cmd.skill].outputs
           lean == Without(Declared, Redundant(Declared, targets, skipped) \cup Unrun(Declared, skipped))
<1>1. /\ pc = "routing" /\ at = Len(Declared) /\ cmd' = cmd
      /\ OutputsThere(cmd.skill, store)
      /\ ProveAndSave("standalone", Declared, targets, store)
  BY DEF RouteMade
<1>2. cmd.skill \in Skills /\ Declared \in Seq(Skills) /\ cmd.given \in SUBSET AllKeys
  BY <1>1, RegistryType DEF Inv, TypeOK, Declared, Commands
<1>3. PICK stores : /\ Ran(stores, Declared, Len(Declared), cmd.given, cmd.skip, skipped)
                    /\ stores[Len(Declared)] = store
  BY <1>1 DEF Story, RouteStory, RanSoFar, RanTo
<1>4. skipped \in SUBSET Range(Declared)
  <2>1. DOMAIN Declared = 1..Len(Declared)
    BY <1>2
  <2> QED
    BY <1>1, <2>1 DEF Story, RouteStory, Range
<1>5. NoRepeats(Declared)
  BY <1>2 DEF GuardsAreFed, NoRepeats, Declared
<1>6. \A u \in skipped : PassedWith(Declared)[u] \subseteq skipped
  BY <1>2, <1>3, <1>4, <1>5, PassedTogether DEF EarnedInv
<1>7. KeptAreFed(Declared, targets, skipped)
  BY <1>2, <1>4, <1>6 DEF GuardsAreFed, Declared
<1>8. targets \subseteq store
  BY <1>1 DEF OutputsThere, GuardsAreFed
<1>9. /\ RouteStores(lean, cmd.given, cmd.skip).ok
      /\ targets \subseteq RouteStores(lean, cmd.given, cmd.skip).store
  <2>1. DeclaresMakes /\ targets \subseteq stores[Len(Declared)]
    BY <1>3, <1>8 DEF RoutesAreWhole, DeclaresMakes
  <2>2. lean = Without(Declared, Redundant(Declared, targets, skipped) \cup Unrun(Declared, skipped))
    OBVIOUS
  <2> HIDE DEF targets, lean
  <2> QED
    BY <1>2, <1>3, <1>5, <1>7, <2>1, <2>2, LeanRoute
<1> QED
  BY <1>1, <1>9, MadeStory

\* In a plan, what is kept without need has a target: it is needed after all.
LEMMA PlanIsFed ==
    ASSUME GuardsAreFed, NEW path \in Seq(Skills),
           \A s \in Range(path) : s \in PlanningSkills /\ ~Registry[s].repeatable
    PROVE  KeptAreFed(path, PlanTargets, {})
<1> SUFFICES ASSUME NEW i \in 1..Len(path), i \notin Redundant(path, PlanTargets, {}),
                    Registry[path[i]].produces \cap Required(path, PlanTargets, {})[i] = {}
             PROVE  FALSE
  BY DEF KeptAreFed
<1>1. path[i] \in PlanningSkills /\ ~Registry[path[i]].repeatable
  BY DEF Range
<1>2. Registry[path[i]].stage # "memory" /\ PlanTargets # {}
  BY <1>1 DEF PlanningSkills, PlanTargets
<1>3. Registry[path[i]].guards \/ Registry[path[i]].produces = {}
  BY <1>2 DEF Redundant
<1>4. Registry[path[i]].produces \cap PlanTargets # {}
  BY <1>1, <1>3 DEF GuardsAreFed
<1>5. PlanTargets \subseteq Required(path, PlanTargets, {})[i]
  BY TargetsRequired
<1> QED
  BY <1>4, <1>5

LEMMA PlanMadeStory ==
    ASSUME RoutesAreWhole, GuardsAreFed, Inv, Story, PlanMade
    PROVE  Story'
<1> DEFINE lean == Without(route, Redundant(route, PlanTargets, skipped) \cup Unrun(route, skipped))
<1>1. /\ pc = "planning" /\ cmd' = cmd /\ route \in Seq(Skills)
      /\ ProveAndSave("workflow", route, PlanTargets, store \cup Reports)
  BY DEF PlanMade, Inv, TypeOK
<1>2. /\ skipped = {} /\ cmd.given \in SUBSET AllKeys
      /\ RanSoFar(route, Len(route))
      /\ \A i, j \in 1..Len(route) :
             route[i] = route[j] => i = j \/ Registry[route[i]].repeatable
  BY <1>1 DEF Story, PlanStory
<1>3. PICK stores : /\ Ran(stores, route, Len(route), cmd.given, cmd.skip, skipped)
                    /\ stores[Len(route)] = store
  BY <1>2 DEF RanSoFar, RanTo
<1>4. \A s \in Range(route) : s \in PlanningSkills /\ ~Registry[s].repeatable
  <2>1. Range(route) \subseteq Candidates(cmd.goal)
    BY <1>1 DEF Inv, PlanningOK
  <2>2. \A s \in Range(route) : Registry[s].consumes \subseteq store
    BY <1>1 DEF Inv, PlanningOK
  <2> QED
    BY <2>1, <2>2 DEF Candidates, PlanMade, ReadyNow, Ready, Satisfied, MayRun
<1>5. NoRepeats(route)
  BY <1>1, <1>2, <1>4 DEF NoRepeats, Range
<1>6. KeptAreFed(route, PlanTargets, skipped)
  BY <1>1, <1>2, <1>4, PlanIsFed
<1>7. ASSUME PlanTargets \subseteq store' PROVE PlanTargets \subseteq store
  BY <1>1, <1>7 DEF ProveAndSave, PlanTargets, Reports, Certification, RouteProofKey
<1>8. ASSUME PlanTargets \subseteq store'
      PROVE  /\ RouteStores(lean, cmd.given, cmd.skip).ok
             /\ PlanTargets \subseteq RouteStores(lean, cmd.given, cmd.skip).store
  BY <1>1, <1>2, <1>3, <1>5, <1>6, <1>7, <1>8, LeanRoute DEF RoutesAreWhole, DeclaresMakes
<1> QED
  BY <1>1, <1>8, MadeStory

LEMMA NextStory ==
    ASSUME RoutesAreWhole, GuardsAreFed, Inv, EarnedInv, Story, [Next]_vars
    PROVE  Story'
<1>1. CASE Start
  <2>1. PICK i \in RunIds :
            \/ \E goal \in Goals : StartPlan(goal, i)
            \/ \E s \in Standalone, source \in Sources, skip \in BOOLEAN :
                   StartSkill(s, source, skip, i)
            \/ Replay(i)
            \/ Export(i)
    BY <1>1 DEF Start
  <2> QED
    BY <2>1, StartPlanStory, StartSkillStory, OtherStory
<1>2. CASE Truncate \/ Write
  BY <1>2, SavingStory
<1>3. CASE RoutePasses \/ RouteStep
  BY <1>3, RouteStepsStory
<1>4. CASE RouteMade
  BY <1>4, RouteMadeStory
<1>5. CASE PlanMade
  BY <1>5, PlanMadeStory
<1>6. CASE \E s \in Skills : PlanStep(s)
  BY <1>6, PlanStepStory
<1>7. CASE \/ \E s \in Skills : PlanThrows(s)
           \/ PlanBlocked \/ RouteThrows \/ RouteLacking \/ Crash
  BY <1>7, RestStory DEF PlanThrows, PlanBlocked, RouteThrows, RouteLacking, Crash
<1>8. CASE UNCHANGED vars
  BY <1>8 DEF vars, Story, PlanStory, RouteStory, RedundantIsUseless, RanSoFar, Declared
<1> QED
  BY <1>1, <1>2, <1>3, <1>4, <1>5, <1>6, <1>7, <1>8 DEF Next, Progress, Planning, Routing

\* Where the routes of the installed skills are whole and their guards are fed (and
\* those of the repository are: a run evaluates it), a route that a command has run
\* to its end still gets through, and to its targets, without the steps that the
\* route proof calls redundant.
THEOREM RedundantStepsAreUseless ==
    RoutesAreWhole /\ GuardsAreFed => (Spec => []RedundantIsUseless)
<1> SUFFICES ASSUME RoutesAreWhole, GuardsAreFed PROVE Spec => []RedundantIsUseless
  OBVIOUS
<1>1. Init => EarnedInv /\ Story
  BY InitEarned, InitStory
<1>2. Inv /\ EarnedInv /\ Story /\ [Next]_vars => EarnedInv' /\ Story'
  BY NextEarned, NextStory
<1>3. Story => RedundantIsUseless
  BY DEF Story
<1> QED
  BY <1>1, <1>2, <1>3, SpecInv, PTL DEF Spec
=============================================================================
