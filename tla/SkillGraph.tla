------------------------------ MODULE SkillGraph ------------------------------
(***************************************************************************)
(* Skills and what the runtime decides from their manifests: which ones a  *)
(* goal brings into a plan, which of them is next (runtime/router.ts,      *)
(* runtime/graph-runtime.ts), how an explicit route runs, and what the     *)
(* mesh prover (skills/mesh-prover/run.ts) says of a route.                *)
(*                                                                         *)
(* An artifact is its key; a goal is the set of trigger words it contains. *)
(* What a handler does is which keys it puts, which skill it hands off to  *)
(* and whether it throws.                                                  *)
(***************************************************************************)
EXTENDS Integers, Sequences, FiniteSets, Functions

CONSTANTS
    Registry,  \* skill name -> its manifest, and what its handler does
    Rank       \* skill name -> its place in localeCompare order

Skills == DOMAIN Registry
None == "none"

Stages == {"sensor", "planner", "guardrail", "executor", "memory"}
Failures == {"never", "sometimes", "always"}
Manifest(keys, names, words) ==
    [stage : Stages, guards : BOOLEAN, alwaysOn : BOOLEAN, repeatable : BOOLEAN,
     triggers : SUBSET words, consumes : SUBSET keys, produces : SUBSET keys,
     hasHandoff : BOOLEAN, fromRun : BOOLEAN, route : Seq(names), outputs : SUBSET keys,
     makes : SUBSET keys, handoff : names \cup {None}, fails : Failures]

Keys == UNION {Registry[s].produces \cup Registry[s].consumes \cup Registry[s].makes : s \in Skills}
Words == UNION {Registry[s].triggers : s \in Skills}

ASSUME RegistryAssumption ==
    /\ Registry \in [Skills -> Manifest(Keys, Skills, Words)]
    /\ Rank \in [Skills -> Nat]
    /\ \A s, t \in Skills : Rank[s] = Rank[t] => s = t
    /\ None \notin Skills
-----------------------------------------------------------------------------
(* Planning: runtime/router.ts and runPlanningGraph.                       *)

StageRank ==
    [sensor |-> 0, planner |-> 1, guardrail |-> 2, executor |-> 3, memory |-> 4]

PlanningSkills == {s \in Skills : Registry[s].stage \in {"sensor", "planner", "guardrail"}}

TriggerScore(goal, s) == Cardinality(Registry[s].triggers \cap goal)

ShouldSeed(goal, s) ==
    \/ Registry[s].stage = "guardrail"
    \/ Registry[s].alwaysOn
    \/ Registry[s].triggers \cap goal # {}

Candidates(goal) == {s \in PlanningSkills : ShouldSeed(goal, s)}

Satisfied(s, store) == Registry[s].consumes \subseteq store

\* Mutant: every skill is repeatable.
EndlessMutant(s, executed) == TRUE
\* Mutant: no skill is.
OnceMutant(s, executed) == s \notin executed
MayRun(s, executed) == s \notin executed \/ Registry[s].repeatable

Ready(goal, executed, store) ==
    {s \in Candidates(goal) : MayRun(s, executed) /\ Satisfied(s, store)}

ReadinessScore(goal, s, store) ==
    10 * TriggerScore(goal, s) + 3 * Cardinality(Registry[s].produces)
        + 2 * (IF Registry[s].hasHandoff THEN 1 ELSE 0)
        + Cardinality(Registry[s].consumes \cap store)

\* s comes before t when neither is handed off to.
Outranks(goal, s, t, store) ==
    LET stage(x) == StageRank[Registry[x].stage]
        score(x) == ReadinessScore(goal, x, store)
    IN  \/ stage(s) < stage(t)
        \/ stage(s) = stage(t) /\ score(s) > score(t)
        \/ stage(s) = stage(t) /\ score(s) = score(t) /\ Rank[s] <= Rank[t]

\* s is the ready skill that pickNextManifest takes after the skill `last`.
IsNext(goal, s, ready, last, store) ==
    LET handoff == IF last = None THEN None ELSE Registry[last].handoff
    IN  IF handoff \in ready THEN s = handoff
        ELSE \A t \in ready : Outranks(goal, s, t, store)

\* Some other candidate could still produce something that s consumes.
PendingProduces(s, executed, candidates) ==
    /\ MayRun(s, executed)
    /\ \/ Registry[s].consumes = {}
       \/ \E t \in candidates \ {s} :
              Registry[t].produces \cap Registry[s].consumes # {} /\ MayRun(t, executed)

Blocked(goal, executed, store) ==
    {s \in Candidates(goal) :
        /\ MayRun(s, executed)
        /\ ~Satisfied(s, store)
        /\ PendingProduces(s, executed, Candidates(goal))}
-----------------------------------------------------------------------------
(* Explicit routes: runExplicitRoute, and the run of `skills run`.         *)

Superfluous(s, executed) == s \in executed /\ ~Registry[s].repeatable

\* --skip-satisfied passes over a step whose outputs are all there.
CanSkip(s, store, skip) ==
    /\ skip
    /\ Registry[s].produces # {}
    /\ Registry[s].produces \subseteq store

\* What the store is after each step of a route, and whether it got there.
RouteStores(route, given, skip) ==
    LET Before(i) == {route[j] : j \in 1..(i - 1)}
        step[i \in 0..Len(route)] ==
            IF i = 0 THEN [ok |-> TRUE, store |-> given]
            ELSE LET s == route[i]
                     prior == step[i - 1]
                 IN  IF ~prior.ok \/ Superfluous(s, Before(i)) THEN prior
                     ELSE IF ~Satisfied(s, prior.store) THEN [prior EXCEPT !.ok = FALSE]
                     ELSE IF CanSkip(s, prior.store, skip) THEN prior
                     ELSE [prior EXCEPT !.store = @ \cup Registry[s].makes]
    IN  step[Len(route)]

\* The static part of `skills certify`: the declared route ends with the skill
\* and yields the outputs declared.
Certified(s) ==
    LET route == Registry[s].route
    IN  /\ route # << >>
        /\ route[Len(route)] = s
        /\ Range(route) \subseteq Skills
        /\ (s = "replay") = (Registry[s].outputs = {})
        /\ \A key \in Registry[s].outputs : \E t \in Range(route) : key \in Registry[t].produces
-----------------------------------------------------------------------------
(* Route proofs: skills/mesh-prover/run.ts.                                *)

\* Keys the steps after step i need, for the targets: `required` of buildMinimality.
Required(route, targets, skipped) ==
    LET need[i \in 0..Len(route)] ==
            IF i = 0 THEN targets
            ELSE LET s == route[Len(route) + 1 - i]
                 IN  IF s \notin skipped /\ Registry[s].produces \cap need[i - 1] # {}
                     THEN need[i - 1] \cup Registry[s].consumes
                     ELSE need[i - 1]
    IN  [i \in 1..Len(route) |-> need[Len(route) - i]]

\* The executed steps that nothing after them and no target needs.
Redundant(route, targets, skipped) ==
    {i \in 1..Len(route) :
        LET s == route[i]
        IN  /\ targets # {}
            /\ s \notin skipped
            /\ Registry[s].produces # {}
            /\ Registry[s].produces \cap Required(route, targets, skipped)[i] = {}
            /\ ~Registry[s].guards
            /\ ~(Registry[s].stage = "memory" /\ Registry[s].produces \cap targets = {})}

ResumePoints(route) == {s \in Range(route) : Certified(s)}

\* Mutant: what a needed step consumes is not needed.
RouteProofMutant(kind, route, targets, skipped, store) ==
    LET needless == {i \in 1..Len(route) : Registry[route[i]].produces \cap targets = {}}
    IN  [kind |-> kind, route |-> route, targets |-> targets,
         passed |-> targets \subseteq store /\ needless = {}, redundant |-> needless,
         resume |-> ResumePoints(route)]

RouteProof(kind, route, targets, skipped, store) ==
    [kind |-> kind, route |-> route, targets |-> targets,
     passed |-> targets \subseteq store /\ Redundant(route, targets, skipped) = {},
     redundant |-> Redundant(route, targets, skipped),
     resume |-> ResumePoints(route)]
=============================================================================
