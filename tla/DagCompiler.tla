------------------------------ MODULE DagCompiler ------------------------------
(***************************************************************************)
(* runtime/dag-compiler.ts: from the manifests of a registry and the       *)
(* artifacts that are wanted to levels of skills that may run in parallel. *)
(*                                                                         *)
(* A registry is a function from names to manifests; only what they        *)
(* consume and produce is looked at.  Names are in localeCompare order.    *)
(***************************************************************************)
EXTENDS Naturals, Sequences, SequencesExt

CONSTANT Place   \* name -> its place in localeCompare order

ASSUME PlaceAssumption == \A s \in DOMAIN Place : Place[s] \in Nat

First(names) == CHOOSE s \in names : \A t \in names : Place[s] <= Place[t]

Producers(reg, artifact) == {s \in DOMAIN reg : artifact \in reg[s].produces}
\* Mutant: a skill precedes itself.
PredecessorsMutant(reg, s) == {p \in DOMAIN reg : reg[p].produces \cap reg[s].consumes # {}}
Predecessors(reg, s) == {p \in DOMAIN reg \ {s} : reg[p].produces \cap reg[s].consumes # {}}
Successors(reg, s) == {t \in DOMAIN reg \ {s} : reg[s].produces \cap reg[t].consumes # {}}

\* The skills that a wanted artifact goes back to: all of them if none is named.
KeptSkills(reg, targets) ==
    LET needs(S) == targets \cup UNION {reg[s].consumes : s \in S}
        kept[i \in 0..Cardinality(DOMAIN reg)] ==
            IF i = 0 THEN {} ELSE UNION {Producers(reg, a) : a \in needs(kept[i - 1])}
    IN  IF targets = {} THEN DOMAIN reg ELSE kept[Cardinality(DOMAIN reg)]

PrunedSkills(reg, targets) ==
    [s \in DOMAIN reg \ KeptSkills(reg, targets) |->
        IF Successors(reg, s) = {} /\ reg[s].produces \cap targets = {}
        THEN "no_consumers" ELSE "unreachable_from_targets"]

\* Mutant: what gets ready joins the level that is being taken.
TopoLevelsMutant(reg) ==
    LET taken[i \in 0..Cardinality(DOMAIN reg)] ==
            IF i = 0 THEN {} ELSE {s \in DOMAIN reg : Predecessors(reg, s) \subseteq taken[i - 1]}
    IN  <<taken[Cardinality(DOMAIN reg)]>>

\* Rounds of skills that wait for nothing more, up to the first without any; `waits`
\* is the indegree map.
TopoLevels(reg) ==
    LET round[i \in 0..Cardinality(DOMAIN reg)] ==
            IF i = 0
            THEN LET waits == [s \in DOMAIN reg |-> Cardinality(Predecessors(reg, s))]
                 IN  [waits |-> waits, ready |-> {s \in DOMAIN reg : waits[s] = 0}]
            ELSE LET prior == round[i - 1]
                     fed(s) == Cardinality(Predecessors(reg, s) \cap prior.ready)
                     waits == [s \in DOMAIN reg |-> prior.waits[s] - fed(s)]
                 IN  [waits |-> waits,
                      ready |-> {s \in DOMAIN reg : fed(s) > 0 /\ waits[s] = 0}]
        taken == {i \in 1..Cardinality(DOMAIN reg) : \A j \in 1..i : round[j - 1].ready # {}}
    IN  [i \in taken |-> round[i - 1].ready]

\* One look of a depth-first search: at the next node that no search is done with
\* when the stack is empty, or from the top of the stack along its first open edge.
\* A node is on the stack, done or new; an edge back into the stack closes a cycle.
SearchStep(nodes, next, at) ==
    LET node == Last(at.stack)
        open == next[node] \ at.done
        t == First(open)
    IN  IF at.cycle # << >> \/ at.done = nodes THEN at
        ELSE IF at.stack = << >> THEN [at EXCEPT !.stack = <<First(nodes \ at.done)>>]
        ELSE IF open = {} THEN [at EXCEPT !.stack = Front(@), !.done = @ \cup {node}]
        ELSE IF t \notin Range(at.stack) THEN [at EXCEPT !.stack = Append(@, t)]
        ELSE LET i == CHOOSE j \in DOMAIN at.stack : at.stack[j] = t
             IN  [at EXCEPT !.cycle = Append(SubSeq(at.stack, i, Len(at.stack)), t)]

\* The cycle that is closed first (none: the empty sequence).  Every node is put on
\* the stack once and taken off it once.
FindCycle(nodes, next) ==
    LET search[i \in 0..(2 * Cardinality(nodes))] ==
            IF i = 0 THEN [stack |-> << >>, done |-> {}, cycle |-> << >>]
                     ELSE SearchStep(nodes, next, search[i - 1])
    IN  search[2 * Cardinality(nodes)].cycle

\* Over an acyclic registry: a longest chain, the first by name where they tie.
CriticalPath(reg) ==
    LET distance[s \in DOMAIN reg] ==
            IF Predecessors(reg, s) = {} THEN 1
            ELSE 1 + Max({distance[p] : p \in Predecessors(reg, s)})
        furthest(S) == First({s \in S : \A t \in S : distance[t] <= distance[s]})
        back[i \in 1..distance[furthest(DOMAIN reg)]] ==
            IF i = 1 THEN furthest(DOMAIN reg) ELSE furthest(Predecessors(reg, back[i - 1]))
    IN  Reverse([i \in DOMAIN back |-> back[i]])

\* compileExecutionPlan.  ok is FALSE when it throws, with the cycle it names.
CompileExecutionPlan(reg, targets) ==
    LET active == Restrict(reg, KeptSkills(reg, targets))
        levels == TopoLevels(active)
        left == DOMAIN active \ UNION Range(levels)
        next == [s \in left |-> Successors(active, s) \cap left]
    IN  IF DOMAIN active = {}
        THEN [ok |-> TRUE, levels |-> << >>, criticalPath |-> << >>, cycle |-> << >>,
              pruned |-> PrunedSkills(reg, targets)]
        ELSE [ok |-> left = {}, levels |-> levels,
              criticalPath |-> IF left = {} THEN CriticalPath(active) ELSE << >>,
              cycle |-> IF left = {} THEN << >> ELSE FindCycle(left, next),
              pruned |-> PrunedSkills(reg, targets)]
================================================================================
