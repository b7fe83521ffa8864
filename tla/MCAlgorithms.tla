----------------------------- MODULE MCAlgorithms -----------------------------
(***************************************************************************)
(* The pure parts of the runtime over every small input: journals over a   *)
(* snapshot, registries with what is wanted of them, artifacts with their  *)
(* producers and consumers.  A behaviour makes one input, piece by piece,  *)
(* and every piece on the way is an input too.                             *)
(***************************************************************************)
EXTENDS LedgerReplay, SafetyVerifier, MerkleDag

CONSTANTS f1, f2, MaxEvents,
          Artifacts   \* the keys an artifact may have

ASSUME ArtifactsAssumption == IsFiniteSet(Artifacts) /\ Artifacts \subseteq DOMAIN Order

VARIABLES
    base, events,                          \* a snapshot and a journal
    registry, targets,                     \* manifests by name, artifacts wanted
    artifacts, producerMap, consumerMap    \* contents by key, and who makes and takes them

ledgerVars == <<base, events>>
planVars == <<registry, targets>>
dagVars == <<artifacts, producerMap, consumerMap>>
vars == <<base, events, registry, targets, artifacts, producerMap, consumerMap>>

\* "a" asks for approval, "g" is a guardrail, "w" writes and needs a capability.
Names == {"a", "g", "w"}
ASSUME NamesAssumption == Names \subseteq DOMAIN Place
Places == [a |-> 2, g |-> 3, w |-> 1, x |-> 1, y |-> 2, z |-> 3]
ManifestOf(s, consumed, produced) ==
    [consumes |-> consumed, produces |-> produced, writes |-> s = "w", approves |-> s = "a",
     stage |-> IF s = "g" THEN "guardrail" ELSE "planner",
     requires |-> IF s = "w" THEN {"net"} ELSE {}]

\* What a skill may produce: nothing, an artifact of its own or another's.
May == [w |-> {{}, {"x"}}, a |-> {{}, {"x"}, {"y"}}, g |-> {{}, {"x"}, {"y"}, {"z"}}]

NoArtifacts == [k \in {} |-> "old"]
NoMaps == [k \in Artifacts |-> {}]

Init ==
    /\ base \in Ledger /\ events = << >>
    /\ registry = [s \in {} |-> {}] /\ targets \in {{}, {"x"}, {"y"}, {"x", "z"}}
    /\ artifacts = NoArtifacts /\ consumerMap = NoMaps
    /\ producerMap = [k \in Artifacts |-> NoProducer]
    /\ targets # {} => base = EmptyLedger

AppendLine ==
    /\ Len(events) < MaxEvents /\ targets = {} /\ registry = << >> /\ artifacts = << >>
    /\ \E e \in Event : events' = Append(events, e)
    /\ UNCHANGED <<base, planVars, dagVars>>

\* A skill consumes two artifacts at most.
AddSkill(s) ==
    /\ base = EmptyLedger /\ events = << >> /\ artifacts = << >>
    /\ s \notin DOMAIN registry
    /\ \A t \in Names \ DOMAIN registry : Place[s] <= Place[t]
    /\ \E consumed \in {C \in SUBSET Artifacts : Cardinality(C) <= 2}, produced \in May[s] :
           registry' = [t \in DOMAIN registry \cup {s} |->
                           IF t = s THEN ManifestOf(s, consumed, produced) ELSE registry[t]]
    /\ UNCHANGED <<targets, ledgerVars, dagVars>>

Idle == base = EmptyLedger /\ events = << >> /\ targets = {} /\ registry = << >>

\* consumerMap by artifact keys ...
ChooseDirect ==
    /\ Idle /\ artifacts = << >>
    /\ \E present \in (SUBSET Artifacts) \ {{}} : artifacts' = [k \in present |-> "old"]
    /\ consumerMap' \in [Artifacts -> SUBSET Artifacts]
    /\ UNCHANGED <<producerMap, ledgerVars, planVars>>

\* ... and by the skills that consume them, of which every artifact may have one.
ChooseInferred ==
    /\ Idle /\ artifacts = << >>
    /\ artifacts' = [k \in Artifacts |-> "old"]
    /\ producerMap' \in [Artifacts -> {NoProducer, "a", "g"}]
    /\ consumerMap' \in [Artifacts -> SUBSET {"a", "g"}]
    /\ UNCHANGED <<ledgerVars, planVars>>

Next == AppendLine \/ (\E s \in Names : AddSkill(s)) \/ ChooseDirect \/ ChooseInferred
Spec == Init /\ [][Next]_vars
-----------------------------------------------------------------------------
(* Journals.                                                               *)

\* Reading the journal line by line and applying each event (idempotency.ts:367-374)
\* gives, for every fingerprint, the kind of its last event if the fingerprint is
\* known by then, and the snapshot's status if not.
ReplayIsFold == Replay(base, events) = FoldLeft(ApplyEvent, base, events)
-----------------------------------------------------------------------------
(* Registries.                                                             *)

Plan == CompileExecutionPlan(registry, targets)

\* What one skill produces another consumes.
Feeds(p, s) == p # s /\ registry[p].produces \cap registry[s].consumes # {}
IsChain(path, edge(_, _)) == \A i \in 1..(Len(path) - 1) : edge(path[i], path[i + 1])

\* compileExecutionPlan throws for just those registries whose kept skills cannot be
\* put in an order, and the cycle its message names is one: it goes through kept
\* skills along dependencies and comes back to where it began.
CompilesUnlessCyclic ==
    LET plan == Plan
        kept == KeptSkills(registry, targets)
        edge(p, s) == {p, s} \subseteq kept /\ Feeds(p, s)
    IN  /\ plan.ok <=> ~\E S \in (SUBSET kept) \ {{}} : \A s \in S : \E p \in S : edge(p, s)
        /\ ~plan.ok => /\ Len(plan.cycle) > 2 /\ plan.cycle[1] = Last(plan.cycle)
                       /\ IsChain(plan.cycle, edge)

\* A plan holds exactly the skills that some wanted artifact goes back to, each at the
\* first level after all its predecessors, and its critical path is a longest chain.
PlanIsTight ==
    LET plan == Plan
        kept == UNION Range(plan.levels)
        depth == [s \in kept |-> CHOOSE d \in DOMAIN plan.levels : s \in plan.levels[d]]
        wanted(S) == \A s \in DOMAIN registry :
                         (\/ targets = {} \/ registry[s].produces \cap targets # {}
                          \/ \E t \in S : registry[s].produces \cap registry[t].consumes # {})
                         => s \in S
    IN  plan.ok =>
            /\ wanted(kept)
            /\ \A S \in SUBSET kept : wanted(S) => S = kept
            /\ DOMAIN plan.pruned = DOMAIN registry \ kept
            /\ \A s \in kept : depth[s] = 1 + Max({0} \cup {depth[p] : p \in {q \in kept : Feeds(q, s)}})
            /\ Len(plan.criticalPath) = Len(plan.levels)
            /\ IsChain(plan.criticalPath, Feeds)

\* A registry that the safety verifier passes compiles whatever is wanted of it, its
\* plan, run level by level from the initial artifacts, gives every skill its inputs,
\* and a skill that writes runs after a guardrail and after an approval.
VerifiedPlansRun ==
    \A initial \in {{}, {"x"}} :
        VerifySafetyInvariants(registry, {"net"}, initial).passed =>
            LET plan == Plan
                Before(d) == UNION {plan.levels[e] : e \in 1..(d - 1)}
            IN  /\ plan.ok
                /\ \A d \in DOMAIN plan.levels : \A s \in plan.levels[d] :
                       /\ registry[s].consumes
                              \subseteq initial \cup UNION {registry[p].produces : p \in Before(d)}
                       /\ registry[s].writes => /\ \E p \in Before(d) : registry[p].stage = "guardrail"
                                                /\ \E p \in Before(d) : registry[p].approves
-----------------------------------------------------------------------------
(* Merkle chains.                                                          *)

Inputs == [k \in DOMAIN artifacts |-> InputArtifacts(artifacts, producerMap, consumerMap, k)]
Buildable == (artifacts = NoArtifacts => Idle) /\ ~Circular(Inputs)
Dag == BuildMerkleDag(artifacts, producerMap, Inputs)

\* What is in S, or made from something that is.
MadeFrom(S) ==
    {k \in DOMAIN artifacts : \A T \in SUBSET DOMAIN artifacts :
        S \subseteq T /\ (\A j \in DOMAIN artifacts : Inputs[j] \cap T # {} => j \in T) => k \in T}

\* Checked against other contents, or with artifacts gone, a stored chain is invalid
\* at exactly the artifacts that differ and everything made from them.
TamperSpreads ==
    LET dag == Dag
    IN  Buildable =>
        \A now \in [DOMAIN artifacts -> {"old", "new", "gone"}] :
            LET found == Restrict(now, {k \in DOMAIN now : now[k] # "gone"})
                changed == {k \in DOMAIN now : now[k] # "old"}
            IN  /\ InvalidNodes(dag, found) = MadeFrom(changed)
                /\ VerifyMerkleDag(dag, found) <=> changed = {}

Hashes(dag) == {dag.nodes[k].chainedHash : k \in DOMAIN dag.nodes}
\* Some node's field has one of these values.
WithField(dag, field, values) ==
    {[dag EXCEPT !.nodes[k][field] = v] : k \in DOMAIN dag.nodes, v \in values}

\* One field of one node, any of its six, or one of the three of the chain itself, is
\* another, or nodes are missing.
Altered(dag) ==
    LET keys == DOMAIN dag.nodes
        known == Hashes(dag) \cup {ChainedHash(Missing, {})}
    IN  WithField(dag, "contentHash", {dag.nodes[k].contentHash : k \in keys} \cup {Missing})
        \cup WithField(dag, "chainedHash", known)
        \cup WithField(dag, "inputHashes", SUBSET known)
        \cup WithField(dag, "depth", 0..3)
        \cup WithField(dag, "artifactKey", Artifacts)
        \cup WithField(dag, "producedBy", {NoProducer, "a", "g"})
        \cup {[dag EXCEPT !.roots = S] : S \in SUBSET keys}
        \cup {[dag EXCEPT !.leaves = S] : S \in SUBSET keys}
        \cup {[dag EXCEPT !.chainDigest = S] : S \in SUBSET Hashes(dag)}
        \cup {[dag EXCEPT !.nodes = Restrict(dag.nodes, S)] : S \in SUBSET keys}

\* A stored chain with a field altered, or with nodes missing, verifies just when the
\* field is one that verifyMerkleDag never compares, a node's artifactKey or its
\* producedBy: a changed producer goes unnoticed, any other change is found
\* (merkle-dag.ts:348-442).
AlteredIsFound ==
    LET stored == Dag
    IN  Buildable => \A dag \in Altered(stored) :
            VerifyMerkleDag(dag, artifacts) <=> Checked(dag) = Checked(stored)

AllInputs ==
    {inputs \in UNION {[present -> SUBSET present] : present \in SUBSET Artifacts} : ~Circular(inputs)}
AllDags ==
    UNION {{BuildMerkleDag(contents, [k \in Artifacts |-> NoProducer], inputs)
               : contents \in [DOMAIN inputs -> {"old", "new"}]} : inputs \in AllInputs}

\* Two built chains with the same chain digest have the same artifacts, contents, inputs
\* and depths; who produced an artifact the digest leaves open.
ChainDigestBinds ==
    LET stored == Dag
    IN  Buildable =>
            \A dag \in AllDags :
                dag.chainDigest = stored.chainDigest => Checked(dag) = Checked(stored)

\* The proof path of an artifact accepts its content and no other and ends in a hash
\* that the chain digest covers; one step after another is accepted when the second
\* artifact was made from the first and only then.  The steps are those of the stored
\* chain, whose strings are all hashes.
ProofPathsBind ==
    LET dag == Dag
    IN  Buildable =>
        \A k \in DOMAIN artifacts :
            LET proof == GetMerkleProofPath(dag, k)
                whole(j) == GetMerkleProofPath(dag, j).path[1]
            IN  /\ proof.expectedChainedHash \in dag.chainDigest
                /\ \A data \in {"old", "new"}, j \in Artifacts :
                       VerifySingleArtifact(proof, j, data) <=> j = k /\ data = artifacts[k]
                /\ \A j \in DOMAIN artifacts :
                       VerifySingleArtifact(
                           [target |-> k, path |-> <<whole(k), whole(j)>>,
                            expectedChainedHash |-> whole(j).chainedHash], k, artifacts[k])
                       <=> k \in Inputs[j]
================================================================================
