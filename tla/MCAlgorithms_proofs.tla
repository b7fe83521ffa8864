-------------------------- MODULE MCAlgorithms_proofs --------------------------
(***************************************************************************)
(* What holds of every input that MCAlgorithms makes, for any set of       *)
(* fingerprints, journals of any length and any finite set of artifacts.   *)
(***************************************************************************)
EXTENDS MCAlgorithms, LedgerReplay_proofs, DagCompiler_proofs

\* The inputs are of the kind the algorithms work on: a snapshot and a journal, and
\* artifacts as buildMerkleDag takes them; and a registry of named skills.
InputsOK ==
    /\ base \in Ledger /\ events \in Seq(Event)
    /\ DOMAIN artifacts \subseteq Artifacts
    /\ \A k \in DOMAIN artifacts : artifacts[k] = "old"
    /\ DOMAIN registry \subseteq Names

THEOREM InputsCorrect == Spec => []InputsOK
<1>1. Init => InputsOK
  <2> SUFFICES ASSUME Init PROVE InputsOK
    OBVIOUS
  <2>1. DOMAIN NoArtifacts = {}
    BY DEF NoArtifacts
  <2>2. base \in Ledger /\ events = << >> /\ artifacts = NoArtifacts
    BY DEF Init
  <2>3. events \in Seq(Event)
    BY <2>2
  <2>4. DOMAIN registry = {}
    BY DEF Init
  <2> QED
    BY <2>1, <2>2, <2>3, <2>4 DEF InputsOK
<1>2. InputsOK /\ [Next]_vars => InputsOK'
  <2> SUFFICES ASSUME InputsOK, [Next]_vars PROVE InputsOK'
    OBVIOUS
  <2> USE DEF InputsOK
  <2>1. CASE AppendLine
    BY <2>1 DEF AppendLine, planVars, dagVars
  <2>2. ASSUME NEW s \in Names, AddSkill(s) PROVE InputsOK'
    BY <2>2 DEF AddSkill, ledgerVars, dagVars
  <2>3. CASE ChooseDirect
    BY <2>3 DEF ChooseDirect, ledgerVars, planVars
  <2>4. CASE ChooseInferred
    BY <2>4 DEF ChooseInferred, ledgerVars, planVars
  <2>5. CASE UNCHANGED vars
    BY <2>5 DEF vars
  <2> QED
    BY <2>1, <2>2, <2>3, <2>4, <2>5 DEF Next
<1> QED
  BY <1>1, <1>2, PTL DEF Spec

\* Reading a journal over a snapshot (idempotency.ts:367-374) applies its events one
\* after the other, however long the journal is.
THEOREM ReplayFoldsAlways == Spec => []ReplayIsFold
<1>1. InputsOK => ReplayIsFold
  BY ReplayFolds DEF InputsOK, ReplayIsFold
<1> QED
  BY <1>1, InputsCorrect, PTL

-----------------------------------------------------------------------------
(* Registries.                                                             *)

LEMMA RegistryIs ==
    ASSUME InputsOK
    PROVE  /\ IsRegistry(registry)
           /\ KeptSkills(registry, targets) \subseteq DOMAIN registry
           /\ \A s, p \in DOMAIN registry : Feeds(p, s) <=> p \in Predecessors(registry, s)
<1>1. IsFiniteSet(Names)
  <2>1. IsFiniteSet({}) /\ IsFiniteSet({} \cup {"a"})
    BY FS_EmptySet, FS_AddElement
  <2>2. IsFiniteSet({"a"} \cup {"g"})
    BY <2>1, FS_AddElement
  <2>3. IsFiniteSet({"a", "g"} \cup {"w"})
    <3>1. {"a"} \cup {"g"} = {"a", "g"}
      OBVIOUS
    <3> QED
      BY <2>2, <3>1, FS_AddElement
  <2>4. Names = {"a", "g"} \cup {"w"}
    BY DEF Names
  <2> QED
    BY <2>3, <2>4
<1>2. IsRegistry(registry)
  <2>1. DOMAIN registry \subseteq Names
    BY DEF InputsOK
  <2>2. IsFiniteSet(DOMAIN registry)
    BY <1>1, <2>1, FS_Subset
  <2> QED
    BY <2>1, <2>2, NamesAssumption DEF IsRegistry
<1>3. KeptSkills(registry, targets) \subseteq DOMAIN registry
  BY <1>2, KeptIsLeast
<1> QED
  BY <1>2, <1>3 DEF Feeds, Predecessors

\* compileExecutionPlan (dag-compiler.ts:363-428) throws for just those registries whose
\* kept skills cannot be put in an order, and names a cycle of them.
THEOREM CompilesUnlessCyclicAlways == Spec => []CompilesUnlessCyclic
<1>1. ASSUME InputsOK PROVE CompilesUnlessCyclic
  <2> DEFINE plan == Plan
             kept == KeptSkills(registry, targets)
             edge(p, s) == {p, s} \subseteq kept /\ Feeds(p, s)
  <2>1. /\ IsRegistry(registry) /\ kept \subseteq DOMAIN registry
        /\ \A s, p \in kept : Feeds(p, s) <=> p \in Predecessors(registry, s)
    BY <1>1, RegistryIs
  <2>2. /\ plan.ok <=> ~\E S \in SUBSET kept : IsCircle(registry, S)
        /\ ~plan.ok =>
               /\ plan.cycle \in Seq(kept) /\ Len(plan.cycle) > 2
               /\ plan.cycle[1] = plan.cycle[Len(plan.cycle)]
               /\ \A i \in 1..(Len(plan.cycle) - 1) :
                      plan.cycle[i] \in Predecessors(registry, plan.cycle[i + 1])
    BY <2>1, CompilesUnlessCircular DEF Plan
  <2>3. \A S \in SUBSET kept :
            IsCircle(registry, S) <=> S # {} /\ \A s \in S : \E p \in S : edge(p, s)
    BY <2>1 DEF IsCircle
  <2>4. ASSUME ~plan.ok
        PROVE  /\ plan.cycle[1] = Last(plan.cycle)
               /\ \A i \in 1..(Len(plan.cycle) - 1) : edge(plan.cycle[i], plan.cycle[i + 1])
    <3> DEFINE cycle == plan.cycle
    <3>1. /\ cycle \in Seq(kept) /\ cycle[1] = cycle[Len(cycle)]
          /\ \A i \in 1..(Len(cycle) - 1) : cycle[i] \in Predecessors(registry, cycle[i + 1])
      BY <2>2, <2>4
    <3> HIDE DEF cycle, kept
    <3>2. ASSUME NEW i \in 1..(Len(cycle) - 1) PROVE {cycle[i], cycle[i + 1]} \subseteq kept
      <4>1. i \in 1..Len(cycle) /\ i + 1 \in 1..Len(cycle)
        BY <3>1
      <4> QED
        BY <3>1, <4>1
    <3>3. \A i \in 1..(Len(cycle) - 1) : edge(cycle[i], cycle[i + 1])
      BY <2>1, <3>1, <3>2
    <3> QED
      BY <3>1, <3>3 DEF Last, cycle
  <2> HIDE DEF plan, kept
  <2> QED
    BY <2>2, <2>3, <2>4 DEF CompilesUnlessCyclic, IsChain, plan, kept
<1> QED
  BY <1>1, InputsCorrect, PTL

\* A plan holds exactly the skills that some wanted artifact goes back to, each at the
\* first level after all its predecessors, and its critical path is a longest chain.
THEOREM PlanIsTightAlways == Spec => []PlanIsTight
<1>1. ASSUME InputsOK PROVE PlanIsTight
  <2> DEFINE plan == Plan
             levels == plan.levels
             kept == UNION Range(levels)
             depth == [s \in kept |-> CHOOSE d \in DOMAIN levels : s \in levels[d]]
             wanted(S) == \A s \in DOMAIN registry :
                             (\/ targets = {} \/ registry[s].produces \cap targets # {}
                              \/ \E t \in S : registry[s].produces \cap registry[t].consumes # {})
                             => s \in S
  <2> SUFFICES ASSUME plan.ok
               PROVE  /\ wanted(kept)
                      /\ \A S \in SUBSET kept : wanted(S) => S = kept
                      /\ DOMAIN plan.pruned = DOMAIN registry \ kept
                      /\ \A s \in kept : depth[s] = 1 + Max({0} \cup {depth[p] : p \in {q \in kept : Feeds(q, s)}})
                      /\ Len(plan.criticalPath) = Len(levels)
                      /\ IsChain(plan.criticalPath, Feeds)
    BY DEF PlanIsTight
  <2>1. /\ IsRegistry(registry) /\ KeptSkills(registry, targets) \subseteq DOMAIN registry
        /\ \A s, p \in DOMAIN registry : Feeds(p, s) <=> p \in Predecessors(registry, s)
    BY <1>1, RegistryIs
  <2>2. /\ kept = KeptSkills(registry, targets)
        /\ DOMAIN plan.pruned = DOMAIN registry \ KeptSkills(registry, targets)
        /\ \A s \in KeptSkills(registry, targets) :
               Depth(levels, s) = 1 + Max({0} \cup DepthsOf(levels, Predecessors(registry, s)))
        /\ plan.criticalPath \in Seq(KeptSkills(registry, targets))
        /\ Len(plan.criticalPath) = Len(levels)
        /\ \A i \in 1..(Len(plan.criticalPath) - 1) :
               plan.criticalPath[i] \in Predecessors(registry, plan.criticalPath[i + 1])
    BY <2>1, PlansAreTight DEF Plan
  <2>3. depth = [s \in kept |-> Depth(levels, s)]
    BY DEF Depth
  <2>4. \A S \in SUBSET DOMAIN registry : wanted(S) <=> Wanted(registry, targets, S)
    BY DEF Wanted
  <2>5. /\ Wanted(registry, targets, KeptSkills(registry, targets))
        /\ \A S \in SUBSET DOMAIN registry :
               Wanted(registry, targets, S) => KeptSkills(registry, targets) \subseteq S
    BY <2>1, KeptIsLeast
  <2> HIDE DEF kept, levels, wanted, depth, plan
  <2>6. wanted(kept) /\ \A S \in SUBSET kept : wanted(S) => S = kept
    BY <2>1, <2>2, <2>4, <2>5
  <2>7. ASSUME NEW s \in kept
        PROVE  depth[s] = 1 + Max({0} \cup {depth[p] : p \in {q \in kept : Feeds(q, s)}})
    <3>1. {q \in kept : Feeds(q, s)} = Predecessors(registry, s)
      <4>1. Predecessors(registry, s) \subseteq kept
        BY <2>1, <2>2, ActiveSkills
      <4> QED
        BY <2>1, <2>2, <4>1
    <3>2. {depth[p] : p \in {q \in kept : Feeds(q, s)}} = DepthsOf(levels, Predecessors(registry, s))
      BY <2>3, <3>1 DEF DepthsOf
    <3> QED
      BY <2>2, <2>3, <3>2
  <2>8. IsChain(plan.criticalPath, Feeds)
    <3> DEFINE path == plan.criticalPath
    <3>1. /\ path \in Seq(KeptSkills(registry, targets))
          /\ \A i \in 1..(Len(path) - 1) : path[i] \in Predecessors(registry, path[i + 1])
      BY <2>2
    <3> HIDE DEF path
    <3>2. ASSUME NEW i \in 1..(Len(path) - 1) PROVE Feeds(path[i], path[i + 1])
      <4>1. i \in 1..Len(path) /\ i + 1 \in 1..Len(path)
        BY <3>1
      <4>2. path[i] \in DOMAIN registry /\ path[i + 1] \in DOMAIN registry
        BY <2>1, <3>1, <4>1
      <4> QED
        BY <2>1, <3>1, <4>2
    <3> QED
      BY <3>2 DEF IsChain, path
  <2> QED
    BY <2>2, <2>6, <2>7, <2>8
<1> QED
  BY <1>1, InputsCorrect, PTL

\* A registry that the safety verifier passes (safety-verifier.ts:372-412) compiles, and its
\* plan gives every skill its inputs and runs no writing skill before a guardrail and an
\* approval.
THEOREM VerifiedPlansRunAlways == Spec => []VerifiedPlansRun
<1>1. ASSUME InputsOK PROVE VerifiedPlansRun
  <2> SUFFICES ASSUME NEW initial \in {{}, {"x"}},
                      VerifySafetyInvariants(registry, {"net"}, initial).passed
               PROVE  LET plan == Plan
                          earlier(d) == UNION {plan.levels[e] : e \in 1..(d - 1)}
                      IN  /\ plan.ok
                          /\ \A d \in DOMAIN plan.levels : \A s \in plan.levels[d] :
                                 /\ registry[s].consumes
                                        \subseteq initial \cup UNION {registry[p].produces : p \in earlier(d)}
                                 /\ registry[s].writes => /\ \E p \in earlier(d) : registry[p].stage = "guardrail"
                                                          /\ \E p \in earlier(d) : registry[p].approves
    BY DEF VerifiedPlansRun
  <2> DEFINE plan == Plan
             earlier(d) == Before(plan.levels, d)
  <2>1. /\ plan.ok
        /\ \A d \in DOMAIN plan.levels : \A s \in plan.levels[d] :
               /\ \A a \in registry[s].consumes \ initial :
                      \E p \in earlier(d) : a \in registry[p].produces
               /\ registry[s].writes => /\ \E p \in earlier(d) : registry[p].stage = "guardrail"
                                        /\ \E p \in earlier(d) : registry[p].approves
    BY <1>1, RegistryIs, VerifiedRegistriesRun DEF Plan
  <2>2. ASSUME NEW d \in DOMAIN plan.levels, NEW s \in plan.levels[d]
        PROVE  registry[s].consumes
                   \subseteq initial \cup UNION {registry[p].produces : p \in earlier(d)}
    <3> HIDE DEF plan
    <3> QED
      BY <2>1
  <2>3. \A d : earlier(d) = UNION {plan.levels[e] : e \in 1..(d - 1)}
    BY DEF Before
  <2> HIDE DEF earlier, plan
  <2> QED
    BY <2>1, <2>2, <2>3 DEF plan
<1> QED
  BY <1>1, InputsCorrect, PTL

-----------------------------------------------------------------------------
(* Merkle chains.                                                          *)

LEMMA DagIsBuilt ==
    ASSUME InputsOK, Buildable
    PROVE  IsBuilt(Dag, artifacts, Inputs)
<1>1. Inputs \in [DOMAIN artifacts -> SUBSET DOMAIN artifacts] /\ DOMAIN Inputs = DOMAIN artifacts
  BY DEF Inputs, InputArtifacts
<1>2. IsFiniteSet(DOMAIN artifacts)
  BY ArtifactsAssumption, FS_Subset DEF InputsOK
<1>3. IsDag(Inputs)
  BY <1>1, <1>2 DEF IsDag, Buildable
<1> QED
  BY <1>1, <1>3, BuildsIt DEF Dag

\* Checked against other contents, or with artifacts gone, a stored chain is invalid at
\* exactly the artifacts that differ and everything made from them
\* (merkle-dag.ts:348-442).
THEOREM TamperingSpreadsAlways == Spec => []TamperSpreads
<1>1. ASSUME InputsOK PROVE TamperSpreads
  <2> DEFINE Found(now) == Restrict(now, {k \in DOMAIN now : now[k] # "gone"})
             Differs(now) == {k \in DOMAIN now : now[k] # "old"}
  <2> SUFFICES ASSUME Buildable, NEW now \in [DOMAIN artifacts -> {"old", "new", "gone"}]
               PROVE  /\ InvalidNodes(Dag, Found(now)) = MadeFrom(Differs(now))
                      /\ VerifyMerkleDag(Dag, Found(now)) <=> Differs(now) = {}
    BY DEF TamperSpreads
  <2>1. IsBuilt(Dag, artifacts, Inputs)
    BY <1>1, DagIsBuilt
  <2>2. Changed(artifacts, Found(now)) = Differs(now)
    <3>1. /\ DOMAIN Found(now) = {k \in DOMAIN now : now[k] # "gone"}
          /\ \A k \in DOMAIN Found(now) : Found(now)[k] = now[k]
      BY DEF Restrict
    <3>2. DOMAIN now = DOMAIN artifacts /\ \A k \in DOMAIN artifacts : artifacts[k] = "old"
      BY <1>1 DEF InputsOK
    <3> HIDE DEF Found
    <3> QED
      BY <3>1, <3>2 DEF Changed
  <2>3. MadeFrom(Differs(now)) = Downstream(Inputs, Differs(now))
    <3>1. DOMAIN Inputs = DOMAIN artifacts
      BY DEF Inputs
    <3> HIDE DEF Differs
    <3> QED
      BY <3>1 DEF MadeFrom, Downstream
  <2> HIDE DEF Found, Differs
  <2> QED
    BY <2>1, <2>2, <2>3, TamperingSpreads, VerifiesUnchanged
<1> QED
  BY <1>1, InputsCorrect, PTL

LEMMA DagsAreBuilt ==
    ASSUME NEW dag \in AllDags
    PROVE  \E contents, edges :
               /\ dag = BuildMerkleDag(contents, [k \in Artifacts |-> NoProducer], edges)
               /\ IsBuilt(dag, contents, edges) /\ DOMAIN contents \subseteq Artifacts
<1>1. PICK edges \in AllInputs : \E contents \in [DOMAIN edges -> {"old", "new"}] :
          dag = BuildMerkleDag(contents, [k \in Artifacts |-> NoProducer], edges)
  BY DEF AllDags
<1>2. PICK contents \in [DOMAIN edges -> {"old", "new"}] :
          dag = BuildMerkleDag(contents, [k \in Artifacts |-> NoProducer], edges)
  BY <1>1
<1>3. PICK present \in SUBSET Artifacts : edges \in [present -> SUBSET present]
  BY DEF AllInputs
<1>4. IsFiniteSet(present)
  BY ArtifactsAssumption, FS_Subset
<1>5. IsDag(edges)
  BY <1>3, <1>4 DEF AllInputs, IsDag
<1>6. IsBuilt(dag, contents, edges)
  BY <1>2, <1>5, BuildsIt
<1> QED
  BY <1>2, <1>3, <1>6

\* Two built chains with the same chain digest have the same artifacts, contents, inputs
\* and depths (merkle-dag.ts:280-298).
THEOREM DigestBindsAlways == Spec => []ChainDigestBinds
<1>1. ASSUME InputsOK PROVE ChainDigestBinds
  <2> DEFINE stored == Dag
  <2> SUFFICES ASSUME Buildable, NEW dag \in AllDags, dag.chainDigest = stored.chainDigest
               PROVE  Checked(dag) = Checked(stored)
    BY DEF ChainDigestBinds
  <2>1. IsBuilt(stored, artifacts, Inputs)
    BY <1>1, DagIsBuilt
  <2>2. PICK contents, edges :
            /\ dag = BuildMerkleDag(contents, [k \in Artifacts |-> NoProducer], edges)
            /\ IsBuilt(dag, contents, edges) /\ DOMAIN contents \subseteq Artifacts
    BY DagsAreBuilt
  <2> HIDE DEF stored
  <2>3. /\ edges = Inputs /\ dag.roots = stored.roots /\ dag.leaves = stored.leaves
        /\ \A k \in DOMAIN edges : /\ dag.nodes[k].contentHash = stored.nodes[k].contentHash
                                   /\ dag.nodes[k].inputHashes = stored.nodes[k].inputHashes
                                   /\ dag.nodes[k].chainedHash = stored.nodes[k].chainedHash
                                   /\ dag.nodes[k].depth = stored.nodes[k].depth
    BY <2>1, <2>2, DigestBinds
  <2>4. DOMAIN dag.nodes = DOMAIN edges /\ DOMAIN stored.nodes = DOMAIN edges
    BY <2>1, <2>2, <2>3 DEF IsBuilt
  <2>5. Agree(dag, stored)
    BY <2>3, <2>4 DEF Agree
  <2> QED
    BY <2>5, CheckedAgree
<1> QED
  BY <1>1, InputsCorrect, PTL

\* What one altered field of one node changes.
Renewed(stored, k, field, v) == [stored EXCEPT !.nodes[k][field] = v]

LEMMA OneFieldOfANode ==
    ASSUME NEW contents, NEW producers, NEW inputs,
           NEW stored, stored = BuildMerkleDag(contents, producers, inputs),
           NEW k \in DOMAIN stored.nodes, NEW v,
           NEW field \in {"contentHash", "inputHashes", "chainedHash", "depth",
                         "artifactKey", "producedBy"},
           NEW dag, dag = Renewed(stored, k, field, v)
    PROVE  /\ dag.chainDigest = stored.chainDigest /\ DOMAIN dag.nodes = DOMAIN stored.nodes
           /\ dag.nodes[k][field] = v
           /\ v = stored.nodes[k][field] => dag = stored
           /\ field \in {"artifactKey", "producedBy"} => Checked(dag) = Checked(stored)
<1> DEFINE D == DOMAIN stored.nodes
           n == stored.nodes[k]
           altered == [n EXCEPT ![field] = v]
           nodes == [stored.nodes EXCEPT ![k] = altered]
<1>1. /\ stored = [nodes |-> stored.nodes, roots |-> stored.roots, leaves |-> stored.leaves,
                   chainDigest |-> stored.chainDigest]
      /\ stored.nodes = [j \in D |-> stored.nodes[j]]
      /\ n = [artifactKey |-> k, contentHash |-> n.contentHash, inputHashes |-> n.inputHashes,
              chainedHash |-> n.chainedHash, depth |-> n.depth, producedBy |-> producers[k]]
  <2>1. /\ stored = [nodes |-> stored.nodes, roots |-> stored.roots, leaves |-> stored.leaves,
                     chainDigest |-> stored.chainDigest]
        /\ stored.nodes = [j \in DOMAIN contents |->
                              [artifactKey |-> j, contentHash |-> stored.nodes[j].contentHash,
                               inputHashes |-> stored.nodes[j].inputHashes,
                               chainedHash |-> stored.nodes[j].chainedHash,
                               depth |-> stored.nodes[j].depth,
                               producedBy |-> producers[j]]]
    BY BuiltShape
  <2> QED
    BY <2>1
<1>2. dag = [stored EXCEPT !.nodes = nodes]
  BY DEF Renewed
<1>3. dag.nodes = nodes /\ dag.chainDigest = stored.chainDigest
  <2> HIDE DEF nodes
  <2> QED
    BY <1>1, <1>2
<1>4. DOMAIN nodes = D /\ nodes[k] = altered
  <2> HIDE DEF altered
  <2> QED
    BY <1>1
<1>5. altered[field] = v
  <2> HIDE DEF n
  <2>1. field \in DOMAIN n
    BY <1>1
  <2> QED
    BY <2>1
<1>6. ASSUME v = stored.nodes[k][field] PROVE dag = stored
  <2>1. altered = n
    <3> HIDE DEF n
    <3>1. v = n[field] /\ n = [f \in DOMAIN n |-> n[f]]
      BY <1>1, <1>6 DEF n
    <3> QED
      BY <3>1
  <2>2. nodes = stored.nodes
    <3> HIDE DEF altered
    <3> QED
      BY <1>1, <2>1
  <2> HIDE DEF nodes
  <2> QED
    BY <1>1, <1>2, <2>2
<1>7. ASSUME field \in {"artifactKey", "producedBy"} PROVE Checked(dag) = Checked(stored)
  <2>1. /\ altered.contentHash = n.contentHash /\ altered.inputHashes = n.inputHashes
        /\ altered.chainedHash = n.chainedHash /\ altered.depth = n.depth
    <3> HIDE DEF n
    <3> QED
      BY <1>1, <1>7
  <2> HIDE DEF altered
  <2>2. \A j \in D : /\ nodes[j].contentHash = stored.nodes[j].contentHash
                     /\ nodes[j].inputHashes = stored.nodes[j].inputHashes
                     /\ nodes[j].chainedHash = stored.nodes[j].chainedHash
                     /\ nodes[j].depth = stored.nodes[j].depth
    <3> SUFFICES ASSUME NEW j \in D
                 PROVE  /\ nodes[j].contentHash = stored.nodes[j].contentHash
                        /\ nodes[j].inputHashes = stored.nodes[j].inputHashes
                        /\ nodes[j].chainedHash = stored.nodes[j].chainedHash
                        /\ nodes[j].depth = stored.nodes[j].depth
      OBVIOUS
    <3>1. nodes[j] = IF j = k THEN altered ELSE stored.nodes[j]
      BY <1>1
    <3> HIDE DEF nodes
    <3> QED
      BY <2>1, <3>1 DEF n
  <2> HIDE DEF nodes
  <2>3. dag.roots = stored.roots /\ dag.leaves = stored.leaves
    BY <1>1, <1>2
  <2>4. Agree(dag, stored)
    BY <1>3, <1>4, <2>2, <2>3 DEF Agree
  <2> QED
    BY <2>4, CheckedAgree
<1> QED
  BY <1>3, <1>4, <1>5, <1>6, <1>7

\* A stored chain with a field altered, or with nodes missing, verifies just when the
\* field is one that is never compared, a node's artifactKey or its producedBy
\* (merkle-dag.ts:348-442).
THEOREM AlteredIsFoundAlways == Spec => []AlteredIsFound
<1>1. ASSUME InputsOK, Buildable, NEW dag \in Altered(Dag), VerifyMerkleDag(dag, artifacts)
      PROVE  Checked(dag) = Checked(Dag)
  <2> DEFINE stored == Dag
             Compared == {"contentHash", "inputHashes", "chainedHash", "depth"}
             Fields == Compared \cup {"artifactKey", "producedBy"}
  <2>1. IsBuilt(stored, artifacts, Inputs)
    BY <1>1, DagIsBuilt
  <2>2. stored = BuildMerkleDag(artifacts, producerMap, Inputs)
    BY DEF Dag
  <2> HIDE DEF stored
  <2>3. \/ \E k \in DOMAIN stored.nodes, field \in Fields :
               \E v : dag = [stored EXCEPT !.nodes[k][field] = v]
        \/ \E S : dag = [stored EXCEPT !.roots = S]
        \/ \E S : dag = [stored EXCEPT !.leaves = S]
        \/ \E S : dag = [stored EXCEPT !.chainDigest = S]
        \/ \E S \in SUBSET DOMAIN stored.nodes :
               dag = [stored EXCEPT !.nodes = Restrict(stored.nodes, S)]
    <3> DEFINE At(field) == \E values : dag \in WithField(stored, field, values)
    <3>1. \/ At("contentHash") \/ At("chainedHash") \/ At("inputHashes") \/ At("depth")
          \/ At("artifactKey") \/ At("producedBy")
          \/ \E S : dag = [stored EXCEPT !.roots = S]
          \/ \E S : dag = [stored EXCEPT !.leaves = S]
          \/ \E S : dag = [stored EXCEPT !.chainDigest = S]
          \/ \E S \in SUBSET DOMAIN stored.nodes :
                 dag = [stored EXCEPT !.nodes = Restrict(stored.nodes, S)]
      BY <1>1 DEF Altered, stored
    <3>2. ASSUME NEW field \in Fields, At(field)
          PROVE  \E k \in DOMAIN stored.nodes, f \in Fields :
                     \E v : dag = [stored EXCEPT !.nodes[k][f] = v]
      BY <3>2 DEF WithField
    <3> HIDE DEF At
    <3> QED
      BY <3>1, <3>2
  <2>4. /\ stored = [nodes |-> stored.nodes, roots |-> stored.roots, leaves |-> stored.leaves,
                     chainDigest |-> stored.chainDigest]
        /\ stored.nodes = [k \in DOMAIN stored.nodes |-> stored.nodes[k]]
    <3>1. /\ stored = [nodes |-> stored.nodes, roots |-> stored.roots, leaves |-> stored.leaves,
                     chainDigest |-> stored.chainDigest]
          /\ stored.nodes = [k \in DOMAIN artifacts |->
                                [artifactKey |-> k, contentHash |-> stored.nodes[k].contentHash,
                                 inputHashes |-> stored.nodes[k].inputHashes,
                                 chainedHash |-> stored.nodes[k].chainedHash,
                                 depth |-> stored.nodes[k].depth,
                                 producedBy |-> producerMap[k]]]
      BY <2>2, BuiltShape
    <3> QED
      BY <3>1
  <2>5. IsFiniteSet(DOMAIN stored.nodes)
    BY <2>1 DEF IsBuilt, IsDag
  <2>6. ASSUME NEW k \in DOMAIN stored.nodes, NEW field \in Fields, NEW v,
               dag = [stored EXCEPT !.nodes[k][field] = v]
        PROVE  Checked(dag) = Checked(stored)
    <3>1. /\ dag.chainDigest = stored.chainDigest /\ DOMAIN dag.nodes = DOMAIN stored.nodes
          /\ dag.nodes[k][field] = v
          /\ v = stored.nodes[k][field] => dag = stored
          /\ field \in {"artifactKey", "producedBy"} => Checked(dag) = Checked(stored)
      <4>1. dag = Renewed(stored, k, field, v)
        BY <2>6 DEF Renewed
      <4> QED
        BY <2>2, <4>1, OneFieldOfANode
    <3>2. ASSUME field \in Compared PROVE dag = stored
      <4>1. Agree(dag, stored)
        <5>1. IsFiniteSet(DOMAIN dag.nodes)
          BY <2>5, <3>1
        <5> QED
          BY <1>1, <2>1, <3>1, <5>1, OneChainVerifies, CheckedAgree
      <4>2. dag.nodes[k][field] = stored.nodes[k][field]
        BY <3>2, <4>1 DEF Agree
      <4> QED
        BY <3>1, <4>2
    <3> QED
      BY <3>1, <3>2
  <2>7. ASSUME NEW S, dag = [stored EXCEPT !.roots = S] PROVE dag = stored
    <3>1. dag.nodes = stored.nodes /\ dag.chainDigest = stored.chainDigest /\ dag.roots = S
      BY <2>4, <2>7
    <3>2. dag.roots = stored.roots
      BY <1>1, <2>1, <2>5, <3>1, OneChainVerifies, CheckedAgree DEF Agree
    <3> QED
      BY <2>4, <2>7, <3>1, <3>2
  <2>8. ASSUME NEW S, dag = [stored EXCEPT !.leaves = S] PROVE dag = stored
    <3>1. dag.nodes = stored.nodes /\ dag.chainDigest = stored.chainDigest /\ dag.leaves = S
      BY <2>4, <2>8
    <3>2. dag.leaves = stored.leaves
      BY <1>1, <2>1, <2>5, <3>1, OneChainVerifies, CheckedAgree DEF Agree
    <3> QED
      BY <2>4, <2>8, <3>1, <3>2
  <2>9. ASSUME NEW S, dag = [stored EXCEPT !.chainDigest = S] PROVE dag = stored
    <3>1. dag.nodes = stored.nodes /\ dag.chainDigest = S
      BY <2>4, <2>9
    <3>2. dag.chainDigest = stored.chainDigest
      BY <1>1, <2>1, <2>5, <3>1, OneChainVerifies, CheckedAgree DEF Agree
    <3> QED
      BY <2>4, <2>9, <3>1, <3>2
  <2>10. ASSUME NEW S \in SUBSET DOMAIN stored.nodes,
                dag = [stored EXCEPT !.nodes = Restrict(stored.nodes, S)]
         PROVE  dag = stored
    <3>1. dag.nodes = Restrict(stored.nodes, S) /\ dag.chainDigest = stored.chainDigest
      BY <2>4, <2>10
    <3>2. DOMAIN dag.nodes = S
      BY <3>1 DEF Restrict
    <3>3. DOMAIN dag.nodes = DOMAIN stored.nodes
      <4>1. IsFiniteSet(DOMAIN dag.nodes)
        BY <2>5, <3>2, FS_Subset
      <4> QED
        BY <1>1, <2>1, <3>1, <4>1, OneChainVerifies, CheckedAgree DEF Agree
    <3>4. dag.nodes = stored.nodes
      BY <2>4, <3>1, <3>2, <3>3 DEF Restrict
    <3> QED
      BY <2>4, <2>10, <3>1, <3>4
  <2>11. Checked(dag) = Checked(stored)
    BY <2>3, <2>6, <2>7, <2>8, <2>9, <2>10
  <2> QED
    BY <2>11 DEF stored
<1>2. ASSUME InputsOK, Buildable, NEW dag, Checked(dag) = Checked(Dag)
      PROVE  VerifyMerkleDag(dag, artifacts)
  <2>1. IsBuilt(Dag, artifacts, Inputs)
    BY <1>2, DagIsBuilt
  <2>2. Changed(artifacts, artifacts) = {}
    BY DEF Changed
  <2>3. VerifyMerkleDag(Dag, artifacts)
    BY <2>1, <2>2, VerifiesUnchanged
  <2> QED
    BY <1>2, <2>3, CheckedDecides
<1>3. InputsOK => AlteredIsFound
  BY <1>1, <1>2 DEF AlteredIsFound
<1> QED
  BY <1>3, InputsCorrect, PTL

\* The proof path of an artifact accepts its content and no other and ends in a hash
\* that the chain digest covers, and a step is accepted after another only when its
\* artifact was made from the other's (merkle-dag.ts:300-346, 444-480).
THEOREM ProofPathsBindAlways == Spec => []ProofPathsBind
<1>1. ASSUME InputsOK PROVE ProofPathsBind
  <2> DEFINE dag == Dag
             Whole(j) == GetMerkleProofPath(dag, j).path[1]
             Pair(k, j) == [target |-> k, path |-> <<Whole(k), Whole(j)>>,
                            expectedChainedHash |-> Whole(j).chainedHash]
  <2> SUFFICES ASSUME Buildable, NEW k \in DOMAIN artifacts
               PROVE  /\ GetMerkleProofPath(dag, k).expectedChainedHash \in dag.chainDigest
                      /\ \A data \in {"old", "new"}, j \in Artifacts :
                             VerifySingleArtifact(GetMerkleProofPath(dag, k), j, data)
                             <=> j = k /\ data = artifacts[k]
                      /\ \A j \in DOMAIN artifacts :
                             VerifySingleArtifact(Pair(k, j), k, artifacts[k]) <=> k \in Inputs[j]
    BY DEF ProofPathsBind
  <2>1. IsBuilt(dag, artifacts, Inputs)
    BY <1>1, DagIsBuilt
  <2>0. \A j \in DOMAIN artifacts : dag.nodes[j].artifactKey = j
    BY BuiltKeys DEF Dag
  <2> HIDE DEF dag
  <2>2. DOMAIN artifacts = DOMAIN Inputs /\ DOMAIN Inputs \subseteq DOMAIN Order
    BY <1>1, ArtifactsAssumption DEF InputsOK, Inputs
  <2>3. /\ GetMerkleProofPath(dag, k).expectedChainedHash \in dag.chainDigest
        /\ \A data, j : VerifySingleArtifact(GetMerkleProofPath(dag, k), j, data)
                        <=> j = k /\ data = artifacts[k]
    BY <2>0, <2>1, <2>2, ProofPathVerifies
  <2>4. \A j \in DOMAIN Inputs :
            Whole(j) = [artifactKey |-> j, contentHash |-> dag.nodes[j].contentHash,
                        inputHashes |-> dag.nodes[j].inputHashes,
                        chainedHash |-> dag.nodes[j].chainedHash]
    <3> HIDE DEF Whole
    <3> SUFFICES ASSUME NEW j \in DOMAIN Inputs
                 PROVE  Whole(j) = [artifactKey |-> j, contentHash |-> dag.nodes[j].contentHash,
                                    inputHashes |-> dag.nodes[j].inputHashes,
                                    chainedHash |-> dag.nodes[j].chainedHash]
      OBVIOUS
    <3> QED
      BY <2>0, <2>1, <2>2, FirstStep DEF Whole
  <2>5. ASSUME NEW j \in DOMAIN artifacts
        PROVE  VerifySingleArtifact(Pair(k, j), k, artifacts[k]) <=> k \in Inputs[j]
    <3> DEFINE node(i) == dag.nodes[i]
    <3>1. /\ node(k).contentHash = ContentHash(k, artifacts[k])
          /\ node(k).chainedHash = ChainedHash(node(k).contentHash, node(k).inputHashes)
          /\ node(j).chainedHash = ChainedHash(node(j).contentHash, node(j).inputHashes)
          /\ node(j).inputHashes = HashesOf(dag.nodes, Inputs[j])
          /\ Inputs[j] \subseteq DOMAIN Inputs
      BY <2>1, <2>2 DEF IsBuilt, IsDag
    <3> DEFINE proof == Pair(k, j)
    <3>2. /\ proof.target = k /\ proof.path = <<Whole(k), Whole(j)>>
          /\ proof.expectedChainedHash = Whole(j).chainedHash
      BY DEF Pair
    <3>3. /\ Whole(k).artifactKey = k /\ Whole(k).contentHash = node(k).contentHash
          /\ Whole(k).inputHashes = node(k).inputHashes /\ Whole(k).chainedHash = node(k).chainedHash
          /\ Whole(j).contentHash = node(j).contentHash
          /\ Whole(j).inputHashes = node(j).inputHashes /\ Whole(j).chainedHash = node(j).chainedHash
      <4> HIDE DEF Whole
      <4> QED
        BY <2>2, <2>4
    <3> HIDE DEF Whole, node, proof
    <3>4. /\ DOMAIN proof.path = {1, 2} /\ proof.path # << >> /\ Last(proof.path) = proof.path[2]
          /\ proof.path[1] = Whole(k) /\ proof.path[2] = Whole(j)
      BY <3>2 DEF Last
    <3>5. VerifySingleArtifact(proof, k, artifacts[k]) <=> node(k).chainedHash \in node(j).inputHashes
      <4>1. \A i \in {1, 2} : proof.path[i].chainedHash
                                  = ChainedHash(proof.path[i].contentHash, proof.path[i].inputHashes)
        BY <3>1, <3>3, <3>4
      <4>2. (\A i \in {1, 2} : i > 1 => proof.path[i - 1].chainedHash \in proof.path[i].inputHashes)
            <=> node(k).chainedHash \in node(j).inputHashes
        BY <3>3, <3>4
      <4>3. VerifySingleArtifact(proof, k, artifacts[k])
            <=> \A i \in {1, 2} : i > 1 => proof.path[i - 1].chainedHash \in proof.path[i].inputHashes
        BY <3>1, <3>2, <3>3, <3>4, <4>1 DEF VerifySingleArtifact
      <4> QED
        BY <4>2, <4>3
    <3>6. node(k).chainedHash \in node(j).inputHashes <=> k \in Inputs[j]
      <4>1. ASSUME k \in Inputs[j] PROVE node(k).chainedHash \in node(j).inputHashes
        BY <3>1, <4>1 DEF HashesOf, node
      <4>2. ASSUME node(k).chainedHash \in node(j).inputHashes PROVE k \in Inputs[j]
        <5>1. PICK d \in Inputs[j] : dag.nodes[k].chainedHash = dag.nodes[d].chainedHash
          BY <3>1, <4>2 DEF HashesOf, node
        <5>2. d = k
          BY <2>1, <2>2, <3>1, <5>1, HashNames
        <5> QED
          BY <5>2
      <4> QED
        BY <4>1, <4>2
    <3> QED
      BY <3>5, <3>6 DEF proof
  <2> HIDE DEF Pair
  <2> QED
    BY <2>3, <2>5
<1> QED
  BY <1>1, InputsCorrect, PTL

================================================================================
