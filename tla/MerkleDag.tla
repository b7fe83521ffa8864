------------------------------- MODULE MerkleDag -------------------------------
(***************************************************************************)
(* runtime/merkle-dag.ts: artifacts chained by hash to what they were made *)
(* from, the check of a whole stored chain, and the check of one artifact  *)
(* along a proof path.                                                     *)
(*                                                                         *)
(* sha256 is taken to be injective: a hash is the pair of what it covers.  *)
(* The list of input hashes, sorted before it is hashed, is a set, and the *)
(* digest of the chain is the set of the hashes it joins.  The code hashes *)
(* these strings joined with nothing between them: the pair stands for the *)
(* joined string where every one of them is a hash, 64 hex digits long, as *)
(* in nodes that were built and in what the checks compute, and not where  *)
(* strings of another length are put into a proof path from outside.       *)
(***************************************************************************)
EXTENDS Integers, FiniteSets, FiniteSetsExt, Functions, Sequences, SequencesExt

CONSTANT Order   \* artifact key -> its place in localeCompare order
ASSUME OrderAssumption == \A key \in DOMAIN Order : Order[key] \in Nat

NoProducer == "unknown"

ContentHash(key, data) == <<key, data>>
Missing == << >>   \* the empty string, that is no hash
\* Mutant: the inputs are left out of the chained hash.
ChainedHashMutant(content, inputs) == <<content, {}>>
ChainedHash(content, inputs) == <<content, inputs>>

\* consumerMap gives the keys an artifact consumes, or the skills that consume it.
InputArtifacts(artifacts, producerMap, consumerMap, key) ==
    {d \in DOMAIN artifacts \ {key} :
        \/ d \in consumerMap[key]
        \/ producerMap[key] # NoProducer /\ producerMap[key] \in consumerMap[d]}

\* Some of the keys go round in a circle: none of them has all its inputs before it.
Circular(inputs) ==
    \E S \in (SUBSET DOMAIN inputs) \ {{}} : \A k \in S : inputs[k] \cap S # {}

Leaves(inputs) == {k \in DOMAIN inputs : \A j \in DOMAIN inputs : k \notin inputs[j]}

\* Every node from the nodes it is made from, given inputs that are not circular.
ChainNodes(contents, inputs) ==
    LET node[k \in DOMAIN contents] ==
            LET hashes == {node[d].chainedHash : d \in inputs[k]}
            IN  [contentHash |-> contents[k], inputHashes |-> hashes,
                 chainedHash |-> ChainedHash(contents[k], hashes),
                 depth |-> IF inputs[k] = {} THEN 0 ELSE 1 + Max({node[d].depth : d \in inputs[k]})]
    IN  [k \in DOMAIN contents |-> node[k]]

\* buildMerkleDag, given inputs that are not circular (it throws on others).
BuildMerkleDag(artifacts, producerMap, inputs) ==
    LET node == ChainNodes([k \in DOMAIN artifacts |-> ContentHash(k, artifacts[k])], inputs)
    IN  [nodes |-> [k \in DOMAIN artifacts |->
                       LET n == node[k]
                       IN  [artifactKey |-> k,
                            contentHash |-> n.contentHash, inputHashes |-> n.inputHashes,
                            chainedHash |-> n.chainedHash, depth |-> n.depth,
                            producedBy |-> producerMap[k]]],
         roots |-> {k \in DOMAIN artifacts : inputs[k] = {}},
         leaves |-> Leaves(inputs),
         chainDigest |-> {node[k].chainedHash : k \in Leaves(inputs)}]
-----------------------------------------------------------------------------
(* verifyMerkleDag                                                         *)

Holders(dag, hash) == {k \in DOMAIN dag.nodes : dag.nodes[k].chainedHash = hash}

\* The inputs of each node, found again by their hashes ...
DerivedInputs(dag) ==
    [k \in DOMAIN dag.nodes |-> (UNION {Holders(dag, h) : h \in dag.nodes[k].inputHashes}) \ {k}]

\* ... and the nodes where that goes wrong: no holder, several, or the node itself.
StructuralInvalid(dag) ==
    {k \in DOMAIN dag.nodes :
        \E h \in dag.nodes[k].inputHashes :
            Cardinality(Holders(dag, h)) # 1 \/ k \in Holders(dag, h)}

\* What the nodes would be for these artifacts.
Expected(dag, artifacts) ==
    ChainNodes([k \in DOMAIN dag.nodes |->
                   IF k \in DOMAIN artifacts THEN ContentHash(k, artifacts[k]) ELSE Missing],
               DerivedInputs(dag))

\* Mutant: a node is compared by the hash of its content only.
InvalidNodesMutant(dag, artifacts) ==
    {k \in DOMAIN dag.nodes :
        k \notin DOMAIN artifacts
        \/ dag.nodes[k].contentHash # ContentHash(k, artifacts[k])}

InvalidNodes(dag, artifacts) ==
    LET expected == Expected(dag, artifacts)
    IN  {k \in DOMAIN dag.nodes :
            \/ k \notin DOMAIN artifacts
            \/ k \in StructuralInvalid(dag)
            \/ dag.nodes[k].contentHash # expected[k].contentHash
            \/ dag.nodes[k].chainedHash # expected[k].chainedHash
            \/ dag.nodes[k].depth # expected[k].depth
            \/ dag.nodes[k].inputHashes # expected[k].inputHashes}

\* Mutant: the nodes are checked and the leaves and the digest are not.
VerifyMerkleDagMutant(dag, artifacts) ==
    ~Circular(DerivedInputs(dag)) /\ InvalidNodes(dag, artifacts) = {}

\* A circle that the hashes of a stored chain close is found and is not valid.
VerifyMerkleDag(dag, artifacts) ==
    LET inputs == DerivedInputs(dag)
    IN  /\ ~Circular(inputs)
        /\ InvalidNodes(dag, artifacts) = {}
        /\ dag.roots = {k \in DOMAIN inputs : inputs[k] = {}}
        /\ dag.leaves = Leaves(inputs)
        /\ dag.chainDigest = {Expected(dag, artifacts)[k].chainedHash : k \in Leaves(inputs)}

\* The fields it compares.  A node's artifactKey and producedBy are not among them.
Checked(dag) ==
    [nodes |-> [k \in DOMAIN dag.nodes |->
                   [contentHash |-> dag.nodes[k].contentHash,
                    inputHashes |-> dag.nodes[k].inputHashes,
                    chainedHash |-> dag.nodes[k].chainedHash, depth |-> dag.nodes[k].depth]],
     roots |-> dag.roots, leaves |-> dag.leaves, chainDigest |-> dag.chainDigest]
-----------------------------------------------------------------------------
(* Proof paths.                                                            *)

Children(inputs, key) == {c \in DOMAIN inputs : key \in inputs[c]}

\* The first of a set of nodes: the deepest, and of the deepest the first by name.
DeepestOf(dag, S) ==
    CHOOSE c \in S : \A d \in S :
        \/ dag.nodes[c].depth > dag.nodes[d].depth
        \/ dag.nodes[c].depth = dag.nodes[d].depth /\ Order[c] <= Order[d]

\* From a node to a leaf, each time by the deepest of the nodes made from it.
ProofKeys(dag, inputs, key) ==
    LET walk[i \in 1..Cardinality(DOMAIN inputs)] ==
            IF i = 1 THEN <<key>>
            ELSE LET path == walk[i - 1]
                     next == Children(inputs, Last(path)) \ Range(path)
                 IN  IF next = {} THEN path ELSE Append(path, DeepestOf(dag, next))
    IN  walk[Cardinality(DOMAIN inputs)]

GetMerkleProofPath(dag, key) ==
    LET keys == ProofKeys(dag, DerivedInputs(dag), key)
    IN  [target |-> key,
         path |-> [i \in DOMAIN keys |->
                     [artifactKey |-> dag.nodes[keys[i]].artifactKey,
                      contentHash |-> dag.nodes[keys[i]].contentHash,
                      inputHashes |-> dag.nodes[keys[i]].inputHashes,
                      chainedHash |-> dag.nodes[keys[i]].chainedHash]],
         expectedChainedHash |-> dag.nodes[Last(keys)].chainedHash]

\* Mutant: the steps after the first are not tied to the one before.
VerifySingleArtifactMutant(proof, key, data) ==
    /\ proof.target = key /\ proof.path # << >> /\ proof.path[1].artifactKey = key
    /\ proof.path[1].contentHash = ContentHash(key, data)
    /\ \A i \in DOMAIN proof.path :
           proof.path[i].chainedHash
               = ChainedHash(proof.path[i].contentHash, proof.path[i].inputHashes)
    /\ Last(proof.path).chainedHash = proof.expectedChainedHash

VerifySingleArtifact(proof, key, data) ==
    /\ proof.target = key /\ proof.path # << >> /\ proof.path[1].artifactKey = key
    /\ proof.path[1].contentHash = ContentHash(key, data)
    /\ \A i \in DOMAIN proof.path :
           LET step == proof.path[i]
           IN  /\ step.chainedHash = ChainedHash(step.contentHash, step.inputHashes)
               /\ i > 1 => proof.path[i - 1].chainedHash \in step.inputHashes
    /\ Last(proof.path).chainedHash = proof.expectedChainedHash
================================================================================
