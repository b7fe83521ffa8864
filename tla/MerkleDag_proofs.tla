--------------------------- MODULE MerkleDag_proofs ---------------------------
(***************************************************************************)
(* What the hashes of runtime/merkle-dag.ts prove, for every finite set of *)
(* artifacts and every way to make them from one another that has no       *)
(* circle.                                                                 *)
(***************************************************************************)
EXTENDS MerkleDag, FiniteSetTheorems, WellFoundedInduction, TLAPS

-----------------------------------------------------------------------------
(* Finite sets.                                                            *)

\* A family of sets that holds the empty set, and with a set that is not yet D one
\* with an element of D more, holds D.
LEMMA GrowTo ==
    ASSUME NEW D, IsFiniteSet(D), NEW C, {} \in C,
           \A S \in C : S \subseteq D /\ S # D => \E x \in D \ S : S \cup {x} \in C
    PROVE  D \in C
<1> DEFINE T == {U \in SUBSET D : D \ U \in C}
           R == StrictSubsetOrdering(D)
<1>1. IsWellFoundedOn(R, SUBSET D)
  <2>1. IsWellFoundedOn(R, FiniteSubsetsOf(D))
    BY FS_StrictSubsetOrderingWellFounded
  <2>2. FiniteSubsetsOf(D) = SUBSET D
    BY FS_FiniteSubsetsOfFinite
  <2> QED
    BY <2>1, <2>2
<1>2. D \in T /\ T \subseteq SUBSET D
  <2>1. D \ D = {}
    OBVIOUS
  <2> QED
    BY <2>1
<1>3. PICK U \in T : \A V \in T : ~(<<V, U>> \in R)
  <2> HIDE DEF T, R
  <2>1. T # {}
    BY <1>2
  <2> QED
    BY <1>1, <1>2, <2>1, WFMin
<1>4. U \subseteq D /\ D \ U \in C
  OBVIOUS
<1>5. ASSUME D \ U # D PROVE FALSE
  <2>1. PICK x \in D \ (D \ U) : (D \ U) \cup {x} \in C
    BY <1>4, <1>5
  <2> DEFINE V == U \ {x}
  <2>2. x \in U /\ V \subseteq D /\ D \ V = (D \ U) \cup {x}
    BY <1>4, <2>1
  <2>3. V \in T
    BY <2>1, <2>2
  <2>4. <<V, U>> \in R
    BY <1>4, <2>2 DEF StrictSubsetOrdering
  <2> HIDE DEF V, T, R
  <2> QED
    BY <1>3, <2>3, <2>4
<1> QED
  BY <1>4, <1>5

\* Finitely many numbers have a greatest.
LEMMA HighestOf ==
    ASSUME NEW S, IsFiniteSet(S), S # {}, NEW f, \A x \in S : f[x] \in Nat
    PROVE  \E x \in S : \A y \in S : f[y] <= f[x]
<1> DEFINE C == {T \in SUBSET S : T = {} \/ \E x \in T : \A y \in T : f[y] <= f[x]}
<1>1. {} \in C
  OBVIOUS
<1>2. ASSUME NEW T \in C, T \subseteq S, T # S
      PROVE  \E x \in S \ T : T \cup {x} \in C
  <2>1. PICK x \in S \ T : TRUE
    BY <1>2
  <2>2. T \cup {x} \in SUBSET S
    BY <1>2
  <2>3. \E z \in T \cup {x} : \A y \in T \cup {x} : f[y] <= f[z]
    <3>1. CASE T = {}
      <4>1. f[x] <= f[x]
        OBVIOUS
      <4> QED
        BY <3>1, <4>1
    <3>2. CASE T # {}
      <4>1. PICK w \in T : \A y \in T : f[y] <= f[w]
        BY <3>2
      <4>2. f[w] \in Nat /\ f[x] \in Nat /\ \A y \in T : f[y] \in Nat
        BY <1>2
      <4>3. CASE f[x] <= f[w]
        BY <4>1, <4>3
      <4>4. CASE ~(f[x] <= f[w])
        <5>1. \A y \in T : f[y] <= f[x]
          BY <4>1, <4>2, <4>4
        <5>2. f[x] <= f[x]
          BY <4>2
        <5> QED
          BY <5>1, <5>2
      <4> QED
        BY <4>3, <4>4
    <3> QED
      BY <3>1, <3>2
  <2> QED
    BY <2>2, <2>3
<1>3. S \in C
  <2> HIDE DEF C
  <2> QED
    BY <1>1, <1>2, GrowTo
<1> QED
  BY <1>3

\* ... and a least.
LEMMA LowestOf ==
    ASSUME NEW S, IsFiniteSet(S), S # {}, NEW f, \A x \in S : f[x] \in Nat
    PROVE  \E x \in S : \A y \in S : f[x] <= f[y]
<1>1. PICK m \in S : \A y \in S : f[y] <= f[m]
  BY HighestOf
<1> DEFINE g == [x \in S |-> f[m] - f[x]]
<1>2. \A x \in S : g[x] = f[m] - f[x] /\ g[x] \in Nat
  BY <1>1
<1> HIDE DEF g
<1>3. PICK x \in S : \A y \in S : g[y] <= g[x]
  BY <1>2, HighestOf
<1> QED
  BY <1>2, <1>3

LEMMA GreatestIn ==
    ASSUME NEW S, IsFiniteSet(S), S # {}, NEW f, \A x \in S : f[x] \in Nat
    PROVE  /\ Max({f[x] : x \in S}) \in Nat
           /\ \A x \in S : f[x] <= Max({f[y] : y \in S})
<1>1. PICK x \in S : \A y \in S : f[y] <= f[x]
  BY HighestOf
<1> DEFINE V == {f[y] : y \in S}
<1>2. f[x] \in V /\ \A v \in V : f[x] >= v
  BY <1>1
<1>3. Max(V) \in V /\ \A v \in V : Max(V) >= v
  <2> HIDE DEF V
  <2> QED
    BY <1>2 DEF Max
<1>4. Max(V) \in Nat
  BY <1>3
<1> QED
  BY <1>3, <1>4

-----------------------------------------------------------------------------
(* Inputs without a circle.                                                *)

IsDag(inputs) ==
    /\ IsFiniteSet(DOMAIN inputs)
    /\ inputs \in [DOMAIN inputs -> SUBSET DOMAIN inputs]
    /\ ~Circular(inputs)

\* What holds of an artifact if it holds of all it is made from holds of all of them.
LEMMA DagInduction ==
    ASSUME NEW inputs, IsDag(inputs), NEW C,
           \A k \in DOMAIN inputs : inputs[k] \subseteq C => k \in C
    PROVE  DOMAIN inputs \subseteq C
<1> DEFINE S == DOMAIN inputs \ C
<1>1. SUFFICES ASSUME S # {} PROVE FALSE
  OBVIOUS
<1>2. PICK k \in S : inputs[k] \cap S = {}
  BY <1>1 DEF IsDag, Circular
<1>3. inputs[k] \subseteq C
  BY <1>2 DEF IsDag
<1> QED
  BY <1>3

LEMMA NextToBuild ==
    ASSUME NEW inputs, IsDag(inputs), NEW S, S \subseteq DOMAIN inputs, S # DOMAIN inputs
    PROVE  \E k \in DOMAIN inputs \ S : inputs[k] \subseteq S
<1>1. PICK k \in DOMAIN inputs \ S : inputs[k] \cap (DOMAIN inputs \ S) = {}
  BY DEF IsDag, Circular
<1>2. inputs[k] \subseteq S
  BY <1>1 DEF IsDag
<1> QED
  BY <1>2

LEMMA NotItsOwnInput ==
    ASSUME NEW inputs, IsDag(inputs), NEW k \in DOMAIN inputs
    PROVE  k \notin inputs[k]
<1>1. {k} \in (SUBSET DOMAIN inputs) \ {{}}
  OBVIOUS
<1> QED
  BY <1>1 DEF IsDag, Circular

-----------------------------------------------------------------------------
(* The nodes of a chain.                                                   *)

HashesOf(node, S) == {node[d].chainedHash : d \in S}
DepthOver(node, S) == IF S = {} THEN 0 ELSE 1 + Max({node[d].depth : d \in S})

\* The node of k, given the nodes of what k is made from.
NodeOf(node, contents, inputs, k) ==
    [contentHash |-> contents[k], inputHashes |-> HashesOf(node, inputs[k]),
     chainedHash |-> ChainedHash(contents[k], HashesOf(node, inputs[k])),
     depth |-> DepthOver(node, inputs[k])]

IsChained(node, contents, inputs) ==
    node = [k \in DOMAIN contents |-> NodeOf(node, contents, inputs, k)]

LEMMA OverInputs ==
    ASSUME NEW S, NEW g, NEW h, \A d \in S : g[d] = h[d]
    PROVE  HashesOf(g, S) = HashesOf(h, S) /\ DepthOver(g, S) = DepthOver(h, S)
<1>1. {g[d].chainedHash : d \in S} = {h[d].chainedHash : d \in S}
  OBVIOUS
<1>2. {g[d].depth : d \in S} = {h[d].depth : d \in S}
  OBVIOUS
<1> QED
  BY <1>1, <1>2 DEF HashesOf, DepthOver

LEMMA ChainExists ==
    ASSUME NEW contents, NEW inputs, IsDag(inputs), DOMAIN contents = DOMAIN inputs
    PROVE  \E node : IsChained(node, contents, inputs)
<1> DEFINE D == DOMAIN inputs
           Part(S, g) == g = [k \in S |-> NodeOf(g, contents, inputs, k)]
           C == {S \in SUBSET D : (\A k \in S : inputs[k] \subseteq S) /\ \E g : Part(S, g)}
<1>1. {} \in C
  <2> DEFINE none == [k \in {} |-> k]
  <2>1. Part({}, none)
    OBVIOUS
  <2> QED
    BY <2>1
<1>2. ASSUME NEW S \in C, S \subseteq D, S # D
      PROVE  \E x \in D \ S : S \cup {x} \in C
  <2>1. PICK x \in D \ S : inputs[x] \subseteq S
    BY <1>2, NextToBuild
  <2>2. PICK g : Part(S, g)
    OBVIOUS
  <2> DEFINE h == [k \in S \cup {x} |-> IF k = x THEN NodeOf(g, contents, inputs, x) ELSE g[k]]
  <2>3. \A k \in S \cup {x} : inputs[k] \subseteq S
    BY <2>1
  <2>4. \A d \in S : h[d] = g[d]
    BY <2>1
  <2>5. ASSUME NEW k \in S \cup {x} PROVE h[k] = NodeOf(h, contents, inputs, k)
    <3>1. NodeOf(h, contents, inputs, k) = NodeOf(g, contents, inputs, k)
      <4> HIDE DEF h
      <4> QED
        BY <2>3, <2>4, OverInputs DEF NodeOf
    <3>2. CASE k = x
      BY <3>1, <3>2
    <3>3. CASE k \in S
      <4>1. h[k] = g[k]
        BY <2>4, <3>3
      <4>2. g[k] = NodeOf(g, contents, inputs, k)
        BY <2>2, <3>3
      <4> QED
        BY <3>1, <4>1, <4>2
    <3> QED
      BY <3>2, <3>3
  <2>6. Part(S \cup {x}, h)
    <3>1. h = [k \in S \cup {x} |-> h[k]]
      OBVIOUS
    <3> HIDE DEF h
    <3> QED
      BY <2>5, <3>1
  <2>7. S \cup {x} \in C
    <3> HIDE DEF h
    <3> QED
      BY <2>3, <2>6
  <2> QED
    BY <2>7
<1>3. D \in C
  <2> HIDE DEF C
  <2> QED
    BY <1>1, <1>2, GrowTo DEF IsDag
<1> QED
  BY <1>3 DEF IsChained

\* The nodes that the recursion of computeNode (merkle-dag.ts:243-278) gives are those
\* that its equation asks for.
LEMMA ChainEquation ==
    ASSUME NEW contents, NEW inputs, IsDag(inputs), DOMAIN contents = DOMAIN inputs
    PROVE  IsChained(ChainNodes(contents, inputs), contents, inputs)
<1> DEFINE node == CHOOSE node : IsChained(node, contents, inputs)
<1>1. IsChained(node, contents, inputs)
  BY ChainExists
<1>2. ChainNodes(contents, inputs) = [k \in DOMAIN contents |-> node[k]]
  BY DEF ChainNodes, IsChained, NodeOf, HashesOf, DepthOver
<1>3. node = [k \in DOMAIN contents |-> node[k]]
  BY <1>1 DEF IsChained
<1> HIDE DEF node
<1> QED
  BY <1>1, <1>2, <1>3

LEMMA NodeFacts ==
    ASSUME NEW contents, NEW inputs, IsDag(inputs), DOMAIN contents = DOMAIN inputs,
           NEW node, node = ChainNodes(contents, inputs), NEW k \in DOMAIN inputs
    PROVE  /\ DOMAIN node = DOMAIN inputs
           /\ node[k].contentHash = contents[k]
           /\ node[k].inputHashes = HashesOf(node, inputs[k])
           /\ node[k].chainedHash = ChainedHash(contents[k], node[k].inputHashes)
           /\ node[k].depth = DepthOver(node, inputs[k])
<1>1. node = [j \in DOMAIN contents |-> NodeOf(node, contents, inputs, j)]
  BY ChainEquation DEF IsChained
<1>2. node[k] = NodeOf(node, contents, inputs, k) /\ DOMAIN node = DOMAIN inputs
  BY <1>1
<1> QED
  BY <1>2 DEF NodeOf

\* An artifact lies deeper than whatever it is made from.
LEMMA DepthRises ==
    ASSUME NEW contents, NEW inputs, IsDag(inputs), DOMAIN contents = DOMAIN inputs,
           NEW node, node = ChainNodes(contents, inputs)
    PROVE  \A k \in DOMAIN inputs :
               node[k].depth \in Nat /\ \A d \in inputs[k] : node[d].depth < node[k].depth
<1> DEFINE D == DOMAIN inputs
           C == {k \in D : node[k].depth \in Nat}
           f == [d \in D |-> node[d].depth]
<1>1. ASSUME NEW k \in D, inputs[k] \subseteq C, inputs[k] # {}
      PROVE  /\ Max({node[d].depth : d \in inputs[k]}) \in Nat
             /\ \A d \in inputs[k] : node[d].depth <= Max({node[e].depth : e \in inputs[k]})
  <2>1. IsFiniteSet(inputs[k])
    BY FS_Subset DEF IsDag
  <2>2. \A d \in inputs[k] : f[d] = node[d].depth /\ f[d] \in Nat
    BY <1>1
  <2>3. {f[d] : d \in inputs[k]} = {node[d].depth : d \in inputs[k]}
    BY <2>2
  <2> HIDE DEF f
  <2>4. /\ Max({f[d] : d \in inputs[k]}) \in Nat
        /\ \A d \in inputs[k] : f[d] <= Max({f[e] : e \in inputs[k]})
    BY <1>1, <2>1, <2>2, GreatestIn
  <2> QED
    BY <2>2, <2>3, <2>4
<1>2. \A k \in D : inputs[k] \subseteq C => k \in C
  <2> SUFFICES ASSUME NEW k \in D, inputs[k] \subseteq C PROVE node[k].depth \in Nat
    OBVIOUS
  <2>1. node[k].depth = DepthOver(node, inputs[k])
    BY NodeFacts
  <2> QED
    BY <1>1, <2>1 DEF DepthOver
<1>3. D \subseteq C
  <2> HIDE DEF C
  <2> QED
    BY <1>2, DagInduction
<1>4. ASSUME NEW k \in D, NEW d \in inputs[k] PROVE node[d].depth < node[k].depth
  <2>1. node[k].depth = DepthOver(node, inputs[k])
    BY NodeFacts
  <2>2. inputs[k] \subseteq D
    BY DEF IsDag
  <2>3. /\ Max({node[e].depth : e \in inputs[k]}) \in Nat
        /\ node[d].depth <= Max({node[e].depth : e \in inputs[k]})
    BY <1>1, <1>3, <2>2
  <2>4. node[d].depth \in Nat
    BY <1>3, <2>2
  <2> QED
    BY <2>1, <2>3, <2>4 DEF DepthOver
<1> QED
  BY <1>3, <1>4

LEMMA DepthsAgree ==
    ASSUME NEW contents, NEW others, NEW inputs, IsDag(inputs),
           DOMAIN contents = DOMAIN inputs, DOMAIN others = DOMAIN inputs,
           NEW node, node = ChainNodes(contents, inputs),
           NEW other, other = ChainNodes(others, inputs)
    PROVE  \A k \in DOMAIN inputs : node[k].depth = other[k].depth
<1> DEFINE C == {k \in DOMAIN inputs : node[k].depth = other[k].depth}
<1>1. \A k \in DOMAIN inputs : inputs[k] \subseteq C => k \in C
  <2> SUFFICES ASSUME NEW k \in DOMAIN inputs, inputs[k] \subseteq C
               PROVE  node[k].depth = other[k].depth
    OBVIOUS
  <2>1. {node[d].depth : d \in inputs[k]} = {other[d].depth : d \in inputs[k]}
    OBVIOUS
  <2>2. /\ node[k].depth = DepthOver(node, inputs[k])
        /\ other[k].depth = DepthOver(other, inputs[k])
    BY NodeFacts
  <2> QED
    BY <2>1, <2>2 DEF DepthOver
<1>2. DOMAIN inputs \subseteq C
  <2> HIDE DEF C
  <2> QED
    BY <1>1, DagInduction
<1> QED
  BY <1>2

\* Among any artifacts there is one that none of them is made from.
LEMMA LastMade ==
    ASSUME NEW inputs, IsDag(inputs), NEW S, S \subseteq DOMAIN inputs, S # {}
    PROVE  \E k \in S : \A j \in S : k \notin inputs[j]
<1> DEFINE node == ChainNodes([k \in DOMAIN inputs |-> k], inputs)
           f == [k \in DOMAIN inputs |-> node[k].depth]
<1>1. \A k \in DOMAIN inputs :
          f[k] \in Nat /\ \A d \in inputs[k] : d \in DOMAIN inputs /\ f[d] < f[k]
  <2>1. \A k \in DOMAIN inputs :
            node[k].depth \in Nat /\ \A d \in inputs[k] : node[d].depth < node[k].depth
    <3> DEFINE contents == [k \in DOMAIN inputs |-> k]
    <3>1. DOMAIN contents = DOMAIN inputs
      OBVIOUS
    <3> HIDE DEF contents
    <3> QED
      BY <3>1, DepthRises
  <2>2. \A k \in DOMAIN inputs : inputs[k] \subseteq DOMAIN inputs
    BY DEF IsDag
  <2> HIDE DEF node
  <2> QED
    BY <2>1, <2>2
<1>2. IsFiniteSet(S)
  BY FS_Subset DEF IsDag
<1> HIDE DEF f
<1>3. PICK k \in S : \A j \in S : f[j] <= f[k]
  BY <1>1, <1>2, HighestOf
<1>4. ASSUME NEW j \in S, k \in inputs[j] PROVE FALSE
  <2>1. f[k] < f[j] /\ f[j] <= f[k] /\ f[k] \in Nat /\ f[j] \in Nat
    BY <1>1, <1>3, <1>4
  <2> QED
    BY <2>1
<1> QED
  BY <1>4

-----------------------------------------------------------------------------
(* A chain as it is built.                                                 *)

Contents(artifacts) == [k \in DOMAIN artifacts |-> ContentHash(k, artifacts[k])]

\* The hashes, depths, roots, leaves and digest that a chain of these artifacts, made from
\* one another like this, holds.  The key and the producer kept in a node are left open.
IsBuilt(dag, artifacts, inputs) ==
    /\ IsDag(inputs) /\ DOMAIN artifacts = DOMAIN inputs
    /\ DOMAIN dag.nodes = DOMAIN inputs
    /\ \A k \in DOMAIN inputs :
           /\ dag.nodes[k].contentHash = ContentHash(k, artifacts[k])
           /\ dag.nodes[k].inputHashes = HashesOf(dag.nodes, inputs[k])
           /\ dag.nodes[k].chainedHash
                  = ChainedHash(ContentHash(k, artifacts[k]), HashesOf(dag.nodes, inputs[k]))
           /\ dag.nodes[k].depth = ChainNodes(Contents(artifacts), inputs)[k].depth
    /\ dag.roots = {k \in DOMAIN inputs : inputs[k] = {}}
    /\ dag.leaves = Leaves(inputs)
    /\ dag.chainDigest = HashesOf(dag.nodes, Leaves(inputs))

LEMMA BuildsIt ==
    ASSUME NEW inputs, IsDag(inputs), NEW artifacts, DOMAIN artifacts = DOMAIN inputs,
           NEW producerMap, NEW dag, dag = BuildMerkleDag(artifacts, producerMap, inputs)
    PROVE  IsBuilt(dag, artifacts, inputs)
<1> DEFINE D == DOMAIN inputs
           contents == Contents(artifacts)
           node == ChainNodes(contents, inputs)
<1>1. DOMAIN contents = D /\ \A k \in D : contents[k] = ContentHash(k, artifacts[k])
  BY DEF Contents
<1> HIDE DEF contents
<1>2. \A k \in D : /\ node[k].contentHash = contents[k]
                   /\ node[k].inputHashes = HashesOf(node, inputs[k])
                   /\ node[k].chainedHash = ChainedHash(contents[k], node[k].inputHashes)
  BY <1>1, NodeFacts
<1>3. /\ dag.nodes = [k \in DOMAIN artifacts |->
                         [artifactKey |-> k,
                          contentHash |-> node[k].contentHash, inputHashes |-> node[k].inputHashes,
                          chainedHash |-> node[k].chainedHash, depth |-> node[k].depth,
                          producedBy |-> producerMap[k]]]
      /\ dag.roots = {k \in DOMAIN artifacts : inputs[k] = {}}
      /\ dag.leaves = Leaves(inputs)
      /\ dag.chainDigest = HashesOf(node, Leaves(inputs))
  BY DEF BuildMerkleDag, contents, Contents, HashesOf
<1> HIDE DEF node
<1>4. DOMAIN dag.nodes = D
  BY <1>3
<1>5. \A k \in D : /\ dag.nodes[k].contentHash = node[k].contentHash
                   /\ dag.nodes[k].inputHashes = node[k].inputHashes
                   /\ dag.nodes[k].chainedHash = node[k].chainedHash
                   /\ dag.nodes[k].depth = node[k].depth
  BY <1>3
<1>6. \A S \in SUBSET D : HashesOf(node, S) = HashesOf(dag.nodes, S)
  <2> SUFFICES ASSUME NEW S \in SUBSET D PROVE HashesOf(node, S) = HashesOf(dag.nodes, S)
    OBVIOUS
  <2>1. {node[d].chainedHash : d \in S} = {dag.nodes[d].chainedHash : d \in S}
    BY <1>5
  <2> QED
    BY <2>1 DEF HashesOf
<1>7. Leaves(inputs) \in SUBSET D /\ \A k \in D : inputs[k] \in SUBSET D
  BY DEF Leaves, IsDag
<1>8. \A k \in D : node[k].depth = ChainNodes(Contents(artifacts), inputs)[k].depth
  BY DEF node, contents
<1> QED
  BY <1>1, <1>2, <1>3, <1>4, <1>5, <1>6, <1>7, <1>8 DEF IsBuilt

\* The fields that a built chain and its nodes have.
LEMMA BuiltShape ==
    ASSUME NEW inputs, NEW artifacts, NEW producerMap,
           NEW dag, dag = BuildMerkleDag(artifacts, producerMap, inputs)
    PROVE  /\ dag = [nodes |-> dag.nodes, roots |-> dag.roots, leaves |-> dag.leaves,
                     chainDigest |-> dag.chainDigest]
           /\ dag.nodes = [k \in DOMAIN artifacts |->
                              [artifactKey |-> k, contentHash |-> dag.nodes[k].contentHash,
                               inputHashes |-> dag.nodes[k].inputHashes,
                               chainedHash |-> dag.nodes[k].chainedHash,
                               depth |-> dag.nodes[k].depth,
                               producedBy |-> producerMap[k]]]
<1> DEFINE node == ChainNodes([k \in DOMAIN artifacts |-> ContentHash(k, artifacts[k])], inputs)
           nodes == [k \in DOMAIN artifacts |->
                        [artifactKey |-> k, contentHash |-> node[k].contentHash, inputHashes |-> node[k].inputHashes,
                         chainedHash |-> node[k].chainedHash, depth |-> node[k].depth,
                         producedBy |-> producerMap[k]]]
           roots == {k \in DOMAIN artifacts : inputs[k] = {}}
           digest == {node[k].chainedHash : k \in Leaves(inputs)}
<1>1. dag = [nodes |-> nodes, roots |-> roots, leaves |-> Leaves(inputs), chainDigest |-> digest]
  BY DEF BuildMerkleDag
<1> HIDE DEF node, roots, digest
<1>2. dag.nodes = nodes
  <2> HIDE DEF nodes
  <2> QED
    BY <1>1
<1>3. \A k \in DOMAIN artifacts :
          dag.nodes[k] = [artifactKey |-> k, contentHash |-> node[k].contentHash, inputHashes |-> node[k].inputHashes,
                          chainedHash |-> node[k].chainedHash, depth |-> node[k].depth,
                          producedBy |-> producerMap[k]]
  BY <1>2
<1>4. \A k \in DOMAIN artifacts :
          dag.nodes[k] = [artifactKey |-> k, contentHash |-> dag.nodes[k].contentHash,
                          inputHashes |-> dag.nodes[k].inputHashes,
                          chainedHash |-> dag.nodes[k].chainedHash,
                          depth |-> dag.nodes[k].depth,
                          producedBy |-> producerMap[k]]
  <2> HIDE DEF nodes
  <2> SUFFICES ASSUME NEW k \in DOMAIN artifacts
               PROVE  dag.nodes[k] = [artifactKey |-> k, contentHash |-> dag.nodes[k].contentHash,
                                      inputHashes |-> dag.nodes[k].inputHashes,
                                      chainedHash |-> dag.nodes[k].chainedHash,
                                      depth |-> dag.nodes[k].depth,
                                      producedBy |-> producerMap[k]]
    OBVIOUS
  <2> DEFINE n == dag.nodes[k]
  <2>1. n = [artifactKey |-> k, contentHash |-> node[k].contentHash, inputHashes |-> node[k].inputHashes,
             chainedHash |-> node[k].chainedHash, depth |-> node[k].depth,
             producedBy |-> producerMap[k]]
    BY <1>3
  <2> HIDE DEF n
  <2>2. /\ n.contentHash = node[k].contentHash /\ n.inputHashes = node[k].inputHashes
        /\ n.chainedHash = node[k].chainedHash /\ n.depth = node[k].depth
    BY <2>1
  <2>3. n = [artifactKey |-> k, contentHash |-> n.contentHash, inputHashes |-> n.inputHashes,
             chainedHash |-> n.chainedHash, depth |-> n.depth, producedBy |-> producerMap[k]]
    BY <2>1, <2>2
  <2> QED
    BY <2>3 DEF n
<1>5. dag.nodes = [k \in DOMAIN artifacts |-> dag.nodes[k]]
  BY <1>2
<1>6. dag.nodes = [k \in DOMAIN artifacts |->
                              [artifactKey |-> k, contentHash |-> dag.nodes[k].contentHash,
                               inputHashes |-> dag.nodes[k].inputHashes,
                               chainedHash |-> dag.nodes[k].chainedHash,
                               depth |-> dag.nodes[k].depth,
                               producedBy |-> producerMap[k]]]
  BY <1>4, <1>5
<1> HIDE DEF nodes
<1>7. dag = [nodes |-> dag.nodes, roots |-> dag.roots, leaves |-> dag.leaves,
             chainDigest |-> dag.chainDigest]
  BY <1>1
<1> QED
  BY <1>6, <1>7

\* A chained hash names its artifact.
\* A built node holds the key it is filed under.
LEMMA BuiltKeys ==
    ASSUME NEW inputs, NEW artifacts, NEW producerMap, NEW k \in DOMAIN artifacts,
           NEW dag, dag = BuildMerkleDag(artifacts, producerMap, inputs)
    PROVE  dag.nodes[k].artifactKey = k
<1>1. dag.nodes = [j \in DOMAIN artifacts |->
                      [artifactKey |-> j, contentHash |-> dag.nodes[j].contentHash,
                       inputHashes |-> dag.nodes[j].inputHashes,
                       chainedHash |-> dag.nodes[j].chainedHash,
                       depth |-> dag.nodes[j].depth,
                       producedBy |-> producerMap[j]]]
  BY BuiltShape
<1>2. dag.nodes[k] = [artifactKey |-> k, contentHash |-> dag.nodes[k].contentHash,
                      inputHashes |-> dag.nodes[k].inputHashes,
                      chainedHash |-> dag.nodes[k].chainedHash,
                      depth |-> dag.nodes[k].depth,
                      producedBy |-> producerMap[k]]
  BY <1>1
<1> QED
  BY <1>2

\* Two chains that agree in each field that is compared.
Agree(dag, other) ==
    /\ DOMAIN dag.nodes = DOMAIN other.nodes
    /\ \A k \in DOMAIN other.nodes :
           /\ dag.nodes[k].contentHash = other.nodes[k].contentHash
           /\ dag.nodes[k].inputHashes = other.nodes[k].inputHashes
           /\ dag.nodes[k].chainedHash = other.nodes[k].chainedHash
           /\ dag.nodes[k].depth = other.nodes[k].depth
    /\ dag.roots = other.roots /\ dag.leaves = other.leaves
    /\ dag.chainDigest = other.chainDigest

LEMMA CheckedAgree ==
    ASSUME NEW dag, NEW other
    PROVE  Checked(dag) = Checked(other) <=> Agree(dag, other)
<1> DEFINE CheckedNode(d, k) == [contentHash |-> d.nodes[k].contentHash,
                                 inputHashes |-> d.nodes[k].inputHashes,
                                 chainedHash |-> d.nodes[k].chainedHash, depth |-> d.nodes[k].depth]
           Nodes(d) == [k \in DOMAIN d.nodes |-> CheckedNode(d, k)]
<1>1. \A d : Checked(d) = [nodes |-> Nodes(d), roots |-> d.roots, leaves |-> d.leaves,
                           chainDigest |-> d.chainDigest]
  BY DEF Checked
<1>2. \A d : DOMAIN Nodes(d) = DOMAIN d.nodes /\ \A k \in DOMAIN d.nodes : Nodes(d)[k] = CheckedNode(d, k)
  OBVIOUS
<1>3. \A d, k : /\ CheckedNode(d, k).contentHash = d.nodes[k].contentHash
                /\ CheckedNode(d, k).inputHashes = d.nodes[k].inputHashes
                /\ CheckedNode(d, k).chainedHash = d.nodes[k].chainedHash
                /\ CheckedNode(d, k).depth = d.nodes[k].depth
  OBVIOUS
<1>4. ASSUME Agree(dag, other) PROVE Checked(dag) = Checked(other)
  <2>1. \A k \in DOMAIN other.nodes : CheckedNode(dag, k) = CheckedNode(other, k)
    BY <1>4 DEF Agree
  <2>2. Nodes(dag) = Nodes(other)
    <3> HIDE DEF CheckedNode
    <3> QED
      BY <1>4, <2>1 DEF Agree
  <2> HIDE DEF Nodes
  <2> QED
    BY <1>1, <1>4, <2>2 DEF Agree
<1>5. ASSUME Checked(dag) = Checked(other) PROVE Agree(dag, other)
  <2>1. /\ Nodes(dag) = Nodes(other) /\ dag.roots = other.roots /\ dag.leaves = other.leaves
        /\ dag.chainDigest = other.chainDigest
    <3> HIDE DEF Nodes
    <3> QED
      BY <1>1, <1>5
  <2> HIDE DEF Nodes, CheckedNode
  <2>2. DOMAIN dag.nodes = DOMAIN other.nodes
    BY <1>2, <2>1
  <2>3. \A k \in DOMAIN other.nodes : CheckedNode(dag, k) = CheckedNode(other, k)
    BY <1>2, <2>1, <2>2
  <2> QED
    BY <1>3, <2>1, <2>2, <2>3 DEF Agree
<1> QED
  BY <1>4, <1>5

\* The chain that a recursion's nodes make.
Holds(dag, node, inputs) ==
    /\ DOMAIN dag.nodes = DOMAIN inputs
    /\ \A k \in DOMAIN inputs :
           /\ dag.nodes[k].contentHash = node[k].contentHash
           /\ dag.nodes[k].inputHashes = node[k].inputHashes
           /\ dag.nodes[k].chainedHash = node[k].chainedHash
           /\ dag.nodes[k].depth = node[k].depth
    /\ dag.roots = {k \in DOMAIN inputs : inputs[k] = {}} /\ dag.leaves = Leaves(inputs)
    /\ dag.chainDigest = {node[k].chainedHash : k \in Leaves(inputs)}

LEMMA HoldTheSame ==
    ASSUME NEW dag, NEW other, NEW node, NEW inputs,
           Holds(dag, node, inputs), Holds(other, node, inputs)
    PROVE  Checked(dag) = Checked(other)
<1>1. Agree(dag, other)
  BY DEF Holds, Agree
<1> QED
  BY <1>1, CheckedAgree

LEMMA BuiltHolds ==
    ASSUME NEW inputs, NEW artifacts, DOMAIN artifacts = DOMAIN inputs, NEW producerMap,
           NEW dag, dag = BuildMerkleDag(artifacts, producerMap, inputs)
    PROVE  Holds(dag, ChainNodes(Contents(artifacts), inputs), inputs)
<1> DEFINE node == ChainNodes(Contents(artifacts), inputs)
<1>1. /\ dag.nodes = [k \in DOMAIN artifacts |->
                         [artifactKey |-> k,
                          contentHash |-> node[k].contentHash, inputHashes |-> node[k].inputHashes,
                          chainedHash |-> node[k].chainedHash, depth |-> node[k].depth,
                          producedBy |-> producerMap[k]]]
      /\ dag.roots = {k \in DOMAIN artifacts : inputs[k] = {}}
      /\ dag.leaves = Leaves(inputs)
      /\ dag.chainDigest = {node[k].chainedHash : k \in Leaves(inputs)}
  BY DEF BuildMerkleDag, Contents
<1> HIDE DEF node
<1>2. \A k \in DOMAIN inputs : /\ dag.nodes[k].contentHash = node[k].contentHash
                               /\ dag.nodes[k].inputHashes = node[k].inputHashes
                               /\ dag.nodes[k].chainedHash = node[k].chainedHash
                               /\ dag.nodes[k].depth = node[k].depth
  BY <1>1
<1>3. Holds(dag, node, inputs)
  BY <1>1, <1>2 DEF Holds
<1> QED
  BY <1>3 DEF node

LEMMA HashNames ==
    ASSUME NEW dag, NEW artifacts, NEW inputs, IsBuilt(dag, artifacts, inputs),
           NEW j \in DOMAIN inputs, NEW k \in DOMAIN inputs,
           dag.nodes[j].chainedHash = dag.nodes[k].chainedHash
    PROVE  j = k
    BY DEF IsBuilt, ChainedHash, ContentHash

\* deriveDagRelationships (merkle-dag.ts:139-184) finds the inputs again.
LEMMA InputsAgain ==
    ASSUME NEW dag, NEW artifacts, NEW inputs, IsBuilt(dag, artifacts, inputs)
    PROVE  DerivedInputs(dag) = inputs /\ StructuralInvalid(dag) = {}
<1> DEFINE D == DOMAIN inputs
<1>1. \A d \in D : Holders(dag, dag.nodes[d].chainedHash) = {d}
  <2> SUFFICES ASSUME NEW d \in D PROVE Holders(dag, dag.nodes[d].chainedHash) = {d}
    OBVIOUS
  <2>1. DOMAIN dag.nodes = D
    BY DEF IsBuilt
  <2> QED
    BY <2>1, HashNames DEF Holders
<1>2. \A k \in D : /\ inputs[k] \in SUBSET D /\ k \notin inputs[k]
                   /\ dag.nodes[k].inputHashes = {dag.nodes[d].chainedHash : d \in inputs[k]}
  BY NotItsOwnInput DEF IsBuilt, IsDag, HashesOf
<1>3. ASSUME NEW k \in D
      PROVE  (UNION {Holders(dag, h) : h \in dag.nodes[k].inputHashes}) \ {k} = inputs[k]
  <2> DEFINE found == UNION {Holders(dag, h) : h \in dag.nodes[k].inputHashes}
  <2>1. ASSUME NEW d \in found PROVE d \in inputs[k]
    <3>1. PICK h \in dag.nodes[k].inputHashes : d \in Holders(dag, h)
      OBVIOUS
    <3>2. PICK e \in inputs[k] : h = dag.nodes[e].chainedHash
      BY <1>2, <3>1
    <3> QED
      BY <1>1, <1>2, <3>1, <3>2
  <2>2. ASSUME NEW d \in inputs[k] PROVE d \in found
    <3>1. dag.nodes[d].chainedHash \in dag.nodes[k].inputHashes
      BY <1>2
    <3>2. d \in Holders(dag, dag.nodes[d].chainedHash)
      BY <1>1, <1>2
    <3> QED
      BY <3>1, <3>2
  <2> HIDE DEF found
  <2>3. found = inputs[k]
    BY <2>1, <2>2
  <2>4. found \ {k} = inputs[k]
    BY <1>2, <2>3
  <2> QED
    BY <2>4 DEF found
<1>4. DOMAIN dag.nodes = D /\ inputs = [k \in D |-> inputs[k]]
  BY DEF IsBuilt, IsDag
<1>5. DerivedInputs(dag) = inputs
  BY <1>3, <1>4 DEF DerivedInputs
<1>6. ASSUME NEW k \in D, NEW h \in dag.nodes[k].inputHashes
      PROVE  Cardinality(Holders(dag, h)) = 1 /\ k \notin Holders(dag, h)
  <2>1. PICK d \in inputs[k] : h = dag.nodes[d].chainedHash
    BY <1>2
  <2>2. Holders(dag, h) = {d} /\ d # k
    BY <1>1, <1>2, <2>1
  <2> QED
    BY <2>2, FS_Singleton
<1>7. StructuralInvalid(dag) = {}
  BY <1>4, <1>6 DEF StructuralInvalid
<1> QED
  BY <1>5, <1>7

-----------------------------------------------------------------------------
(* A chain checked against other contents.                                 *)

\* The artifacts whose content is another, or is not there, when it is checked.
Changed(artifacts, found) ==
    {k \in DOMAIN artifacts : k \notin DOMAIN found \/ found[k] # artifacts[k]}

\* What is in S, or made from something that is.
Downstream(inputs, S) ==
    {k \in DOMAIN inputs : \A T \in SUBSET DOMAIN inputs :
        S \subseteq T /\ (\A j \in DOMAIN inputs : inputs[j] \cap T # {} => j \in T) => k \in T}

LEMMA DownstreamHolds ==
    ASSUME NEW inputs, NEW S, S \subseteq DOMAIN inputs
    PROVE  S \subseteq Downstream(inputs, S)
    BY DEF Downstream

FoundContents(dag, found) ==
    [k \in DOMAIN dag.nodes |->
        IF k \in DOMAIN found THEN ContentHash(k, found[k]) ELSE Missing]

\* An artifact has the hash it was stored with if neither it nor anything it goes back
\* to is changed, and no other way.
LEMMA SameHashes ==
    ASSUME NEW dag, NEW artifacts, NEW inputs, IsBuilt(dag, artifacts, inputs),
           NEW found,
           NEW node, node = Expected(dag, found), NEW k \in DOMAIN inputs
    PROVE  node[k].chainedHash = dag.nodes[k].chainedHash
           <=> /\ k \notin Changed(artifacts, found)
               /\ \A d \in inputs[k] : node[d].chainedHash = dag.nodes[d].chainedHash
<1> DEFINE D == DOMAIN inputs
           contents == FoundContents(dag, found)
<1>1. /\ IsDag(inputs) /\ DOMAIN contents = D /\ DOMAIN artifacts = D
      /\ \A j \in D : inputs[j] \subseteq D
  BY DEF IsBuilt, IsDag, FoundContents
<1>2. \A j \in D : contents[j] = IF j \in DOMAIN found THEN ContentHash(j, found[j]) ELSE Missing
  BY DEF IsBuilt, FoundContents
<1>3. node = ChainNodes(contents, inputs)
  BY InputsAgain DEF Expected, FoundContents
<1> HIDE DEF contents
<1>4. \A j \in D : /\ node[j].inputHashes = HashesOf(node, inputs[j])
                   /\ node[j].chainedHash = ChainedHash(contents[j], node[j].inputHashes)
  BY <1>1, <1>3, NodeFacts
<1>5. \A j \in D : /\ dag.nodes[j].inputHashes = HashesOf(dag.nodes, inputs[j])
                   /\ dag.nodes[j].chainedHash
                          = ChainedHash(ContentHash(j, artifacts[j]), dag.nodes[j].inputHashes)
  BY DEF IsBuilt
<1>6. \A j \in D : j \notin Changed(artifacts, found) <=> contents[j] = ContentHash(j, artifacts[j])
  <2> SUFFICES ASSUME NEW j \in D
               PROVE  j \notin Changed(artifacts, found)
                      <=> contents[j] = ContentHash(j, artifacts[j])
    OBVIOUS
  <2>1. CASE j \in DOMAIN found
    BY <1>1, <1>2, <2>1 DEF Changed, ContentHash
  <2>2. CASE j \notin DOMAIN found
    BY <1>1, <1>2, <2>2 DEF Changed, ContentHash, Missing
  <2> QED
    BY <2>1, <2>2
<1>7. ASSUME NEW i \in D, NEW j \in D, contents[i] = ContentHash(j, artifacts[j]) PROVE i = j
  <2>1. CASE i \in DOMAIN found
    <3>1. ContentHash(i, found[i]) = ContentHash(j, artifacts[j])
      BY <1>2, <1>7, <2>1
    <3> QED
      BY <3>1 DEF ContentHash
  <2>2. CASE i \notin DOMAIN found
    BY <1>1, <1>2, <1>7, <2>2 DEF ContentHash, Missing
  <2> QED
    BY <2>1, <2>2
<1>8. ASSUME node[k].inputHashes = dag.nodes[k].inputHashes, NEW d \in inputs[k]
      PROVE  node[d].chainedHash = dag.nodes[d].chainedHash
  <2>1. node[d].chainedHash \in HashesOf(dag.nodes, inputs[k])
    <3>1. node[d].chainedHash \in HashesOf(node, inputs[k])
      BY DEF HashesOf
    <3> QED
      BY <1>4, <1>5, <1>8, <3>1
  <2>2. PICK e \in inputs[k] : node[d].chainedHash = dag.nodes[e].chainedHash
    BY <2>1 DEF HashesOf
  <2>3. d \in D /\ e \in D
    BY <1>1
  <2>4. contents[d] = ContentHash(e, artifacts[e])
    <3>1. ChainedHash(contents[d], node[d].inputHashes)
              = ChainedHash(ContentHash(e, artifacts[e]), dag.nodes[e].inputHashes)
      BY <1>4, <1>5, <2>2, <2>3
    <3> QED
      BY <3>1 DEF ChainedHash
  <2> QED
    BY <1>7, <2>2, <2>3, <2>4
<1>9. ASSUME \A d \in inputs[k] : node[d].chainedHash = dag.nodes[d].chainedHash
      PROVE  node[k].inputHashes = dag.nodes[k].inputHashes
  <2>1. HashesOf(node, inputs[k]) = HashesOf(dag.nodes, inputs[k])
    BY <1>9 DEF HashesOf
  <2> QED
    BY <1>4, <1>5, <2>1
<1>10. node[k].chainedHash = dag.nodes[k].chainedHash
       <=> /\ contents[k] = ContentHash(k, artifacts[k])
           /\ node[k].inputHashes = dag.nodes[k].inputHashes
  <2>1. /\ node[k].chainedHash = ChainedHash(contents[k], node[k].inputHashes)
        /\ dag.nodes[k].chainedHash
               = ChainedHash(ContentHash(k, artifacts[k]), dag.nodes[k].inputHashes)
    BY <1>4, <1>5
  <2> QED
    BY <2>1 DEF ChainedHash
<1> QED
  BY <1>6, <1>8, <1>9, <1>10

\* Checked against other contents, or with artifacts gone, a stored chain is invalid at
\* the artifacts that differ and at everything made from them, and nowhere else
\* (merkle-dag.ts:398-425).
THEOREM TamperingSpreads ==
    ASSUME NEW dag, NEW artifacts, NEW inputs, IsBuilt(dag, artifacts, inputs),
           NEW found
    PROVE  InvalidNodes(dag, found) = Downstream(inputs, Changed(artifacts, found))
<1> DEFINE D == DOMAIN inputs
           node == Expected(dag, found)
           contents == FoundContents(dag, found)
           changed == Changed(artifacts, found)
           Same == {k \in D : node[k].chainedHash = dag.nodes[k].chainedHash}
<1>1. \A k \in D : k \in Same <=> k \notin changed /\ inputs[k] \subseteq Same
  <2>1. \A k \in D : inputs[k] \subseteq D
    BY DEF IsBuilt, IsDag
  <2>2. \A k \in D : node[k].chainedHash = dag.nodes[k].chainedHash
            <=> /\ k \notin changed
                /\ \A d \in inputs[k] : node[d].chainedHash = dag.nodes[d].chainedHash
    <3>1. node = Expected(dag, found) /\ changed = Changed(artifacts, found)
      OBVIOUS
    <3> HIDE DEF node, changed
    <3> QED
      BY <3>1, SameHashes
  <2> HIDE DEF node, changed
  <2> QED
    BY <2>1, <2>2
<1>2. /\ IsDag(inputs) /\ DOMAIN contents = D /\ DOMAIN artifacts = D /\ DOMAIN dag.nodes = D
      /\ changed \subseteq D /\ StructuralInvalid(dag) = {} /\ DerivedInputs(dag) = inputs
  <2>1. IsDag(inputs) /\ DOMAIN artifacts = D /\ DOMAIN dag.nodes = D
    BY DEF IsBuilt
  <2>2. DOMAIN contents = D /\ changed \subseteq D
    BY <2>1 DEF FoundContents, Changed
  <2> HIDE DEF contents, changed
  <2> QED
    BY <2>1, <2>2, InputsAgain
<1>3. node = ChainNodes(contents, inputs)
  BY <1>2 DEF Expected, FoundContents
<1>4. \A k \in D : k \notin changed => k \in DOMAIN found /\ contents[k] = ContentHash(k, artifacts[k])
  BY <1>2 DEF Changed, FoundContents
<1>5. \A k \in D : /\ node[k].contentHash = contents[k]
                   /\ node[k].chainedHash = ChainedHash(contents[k], node[k].inputHashes)
  <2> DEFINE c == contents
             n == node
  <2>1. n = ChainNodes(c, inputs) /\ DOMAIN c = D
    BY <1>2, <1>3
  <2> HIDE DEF c, n
  <2>2. \A k \in D : n[k].contentHash = c[k] /\ n[k].chainedHash = ChainedHash(c[k], n[k].inputHashes)
    BY <1>2, <2>1, NodeFacts
  <2> QED
    BY <2>2 DEF c, n
<1>6. \A k \in D : node[k].depth = dag.nodes[k].depth
  <2> DEFINE c == contents
             n == node
             m == ChainNodes(Contents(artifacts), inputs)
  <2>1. DOMAIN Contents(artifacts) = D
    BY <1>2 DEF Contents
  <2>2. \A k \in D : dag.nodes[k].depth = m[k].depth
    BY DEF IsBuilt
  <2>3. n = ChainNodes(c, inputs) /\ DOMAIN c = D
    BY <1>2, <1>3
  <2> HIDE DEF c, n
  <2>4. \A k \in D : n[k].depth = m[k].depth
    BY <1>2, <2>1, <2>3, DepthsAgree
  <2> QED
    BY <2>2, <2>4 DEF n
<1>7. \A k \in D : /\ dag.nodes[k].contentHash = ContentHash(k, artifacts[k])
                   /\ dag.nodes[k].chainedHash
                          = ChainedHash(ContentHash(k, artifacts[k]), dag.nodes[k].inputHashes)
  BY DEF IsBuilt
<1> HIDE DEF node, contents, changed
<1>8. InvalidNodes(dag, found) = D \ Same
  <2>1. ASSUME NEW k \in Same
        PROVE  k \notin InvalidNodes(dag, found)
    <3>1. k \in D /\ k \notin changed /\ node[k].chainedHash = dag.nodes[k].chainedHash
      BY <1>1
    <3>2. node[k].inputHashes = dag.nodes[k].inputHashes
      BY <1>5, <1>7, <3>1 DEF ChainedHash
    <3> QED
      BY <1>2, <1>4, <1>5, <1>6, <1>7, <3>1, <3>2 DEF InvalidNodes, node
  <2>2. ASSUME NEW k \in D \ Same
        PROVE  k \in InvalidNodes(dag, found)
    BY <1>2 DEF InvalidNodes, node
  <2>3. InvalidNodes(dag, found) \subseteq D
    BY <1>2 DEF InvalidNodes
  <2> QED
    BY <2>1, <2>2, <2>3
<1>9. D \ Same \subseteq Downstream(inputs, changed)
  <2> SUFFICES ASSUME NEW T \in SUBSET D, changed \subseteq T,
                      \A j \in D : inputs[j] \cap T # {} => j \in T
               PROVE  D \ Same \subseteq T
    BY DEF Downstream
  <2>1. \A k \in D : inputs[k] \subseteq Same \cup T => k \in Same \cup T
    <3> SUFFICES ASSUME NEW k \in D, inputs[k] \subseteq Same \cup T PROVE k \in Same \cup T
      OBVIOUS
    <3>1. CASE inputs[k] \subseteq Same
      BY <1>1, <3>1
    <3>2. CASE ~(inputs[k] \subseteq Same)
      <4>1. inputs[k] \cap T # {}
        BY <3>2
      <4> QED
        BY <4>1
    <3> QED
      BY <3>1, <3>2
  <2>2. D \subseteq Same \cup T
    <3> DEFINE C == Same \cup T
    <3>1. \A k \in D : inputs[k] \subseteq C => k \in C
      BY <2>1
    <3> HIDE DEF C
    <3>2. D \subseteq C
      BY <1>2, <3>1, DagInduction
    <3> QED
      BY <3>2 DEF C
  <2> QED
    BY <2>2
<1>10. Downstream(inputs, changed) \subseteq D \ Same
  <2> DEFINE T == D \ Same
  <2>1. T \in SUBSET D /\ changed \subseteq T
    BY <1>1, <1>2
  <2>2. \A j \in D : inputs[j] \cap T # {} => j \in T
    BY <1>1
  <2> HIDE DEF T
  <2>3. \A k \in Downstream(inputs, changed) : k \in T
    BY <2>1, <2>2 DEF Downstream
  <2> QED
    BY <2>3 DEF T
<1> QED
  BY <1>8, <1>9, <1>10 DEF changed

\* A stored chain verifies against the contents it was built from and no others.
THEOREM VerifiesUnchanged ==
    ASSUME NEW dag, NEW artifacts, NEW inputs, IsBuilt(dag, artifacts, inputs), NEW found
    PROVE  VerifyMerkleDag(dag, found) <=> Changed(artifacts, found) = {}
<1> DEFINE D == DOMAIN inputs
           changed == Changed(artifacts, found)
           node == Expected(dag, found)
<1>1. /\ IsDag(inputs) /\ DOMAIN dag.nodes = D /\ DOMAIN artifacts = D
      /\ dag.roots = {k \in D : inputs[k] = {}} /\ dag.leaves = Leaves(inputs)
      /\ dag.chainDigest = HashesOf(dag.nodes, Leaves(inputs))
  BY DEF IsBuilt
<1>2. DerivedInputs(dag) = inputs /\ StructuralInvalid(dag) = {} /\ ~Circular(inputs)
  <2>1. ~Circular(inputs)
    BY DEF IsBuilt, IsDag
  <2> QED
    BY <2>1, InputsAgain
<1>3. InvalidNodes(dag, found) = Downstream(inputs, changed)
  BY TamperingSpreads
<1>4. ASSUME changed # {} PROVE ~VerifyMerkleDag(dag, found)
  <2>1. changed \subseteq Downstream(inputs, changed)
    <3>1. changed \subseteq D
      BY <1>1 DEF Changed
    <3> HIDE DEF changed
    <3> QED
      BY <3>1, DownstreamHolds
  <2> HIDE DEF changed
  <2> QED
    BY <1>3, <1>4, <2>1 DEF VerifyMerkleDag
<1>5. ASSUME changed = {} PROVE VerifyMerkleDag(dag, found)
  <2>1. Downstream(inputs, {}) = {}
    <3>1. {} \in SUBSET D /\ \A j \in D : inputs[j] \cap {} # {} => j \in {}
      OBVIOUS
    <3> QED
      BY <3>1 DEF Downstream
  <2>2. \A k \in D : node[k].chainedHash = dag.nodes[k].chainedHash
    <3> DEFINE C == {k \in D : node[k].chainedHash = dag.nodes[k].chainedHash}
    <3>1. \A k \in D : inputs[k] \subseteq C => k \in C
      <4> SUFFICES ASSUME NEW k \in D, inputs[k] \subseteq C
                   PROVE  node[k].chainedHash = dag.nodes[k].chainedHash
        OBVIOUS
      <4>1. \A d \in inputs[k] : node[d].chainedHash = dag.nodes[d].chainedHash
        OBVIOUS
      <4>2. k \notin Changed(artifacts, found)
        BY <1>5
      <4> HIDE DEF C, changed
      <4> QED
        BY <4>1, <4>2, SameHashes
    <3>2. D \subseteq C
      <4> HIDE DEF C
      <4> QED
        BY <1>1, <3>1, DagInduction
    <3> QED
      BY <3>2
  <2>3. Leaves(inputs) \subseteq D
    BY DEF Leaves
  <2>4. {node[k].chainedHash : k \in Leaves(inputs)} = dag.chainDigest
    <3>1. {node[k].chainedHash : k \in Leaves(inputs)} = {dag.nodes[k].chainedHash : k \in Leaves(inputs)}
      BY <2>2, <2>3
    <3> QED
      BY <1>1, <3>1 DEF HashesOf
  <2> QED
    BY <1>1, <1>2, <1>3, <1>5, <2>1, <2>4 DEF VerifyMerkleDag
<1> QED
  BY <1>4, <1>5

-----------------------------------------------------------------------------
(* What a verified chain and its digest say.                               *)

LEMMA VerifiedHolds ==
    ASSUME NEW dag, NEW artifacts, VerifyMerkleDag(dag, artifacts)
    PROVE  Holds(dag, ChainNodes(Contents(Restrict(artifacts, DOMAIN dag.nodes)), DerivedInputs(dag)),
                 DerivedInputs(dag))
<1> DEFINE D == DOMAIN dag.nodes
           inputs == DerivedInputs(dag)
           own == Restrict(artifacts, D)
           contents == [k \in D |-> IF k \in DOMAIN artifacts
                                    THEN ContentHash(k, artifacts[k]) ELSE Missing]
           node == ChainNodes(contents, inputs)
<1>1. DOMAIN inputs = D
  BY DEF DerivedInputs
<1>2. Expected(dag, artifacts) = node
  BY DEF Expected
<1>3. InvalidNodes(dag, artifacts) = {}
  BY DEF VerifyMerkleDag
<1>4. \A k \in D : /\ k \in DOMAIN artifacts
                   /\ dag.nodes[k].contentHash = node[k].contentHash
                   /\ dag.nodes[k].chainedHash = node[k].chainedHash
                   /\ dag.nodes[k].depth = node[k].depth
                   /\ dag.nodes[k].inputHashes = node[k].inputHashes
  <2> HIDE DEF node
  <2> QED
    BY <1>2, <1>3 DEF InvalidNodes
<1>5. /\ dag.roots = {k \in D : inputs[k] = {}}
      /\ dag.leaves = Leaves(inputs)
      /\ dag.chainDigest = {node[k].chainedHash : k \in Leaves(inputs)}
  <2> HIDE DEF node
  <2> QED
    BY <1>1, <1>2 DEF VerifyMerkleDag
<1>6. DOMAIN own = D /\ \A k \in D : own[k] = artifacts[k]
  BY DEF Restrict
<1>7. contents = Contents(own) /\ DOMAIN contents = D
  <2>1. contents = [k \in D |-> ContentHash(k, artifacts[k])]
    BY <1>4
  <2>2. Contents(own) = [k \in D |-> ContentHash(k, artifacts[k])]
    BY <1>6 DEF Contents
  <2> QED
    BY <2>1, <2>2
<1> HIDE DEF contents, inputs, own
<1>8. node = ChainNodes(Contents(own), inputs)
  BY <1>7
<1> HIDE DEF node
<1>9. Holds(dag, node, inputs)
  BY <1>1, <1>4, <1>5 DEF Holds
<1> QED
  BY <1>8, <1>9 DEF own, inputs

LEMMA VerifiedHashes ==
    ASSUME NEW dag, IsFiniteSet(DOMAIN dag.nodes), NEW artifacts, VerifyMerkleDag(dag, artifacts)
    PROVE  IsBuilt(dag, Restrict(artifacts, DOMAIN dag.nodes), DerivedInputs(dag))
<1> DEFINE D == DOMAIN dag.nodes
           inputs == DerivedInputs(dag)
           own == Restrict(artifacts, D)
           contents == Contents(own)
           node == ChainNodes(contents, inputs)
<1>1. IsDag(inputs) /\ DOMAIN inputs = D
  <2>1. inputs \in [D -> SUBSET D] /\ DOMAIN inputs = D
    BY DEF DerivedInputs, Holders
  <2>2. ~Circular(inputs)
    BY DEF VerifyMerkleDag
  <2> HIDE DEF inputs
  <2> QED
    BY <2>1, <2>2 DEF IsDag
<1>2. Holds(dag, node, inputs)
  BY VerifiedHolds
<1>3. DOMAIN own = D
  BY DEF Restrict
<1>4. \A k \in D : /\ dag.nodes[k].contentHash = node[k].contentHash
                   /\ dag.nodes[k].chainedHash = node[k].chainedHash
                   /\ dag.nodes[k].depth = node[k].depth
                   /\ dag.nodes[k].inputHashes = node[k].inputHashes
  <2> HIDE DEF node, inputs
  <2> QED
    BY <1>1, <1>2 DEF Holds
<1>5. /\ dag.roots = {k \in D : inputs[k] = {}}
      /\ dag.leaves = Leaves(inputs)
      /\ dag.chainDigest = {node[k].chainedHash : k \in Leaves(inputs)}
  <2> HIDE DEF node, inputs
  <2> QED
    BY <1>1, <1>2 DEF Holds
<1> HIDE DEF own
<1>7. DOMAIN contents = D /\ \A k \in D : contents[k] = ContentHash(k, own[k])
  BY <1>3 DEF Contents
<1> HIDE DEF contents, inputs
<1>9. \A k \in D : /\ node[k].contentHash = contents[k]
                   /\ node[k].inputHashes = HashesOf(node, inputs[k])
                   /\ node[k].chainedHash = ChainedHash(contents[k], node[k].inputHashes)
  BY <1>1, <1>7, NodeFacts
<1>10. \A S \in SUBSET D : HashesOf(node, S) = HashesOf(dag.nodes, S)
  <2> HIDE DEF node
  <2> SUFFICES ASSUME NEW S \in SUBSET D PROVE HashesOf(node, S) = HashesOf(dag.nodes, S)
    OBVIOUS
  <2>1. {node[d].chainedHash : d \in S} = {dag.nodes[d].chainedHash : d \in S}
    BY <1>4
  <2> QED
    BY <2>1 DEF HashesOf
<1>11. Leaves(inputs) \in SUBSET D /\ \A k \in D : inputs[k] \in SUBSET D
  BY <1>1 DEF Leaves, IsDag
<1>12. dag.chainDigest = HashesOf(dag.nodes, Leaves(inputs))
  <2>1. dag.chainDigest = HashesOf(node, Leaves(inputs))
    BY <1>5 DEF HashesOf
  <2> HIDE DEF node
  <2> QED
    BY <1>10, <1>11, <2>1
<1>13. ASSUME NEW k \in D
       PROVE  /\ dag.nodes[k].contentHash = ContentHash(k, own[k])
              /\ dag.nodes[k].inputHashes = HashesOf(dag.nodes, inputs[k])
              /\ dag.nodes[k].chainedHash
                     = ChainedHash(ContentHash(k, own[k]), HashesOf(dag.nodes, inputs[k]))
              /\ dag.nodes[k].depth = ChainNodes(Contents(own), inputs)[k].depth
  <2>1. HashesOf(node, inputs[k]) = HashesOf(dag.nodes, inputs[k])
    BY <1>10, <1>11
  <2>2. dag.nodes[k].depth = ChainNodes(Contents(own), inputs)[k].depth
    BY <1>4 DEF contents
  <2> HIDE DEF node
  <2> QED
    BY <1>4, <1>7, <1>9, <2>1, <2>2
<1>14. IsBuilt(dag, own, inputs)
  <2> HIDE DEF node
  <2> QED
    BY <1>1, <1>3, <1>5, <1>12, <1>13 DEF IsBuilt
<1> QED
  BY <1>14 DEF own, inputs

\* A stored chain that verifyMerkleDag passes (merkle-dag.ts:348-442) is, in every field
\* that is compared, the one that buildMerkleDag makes of the contents it was verified
\* against and the inputs its hashes name.  The key kept in a node and who produced it
\* (267, 271) may be anything: for the chain that is built any producers will do.
THEOREM VerifiedIsBuilt ==
    ASSUME NEW dag, NEW artifacts, VerifyMerkleDag(dag, artifacts), NEW producerMap
    PROVE  Checked(dag) = Checked(BuildMerkleDag(Restrict(artifacts, DOMAIN dag.nodes), producerMap,
                                                 DerivedInputs(dag)))
<1> DEFINE own == Restrict(artifacts, DOMAIN dag.nodes)
           inputs == DerivedInputs(dag)
           built == BuildMerkleDag(own, producerMap, inputs)
<1>1. Holds(dag, ChainNodes(Contents(own), inputs), inputs)
  BY VerifiedHolds
<1>2. DOMAIN own = DOMAIN inputs
  BY DEF Restrict, DerivedInputs
<1> HIDE DEF own, inputs
<1>3. Holds(built, ChainNodes(Contents(own), inputs), inputs)
  BY <1>2, BuiltHolds
<1> HIDE DEF built
<1>4. Checked(dag) = Checked(built)
  BY <1>1, <1>3, HoldTheSame
<1> QED
  BY <1>4 DEF own, inputs, built

\* Where a chain's digest is one of another's hashes, all of its artifacts are the
\* other's: the same contents, made from the same.
LEMMA DigestReaches ==
    ASSUME NEW dag, NEW artifacts, NEW inputs, IsBuilt(dag, artifacts, inputs),
           NEW other, NEW found, NEW edges, IsBuilt(other, found, edges),
           dag.chainDigest \subseteq HashesOf(other.nodes, DOMAIN edges)
    PROVE  \A k \in DOMAIN inputs : /\ k \in DOMAIN edges
                                    /\ dag.nodes[k].chainedHash = other.nodes[k].chainedHash
                                    /\ artifacts[k] = found[k]
                                    /\ inputs[k] = edges[k]
<1> DEFINE D == DOMAIN inputs
           E == DOMAIN edges
           Same == {k \in D : k \in E /\ dag.nodes[k].chainedHash = other.nodes[k].chainedHash}
<1>1. \A k \in D : /\ dag.nodes[k].chainedHash
                          = ChainedHash(ContentHash(k, artifacts[k]), HashesOf(dag.nodes, inputs[k]))
                   /\ inputs[k] \subseteq D
  BY DEF IsBuilt, IsDag
<1>2. \A k \in E : /\ other.nodes[k].chainedHash
                          = ChainedHash(ContentHash(k, found[k]), HashesOf(other.nodes, edges[k]))
                   /\ edges[k] \subseteq E
  BY DEF IsBuilt, IsDag
<1>3. ASSUME NEW k \in D, NEW j \in E, dag.nodes[k].chainedHash = other.nodes[j].chainedHash
      PROVE  j = k /\ artifacts[k] = found[k] /\ HashesOf(dag.nodes, inputs[k]) = HashesOf(other.nodes, edges[k])
  <2>1. ChainedHash(ContentHash(k, artifacts[k]), HashesOf(dag.nodes, inputs[k]))
            = ChainedHash(ContentHash(j, found[j]), HashesOf(other.nodes, edges[j]))
    BY <1>1, <1>2, <1>3
  <2>2. ContentHash(k, artifacts[k]) = ContentHash(j, found[j])
        /\ HashesOf(dag.nodes, inputs[k]) = HashesOf(other.nodes, edges[j])
    BY <2>1 DEF ChainedHash
  <2>3. k = j /\ artifacts[k] = found[j]
    BY <2>2 DEF ContentHash
  <2> QED
    BY <2>2, <2>3
<1>4. ASSUME NEW k \in Same PROVE inputs[k] = edges[k] /\ inputs[k] \subseteq Same
  <2>1. k \in D /\ k \in E /\ HashesOf(dag.nodes, inputs[k]) = HashesOf(other.nodes, edges[k])
    BY <1>3
  <2>2. ASSUME NEW d \in inputs[k] PROVE d \in edges[k] /\ d \in Same
    <3>1. dag.nodes[d].chainedHash \in HashesOf(dag.nodes, inputs[k])
      BY DEF HashesOf
    <3>2. PICK e \in edges[k] : dag.nodes[d].chainedHash = other.nodes[e].chainedHash
      BY <2>1, <3>1 DEF HashesOf
    <3>3. d \in D /\ e \in E
      BY <1>1, <1>2, <2>1
    <3>4. e = d
      BY <1>3, <3>2, <3>3
    <3> QED
      BY <3>2, <3>3, <3>4
  <2>3. ASSUME NEW e \in edges[k] PROVE e \in inputs[k]
    <3>1. other.nodes[e].chainedHash \in HashesOf(other.nodes, edges[k])
      BY DEF HashesOf
    <3>2. PICK d \in inputs[k] : dag.nodes[d].chainedHash = other.nodes[e].chainedHash
      BY <2>1, <3>1 DEF HashesOf
    <3>3. d \in D /\ e \in E
      BY <1>1, <1>2, <2>1
    <3>4. e = d
      BY <1>3, <3>2, <3>3
    <3> QED
      BY <3>4
  <2> QED
    BY <2>2, <2>3
<1>5. Leaves(inputs) \subseteq Same
  <2> SUFFICES ASSUME NEW k \in Leaves(inputs) PROVE k \in Same
    OBVIOUS
  <2>1. k \in D
    BY DEF Leaves
  <2>2. dag.nodes[k].chainedHash \in HashesOf(dag.nodes, Leaves(inputs))
    BY DEF HashesOf
  <2>3. dag.nodes[k].chainedHash \in HashesOf(other.nodes, E)
    BY <2>2 DEF IsBuilt
  <2>4. PICK j \in E : dag.nodes[k].chainedHash = other.nodes[j].chainedHash
    BY <2>3 DEF HashesOf
  <2>5. j = k
    BY <1>3, <2>1, <2>4
  <2> QED
    BY <2>1, <2>4, <2>5
<1>6. ASSUME D \ Same # {} PROVE FALSE
  <2>1. PICK k \in D \ Same : \A j \in D \ Same : k \notin inputs[j]
    <3>1. IsDag(inputs) /\ D \ Same \subseteq DOMAIN inputs
      BY DEF IsBuilt
    <3> DEFINE S == D \ Same
    <3>2. S \subseteq DOMAIN inputs /\ S # {}
      BY <1>6
    <3> HIDE DEF S
    <3>3. \E k \in S : \A j \in S : k \notin inputs[j]
      BY <3>1, <3>2, LastMade
    <3> QED
      BY <3>3 DEF S
  <2>2. \A j \in Same : k \notin inputs[j]
    BY <1>4
  <2>3. k \in Leaves(inputs)
    BY <2>1, <2>2 DEF Leaves
  <2> QED
    BY <1>5, <2>1, <2>3
<1>7. D \subseteq Same
  BY <1>6
<1> QED
  BY <1>3, <1>4, <1>7

\* Two chains with one chain digest hold the same artifacts with the same contents, made
\* from one another in the same way, at the same depths.
THEOREM DigestBinds ==
    ASSUME NEW dag, NEW artifacts, NEW inputs, IsBuilt(dag, artifacts, inputs),
           NEW other, NEW found, NEW edges, IsBuilt(other, found, edges),
           dag.chainDigest = other.chainDigest
    PROVE  /\ inputs = edges /\ Contents(artifacts) = Contents(found)
           /\ \A k \in DOMAIN inputs :
                  /\ dag.nodes[k].contentHash = other.nodes[k].contentHash
                  /\ dag.nodes[k].inputHashes = other.nodes[k].inputHashes
                  /\ dag.nodes[k].chainedHash = other.nodes[k].chainedHash
                  /\ dag.nodes[k].depth = other.nodes[k].depth
           /\ dag.roots = other.roots /\ dag.leaves = other.leaves
<1>1. /\ dag.chainDigest \subseteq HashesOf(other.nodes, DOMAIN edges)
      /\ other.chainDigest \subseteq HashesOf(dag.nodes, DOMAIN inputs)
  <2>1. /\ dag.chainDigest = HashesOf(other.nodes, Leaves(edges))
        /\ other.chainDigest = HashesOf(dag.nodes, Leaves(inputs))
    BY DEF IsBuilt
  <2>2. Leaves(edges) \subseteq DOMAIN edges /\ Leaves(inputs) \subseteq DOMAIN inputs
    BY DEF Leaves
  <2>3. /\ HashesOf(other.nodes, Leaves(edges)) \subseteq HashesOf(other.nodes, DOMAIN edges)
        /\ HashesOf(dag.nodes, Leaves(inputs)) \subseteq HashesOf(dag.nodes, DOMAIN inputs)
    BY <2>2 DEF HashesOf
  <2> QED
    BY <2>1, <2>3
<1>2. \A k \in DOMAIN inputs : /\ k \in DOMAIN edges
                               /\ dag.nodes[k].chainedHash = other.nodes[k].chainedHash
                               /\ artifacts[k] = found[k]
                               /\ inputs[k] = edges[k]
  BY <1>1, DigestReaches
<1>3. \A k \in DOMAIN edges : k \in DOMAIN inputs
  BY <1>1, DigestReaches
<1>4. DOMAIN inputs = DOMAIN edges
  BY <1>2, <1>3
<1>5. inputs = edges
  <2>1. inputs = [k \in DOMAIN inputs |-> inputs[k]] /\ edges = [k \in DOMAIN edges |-> edges[k]]
    BY DEF IsBuilt, IsDag
  <2> QED
    BY <1>2, <1>4, <2>1
<1>6. Contents(artifacts) = Contents(found)
  <2>1. DOMAIN artifacts = DOMAIN inputs /\ DOMAIN found = DOMAIN inputs
    BY <1>4 DEF IsBuilt
  <2> QED
    BY <1>2, <2>1 DEF Contents
<1>7. ASSUME NEW k \in DOMAIN inputs
      PROVE  /\ dag.nodes[k].contentHash = other.nodes[k].contentHash
             /\ dag.nodes[k].inputHashes = other.nodes[k].inputHashes
             /\ dag.nodes[k].depth = other.nodes[k].depth
  <2>1. /\ dag.nodes[k].contentHash = ContentHash(k, artifacts[k])
        /\ dag.nodes[k].inputHashes = HashesOf(dag.nodes, inputs[k])
        /\ dag.nodes[k].depth = ChainNodes(Contents(artifacts), inputs)[k].depth
    BY DEF IsBuilt
  <2>2. /\ other.nodes[k].contentHash = ContentHash(k, found[k])
        /\ other.nodes[k].inputHashes = HashesOf(other.nodes, edges[k])
        /\ other.nodes[k].depth = ChainNodes(Contents(found), edges)[k].depth
    BY <1>4 DEF IsBuilt
  <2>3. HashesOf(dag.nodes, inputs[k]) = HashesOf(other.nodes, inputs[k])
    <3>1. inputs[k] \subseteq DOMAIN inputs
      BY DEF IsBuilt, IsDag
    <3>2. {dag.nodes[d].chainedHash : d \in inputs[k]} = {other.nodes[d].chainedHash : d \in inputs[k]}
      BY <1>2, <3>1
    <3> QED
      BY <3>2 DEF HashesOf
  <2> QED
    BY <1>2, <1>5, <1>6, <2>1, <2>2, <2>3
<1>8. dag.roots = other.roots /\ dag.leaves = other.leaves
  BY <1>5 DEF IsBuilt
<1> QED
  BY <1>2, <1>5, <1>6, <1>7, <1>8

\* Of the chains that verify against given contents (merkle-dag.ts:348-442) those with
\* one chain digest, or with the same nodes, are one chain in every field that is
\* compared.  Who keeps the chain digest apart leaves nothing to alter unnoticed but the
\* artifactKey and the producedBy of a node (267, 271).
THEOREM OneChainVerifies ==
    ASSUME NEW stored, NEW artifacts, NEW inputs, IsBuilt(stored, artifacts, inputs),
           NEW dag, IsFiniteSet(DOMAIN dag.nodes), VerifyMerkleDag(dag, artifacts),
           dag.chainDigest = stored.chainDigest \/ dag.nodes = stored.nodes
    PROVE  Checked(dag) = Checked(stored)
<1> DEFINE own == Restrict(artifacts, DOMAIN dag.nodes)
           found == DerivedInputs(dag)
<1>1. IsBuilt(dag, own, found)
  BY VerifiedHashes
<1>2. ASSUME dag.nodes = stored.nodes PROVE dag.chainDigest = stored.chainDigest
  <2>1. DerivedInputs(dag) = DerivedInputs(stored)
    BY <1>2 DEF DerivedInputs, Holders
  <2>2. found = inputs
    BY <2>1, InputsAgain
  <2> HIDE DEF own, found
  <2> QED
    BY <1>1, <1>2, <2>2 DEF IsBuilt
<1> HIDE DEF own, found
<1>3. dag.chainDigest = stored.chainDigest
  BY <1>2
<1>4. Agree(dag, stored)
  <2>1. /\ found = inputs
        /\ \A k \in DOMAIN found :
               /\ dag.nodes[k].contentHash = stored.nodes[k].contentHash
               /\ dag.nodes[k].inputHashes = stored.nodes[k].inputHashes
               /\ dag.nodes[k].chainedHash = stored.nodes[k].chainedHash
               /\ dag.nodes[k].depth = stored.nodes[k].depth
        /\ dag.roots = stored.roots /\ dag.leaves = stored.leaves
    BY <1>1, <1>3, DigestBinds
  <2>2. DOMAIN dag.nodes = DOMAIN found /\ DOMAIN stored.nodes = DOMAIN inputs
    BY <1>1 DEF IsBuilt
  <2> QED
    BY <1>3, <2>1, <2>2 DEF Agree
<1> QED
  BY <1>4, CheckedAgree

\* What verifyMerkleDag says of a chain depends on the fields it compares alone.
LEMMA CheckedDecides ==
    ASSUME NEW dag, NEW other, Checked(dag) = Checked(other), NEW artifacts
    PROVE  VerifyMerkleDag(dag, artifacts) <=> VerifyMerkleDag(other, artifacts)
<1> DEFINE D == DOMAIN other.nodes
<1>1. Agree(dag, other)
  BY CheckedAgree
<1>2. \A h : Holders(dag, h) = Holders(other, h)
  BY <1>1 DEF Holders, Agree
<1>3. DerivedInputs(dag) = DerivedInputs(other)
  BY <1>1, <1>2 DEF DerivedInputs, Agree
<1>4. StructuralInvalid(dag) = StructuralInvalid(other)
  BY <1>1, <1>2 DEF StructuralInvalid, Agree
<1>5. Expected(dag, artifacts) = Expected(other, artifacts)
  BY <1>1, <1>3 DEF Expected, Agree
<1>6. InvalidNodes(dag, artifacts) = InvalidNodes(other, artifacts)
  BY <1>1, <1>4, <1>5 DEF InvalidNodes, Agree
<1> QED
  BY <1>1, <1>3, <1>5, <1>6 DEF VerifyMerkleDag, Agree

-----------------------------------------------------------------------------
(* Proof paths.                                                            *)

\* A step that holds the content hash and the input hashes of a node of some built chain.
IsBuiltStep(step) ==
    \E chain, contents, edges :
        /\ IsBuilt(chain, contents, edges)
        /\ \E k \in DOMAIN edges : /\ step.contentHash = chain.nodes[k].contentHash
                                   /\ step.inputHashes = chain.nodes[k].inputHashes

\* Two such steps with one chained hash hold the same hashes.
LEMMA BuiltStepsDiffer ==
    ASSUME NEW step, NEW other, IsBuiltStep(step), IsBuiltStep(other),
           ChainedHash(step.contentHash, step.inputHashes)
               = ChainedHash(other.contentHash, other.inputHashes)
    PROVE  step.contentHash = other.contentHash /\ step.inputHashes = other.inputHashes
BY DEF ChainedHash

\* No proof path pieced together from nodes of built chains, of this one or of any others,
\* in whatever order, that ends in a hash of this chain makes verifySingleArtifact
\* (merkle-dag.ts:444-480) accept for an artifact another content than the one this chain
\* was built from.  Of paths whose steps hold strings that are not hashes it says nothing:
\* the code joins them with nothing between (121-123) and does not look at their form, so
\* there the pair that ChainedHash makes does not stand for what it hashes.
THEOREM NoForgedProof ==
    ASSUME NEW dag, NEW artifacts, NEW inputs, IsBuilt(dag, artifacts, inputs),
           NEW proof, NEW V, proof.path \in Seq(V), NEW key, NEW data,
           \A i \in 1..Len(proof.path) : IsBuiltStep(proof.path[i]),
           VerifySingleArtifact(proof, key, data),
           proof.expectedChainedHash \in HashesOf(dag.nodes, DOMAIN inputs)
    PROVE  key \in DOMAIN artifacts /\ data = artifacts[key]
<1> DEFINE path == proof.path
           n == Len(path)
           D == DOMAIN inputs
           Held == {i \in 1..n : \E k \in D : path[i].chainedHash = dag.nodes[k].chainedHash}
           f == [i \in 1..n |-> n - i]
<1>1. n \in Nat /\ DOMAIN path = 1..n /\ path # << >> /\ n > 0
  BY DEF VerifySingleArtifact
<1>2. \A i \in 1..n : path[i].chainedHash = ChainedHash(path[i].contentHash, path[i].inputHashes)
  BY <1>1 DEF VerifySingleArtifact
<1>3. \A i \in 1..n : i > 1 => path[i - 1].chainedHash \in path[i].inputHashes
  BY <1>1 DEF VerifySingleArtifact
<1>4. path[1].contentHash = ContentHash(key, data)
  BY DEF VerifySingleArtifact
<1>5. n \in Held
  <2>1. path[n].chainedHash = proof.expectedChainedHash
    BY <1>1 DEF VerifySingleArtifact, Last
  <2>2. path[n].chainedHash \in HashesOf(dag.nodes, D)
    BY <2>1
  <2>3. \E k \in D : path[n].chainedHash = dag.nodes[k].chainedHash
    BY <2>2 DEF HashesOf
  <2> QED
    BY <1>1, <2>3
<1>6. PICK i \in Held : \A j \in Held : i <= j
  <2>1. Held \subseteq 1..n /\ IsFiniteSet(Held)
    <3>1. IsFiniteSet(1..n)
      BY <1>1, FS_Interval
    <3> QED
      BY <3>1, FS_Subset
  <2>2. \A j \in Held : f[j] \in Nat /\ f[j] = n - j
    BY <1>1
  <2> HIDE DEF f
  <2>3. PICK i \in Held : \A j \in Held : f[j] <= f[i]
    <3> HIDE DEF Held
    <3>1. Held # {}
      BY <1>5
    <3> QED
      BY <2>1, <2>2, <3>1, HighestOf
  <2>4. \A j \in Held : i <= j
    BY <1>1, <2>1, <2>2, <2>3
  <2> QED
    BY <2>4
<1>7. PICK k \in D : path[i].chainedHash = dag.nodes[k].chainedHash
  BY <1>6
<1>8. i \in 1..n
  BY <1>6
<1>9. path[i].contentHash = ContentHash(k, artifacts[k]) /\ path[i].inputHashes = HashesOf(dag.nodes, inputs[k])
  <2>1. /\ dag.nodes[k].contentHash = ContentHash(k, artifacts[k])
        /\ dag.nodes[k].inputHashes = HashesOf(dag.nodes, inputs[k])
        /\ dag.nodes[k].chainedHash = ChainedHash(dag.nodes[k].contentHash, dag.nodes[k].inputHashes)
    BY DEF IsBuilt
  <2>2. IsBuiltStep(path[i]) /\ IsBuiltStep(dag.nodes[k])
    BY <1>8 DEF IsBuiltStep
  <2>3. path[i].chainedHash = ChainedHash(path[i].contentHash, path[i].inputHashes)
    BY <1>2, <1>8
  <2>4. /\ path[i].contentHash = dag.nodes[k].contentHash
        /\ path[i].inputHashes = dag.nodes[k].inputHashes
    BY <1>7, <2>1, <2>2, <2>3, BuiltStepsDiffer
  <2> QED
    BY <2>1, <2>4
<1>10. i = 1
  <2> SUFFICES ASSUME i # 1 PROVE FALSE
    OBVIOUS
  <2>1. i - 1 \in 1..n /\ i - 1 < i /\ i > 1
    BY <1>1, <1>8
  <2>2. path[i - 1].chainedHash \in HashesOf(dag.nodes, inputs[k])
    BY <1>3, <1>8, <1>9, <2>1
  <2>3. PICK d \in inputs[k] : path[i - 1].chainedHash = dag.nodes[d].chainedHash
    BY <2>2 DEF HashesOf
  <2>4. d \in D
    BY DEF IsBuilt, IsDag
  <2>5. i - 1 \in Held
    BY <2>1, <2>3, <2>4
  <2>6. i <= i - 1
    BY <1>6, <2>5
  <2> QED
    BY <1>1, <1>8, <2>6
<1>11. ContentHash(key, data) = ContentHash(k, artifacts[k])
  BY <1>4, <1>9, <1>10
<1>12. key = k /\ data = artifacts[k]
  BY <1>11 DEF ContentHash
<1> QED
  BY <1>12 DEF IsBuilt

\* What holds of 0, and of the successor of whatever below n it holds of, holds up to n.
LEMMA CountTo ==
    ASSUME NEW n \in Nat, NEW C, 0 \in C, \A i \in 0..(n - 1) : i \in C => i + 1 \in C
    PROVE  n \in C
<1> DEFINE Bad == (0..n) \ C
           f == [i \in 0..n |-> i]
<1>1. ASSUME Bad # {} PROVE FALSE
  <2>1. IsFiniteSet(Bad)
    <3>1. IsFiniteSet(0..n) /\ Bad \subseteq 0..n
      BY FS_Interval
    <3> HIDE DEF Bad
    <3> QED
      BY <3>1, FS_Subset
  <2>2. \A i \in Bad : f[i] \in Nat
    OBVIOUS
  <2>3. PICK i \in Bad : \A j \in Bad : f[i] <= f[j]
    <3> HIDE DEF Bad, f
    <3> QED
      BY <1>1, <2>1, <2>2, LowestOf
  <2>4. i \in 0..n /\ i # 0 /\ i - 1 \in 0..(n - 1) /\ i - 1 \in 0..n /\ i = (i - 1) + 1
    OBVIOUS
  <2>5. i - 1 \notin Bad
    BY <2>3, <2>4
  <2> QED
    BY <2>4, <2>5
<1> QED
  BY <1>1

\* The choice between the next nodes (merkle-dag.ts:314-322) is one of them.
LEMMA DeepestIsOne ==
    ASSUME NEW dag, NEW S, IsFiniteSet(S), S # {}, S \subseteq DOMAIN Order,
           \A c \in S : dag.nodes[c].depth \in Nat
    PROVE  DeepestOf(dag, S) \in S
<1> DEFINE f == [c \in S |-> dag.nodes[c].depth]
<1>1. \A c \in S : f[c] = dag.nodes[c].depth /\ f[c] \in Nat
  OBVIOUS
<1> HIDE DEF f
<1>2. PICK m \in S : \A c \in S : f[c] <= f[m]
  BY <1>1, HighestOf
<1> DEFINE T == {c \in S : f[c] = f[m]}
<1>3. T # {} /\ T \subseteq S /\ \A c \in T : Order[c] \in Nat
  BY OrderAssumption
<1>4. IsFiniteSet(T)
  BY FS_Subset
<1>5. PICK c \in T : \A d \in T : Order[c] <= Order[d]
  <2> HIDE DEF T
  <2> QED
    BY <1>3, <1>4, LowestOf
<1>6. \A d \in S : \/ dag.nodes[c].depth > dag.nodes[d].depth
                   \/ dag.nodes[c].depth = dag.nodes[d].depth /\ Order[c] <= Order[d]
  <2> SUFFICES ASSUME NEW d \in S
               PROVE  \/ dag.nodes[c].depth > dag.nodes[d].depth
                      \/ dag.nodes[c].depth = dag.nodes[d].depth /\ Order[c] <= Order[d]
    OBVIOUS
  <2>1. f[c] = f[m] /\ f[d] <= f[m] /\ f[d] \in Nat /\ f[c] \in Nat
    BY <1>1, <1>2
  <2>2. CASE f[d] = f[m]
    BY <1>1, <1>5, <2>1, <2>2
  <2>3. CASE f[d] # f[m]
    BY <1>1, <2>1, <2>3
  <2> QED
    BY <2>2, <2>3
<1> QED
  BY <1>6 DEF DeepestOf

DepthsRise(dag, inputs) ==
    \A k \in DOMAIN inputs :
        /\ dag.nodes[k].depth \in Nat
        /\ \A d \in inputs[k] : dag.nodes[d].depth < dag.nodes[k].depth

LEMMA StoredDepthsRise ==
    ASSUME NEW dag, NEW artifacts, NEW inputs, IsBuilt(dag, artifacts, inputs)
    PROVE  DepthsRise(dag, inputs)
<1> DEFINE contents == Contents(artifacts)
           node == ChainNodes(contents, inputs)
<1>1. IsDag(inputs) /\ DOMAIN contents = DOMAIN inputs
  BY DEF IsBuilt, Contents
<1>2. \A k \in DOMAIN inputs : dag.nodes[k].depth = node[k].depth /\ inputs[k] \subseteq DOMAIN inputs
  BY DEF IsBuilt, IsDag
<1>3. \A k \in DOMAIN inputs :
          node[k].depth \in Nat /\ \A d \in inputs[k] : node[d].depth < node[k].depth
  <2> HIDE DEF contents
  <2> QED
    BY <1>1, DepthRises
<1> HIDE DEF node
<1> QED
  BY <1>2, <1>3 DEF DepthsRise

\* One step from the end of a path, if there is one to take.
NextPath(dag, inputs, path) ==
    LET next == Children(inputs, Last(path)) \ Range(path)
    IN  IF next = {} THEN path ELSE Append(path, DeepestOf(dag, next))

IsWalk(walk, n, dag, inputs, key) ==
    walk = [i \in 1..n |-> IF i = 1 THEN <<key>> ELSE NextPath(dag, inputs, walk[i - 1])]

LEMMA WalkExists ==
    ASSUME NEW dag, NEW inputs, NEW key, NEW n \in Nat
    PROVE  \E walk : IsWalk(walk, n, dag, inputs, key)
<1> DEFINE C == {m \in Nat : \E walk : IsWalk(walk, m, dag, inputs, key)}
<1>1. 0 \in C
  <2> DEFINE none == [i \in 1..0 |-> <<key>>]
  <2>1. IsWalk(none, 0, dag, inputs, key)
    BY DEF IsWalk
  <2> QED
    BY <2>1
<1>2. ASSUME NEW m \in 0..(n - 1), m \in C PROVE m + 1 \in C
  <2>1. PICK g : IsWalk(g, m, dag, inputs, key)
    BY <1>2
  <2> DEFINE h == [i \in 1..(m + 1) |->
                      IF i = 1 THEN <<key>>
                      ELSE IF i = m + 1 THEN NextPath(dag, inputs, g[m]) ELSE g[i]]
  <2>2. \A i \in 1..m : g[i] = IF i = 1 THEN <<key>> ELSE NextPath(dag, inputs, g[i - 1])
    BY <2>1 DEF IsWalk
  <2>3. \A i \in 1..m : h[i] = g[i]
    BY <2>2
  <2>4. \A i \in 1..(m + 1) :
            h[i] = IF i = 1 THEN <<key>> ELSE NextPath(dag, inputs, h[i - 1])
    <3> SUFFICES ASSUME NEW i \in 1..(m + 1), i # 1
                 PROVE  h[i] = NextPath(dag, inputs, h[i - 1])
      OBVIOUS
    <3>1. i - 1 \in 1..m /\ h[i - 1] = g[i - 1]
      BY <2>3
    <3>2. CASE i = m + 1
      BY <3>1, <3>2
    <3>3. CASE i # m + 1
      <4>1. i \in 1..m
        BY <3>3
      <4> QED
        BY <2>2, <2>3, <3>1, <4>1
    <3> QED
      BY <3>2, <3>3
  <2>5. IsWalk(h, m + 1, dag, inputs, key)
    <3>1. h = [i \in 1..(m + 1) |-> h[i]]
      OBVIOUS
    <3> HIDE DEF h
    <3> QED
      BY <2>4, <3>1 DEF IsWalk
  <2> HIDE DEF h
  <2> QED
    BY <2>5
<1>3. n \in C
  <2> HIDE DEF C
  <2> QED
    BY <1>1, <1>2, CountTo
<1> QED
  BY <1>3

\* A way up through the chain from key: every node is made from the one before it.
IsTrail(path, dag, inputs, key) ==
    /\ path \in Seq(DOMAIN inputs) /\ Len(path) > 0 /\ path[1] = key
    /\ \A i \in 1..Len(path) : i > 1 => path[i - 1] \in inputs[path[i]]
    /\ \A i, j \in 1..Len(path) :
           i < j => dag.nodes[path[i]].depth < dag.nodes[path[j]].depth

LEMMA TrailGrows ==
    ASSUME NEW dag, NEW inputs, DepthsRise(dag, inputs), NEW key, NEW path,
           IsTrail(path, dag, inputs, key), NEW c \in Children(inputs, Last(path))
    PROVE  c \notin Range(path) /\ IsTrail(Append(path, c), dag, inputs, key)
<1> DEFINE n == Len(path)
           D == DOMAIN inputs
           longer == Append(path, c)
<1>1. /\ path \in Seq(D) /\ n \in Nat /\ n > 0 /\ path[1] = key /\ Last(path) = path[n]
      /\ DOMAIN path = 1..n /\ \A i \in 1..n : path[i] \in D
  BY DEF IsTrail, Last
<1>2. c \in D /\ path[n] \in inputs[c]
  BY <1>1 DEF Children
<1>3. \A i \in 1..n : dag.nodes[path[i]].depth < dag.nodes[c].depth
  <2> SUFFICES ASSUME NEW i \in 1..n PROVE dag.nodes[path[i]].depth < dag.nodes[c].depth
    OBVIOUS
  <2>1. dag.nodes[path[n]].depth < dag.nodes[c].depth /\ dag.nodes[c].depth \in Nat
    BY <1>2 DEF DepthsRise
  <2>2. dag.nodes[path[i]].depth \in Nat /\ dag.nodes[path[n]].depth \in Nat
    BY <1>1 DEF DepthsRise
  <2>3. i = n \/ dag.nodes[path[i]].depth < dag.nodes[path[n]].depth
    <3>1. n \in 1..n /\ (i = n \/ i < n)
      <4>1. n \in Nat /\ n > 0 /\ i \in 1..n
        BY <1>1
      <4> HIDE DEF n
      <4> QED
        BY <4>1
    <3> QED
      BY <3>1 DEF IsTrail
  <2> QED
    BY <2>1, <2>2, <2>3
<1>4. c \notin Range(path)
  <2> SUFFICES ASSUME NEW i \in 1..n, path[i] = c PROVE FALSE
    BY <1>1 DEF Range
  <2>1. dag.nodes[c].depth \in Nat
    BY <1>2 DEF DepthsRise
  <2>2. dag.nodes[c].depth < dag.nodes[c].depth
    BY <1>3
  <2> QED
    BY <2>1, <2>2
<1>5. /\ longer \in Seq(D) /\ Len(longer) = n + 1 /\ longer[n + 1] = c
      /\ \A i \in 1..n : longer[i] = path[i]
  BY <1>1, <1>2
<1> HIDE DEF longer
<1>6. \A i \in 1..(n + 1) : i > 1 => longer[i - 1] \in inputs[longer[i]]
  <2> SUFFICES ASSUME NEW i \in 1..(n + 1), i > 1 PROVE longer[i - 1] \in inputs[longer[i]]
    OBVIOUS
  <2>1. i - 1 \in 1..n /\ longer[i - 1] = path[i - 1]
    BY <1>1, <1>5
  <2>2. CASE i = n + 1
    BY <1>1, <1>2, <1>5, <2>1, <2>2
  <2>3. CASE i # n + 1
    <3>1. i \in 1..n
      BY <1>1, <2>3
    <3> QED
      BY <1>5, <2>1, <3>1 DEF IsTrail
  <2> QED
    BY <2>2, <2>3
<1>7. \A i, j \in 1..(n + 1) : i < j => dag.nodes[longer[i]].depth < dag.nodes[longer[j]].depth
  <2> SUFFICES ASSUME NEW i \in 1..(n + 1), NEW j \in 1..(n + 1), i < j
               PROVE  dag.nodes[longer[i]].depth < dag.nodes[longer[j]].depth
    OBVIOUS
  <2>1. i \in 1..n /\ longer[i] = path[i]
    BY <1>1, <1>5
  <2>2. CASE j = n + 1
    BY <1>3, <1>5, <2>1, <2>2
  <2>3. CASE j # n + 1
    <3>1. j \in 1..n
      BY <1>1, <2>3
    <3>2. longer[j] = path[j]
      BY <1>5, <3>1
    <3>3. dag.nodes[path[i]].depth < dag.nodes[path[j]].depth
      BY <2>1, <3>1 DEF IsTrail
    <3> QED
      BY <2>1, <3>2, <3>3
  <2> QED
    BY <2>2, <2>3
<1>8. longer[1] = key
  BY <1>1, <1>5
<1> QED
  BY <1>1, <1>4, <1>5, <1>6, <1>7, <1>8 DEF IsTrail, longer

\* No such way is longer than there are nodes.
LEMMA TrailFits ==
    ASSUME NEW dag, NEW inputs, IsFiniteSet(DOMAIN inputs), DepthsRise(dag, inputs), NEW key,
           NEW path, IsTrail(path, dag, inputs, key)
    PROVE  Len(path) <= Cardinality(DOMAIN inputs)
<1> DEFINE n == Len(path)
<1>1. /\ path \in [1..n -> DOMAIN inputs] /\ n \in Nat
  BY DEF IsTrail
<1>2. ASSUME NEW i \in 1..n, NEW j \in 1..n, path[i] = path[j] PROVE i = j
  <2>1. dag.nodes[path[i]].depth \in Nat
    BY <1>1 DEF DepthsRise
  <2>2. ~(i < j) /\ ~(j < i)
    BY <1>2, <2>1 DEF IsTrail
  <2> QED
    BY <2>2
<1>3. path \in Injection(1..n, DOMAIN inputs)
  BY <1>1, <1>2 DEF Injection, IsInjective
<1>4. Cardinality(1..n) <= Cardinality(DOMAIN inputs)
  BY <1>3, FS_Injection
<1>5. Cardinality(1..n) = n
  <2>1. Cardinality(1..n) = IF 1 > n THEN 0 ELSE n - 1 + 1
    BY <1>1, FS_Interval
  <2> QED
    BY <1>1, <2>1
<1> QED
  BY <1>4, <1>5

\* The walk of getMerkleProofPath (merkle-dag.ts:305-329) ends at a leaf of the chain.
LEMMA WalkReachesLeaf ==
    ASSUME NEW dag, NEW artifacts, NEW inputs, IsBuilt(dag, artifacts, inputs),
           DOMAIN inputs \subseteq DOMAIN Order, NEW key \in DOMAIN inputs
    PROVE  LET keys == ProofKeys(dag, inputs, key)
           IN  IsTrail(keys, dag, inputs, key) /\ Children(inputs, Last(keys)) = {}
<1> DEFINE D == DOMAIN inputs
           n == Cardinality(D)
           walk == CHOOSE walk : IsWalk(walk, n, dag, inputs, key)
<1>1. IsFiniteSet(D) /\ DepthsRise(dag, inputs)
  <2>1. IsFiniteSet(D)
    BY DEF IsBuilt, IsDag
  <2>2. DepthsRise(dag, inputs)
    BY StoredDepthsRise
  <2> QED
    BY <2>1, <2>2
<1>2. n \in Nat /\ n > 0
  <2>1. n \in Nat
    BY <1>1, FS_CardinalityType
  <2>2. n # 0
    BY <1>1, FS_EmptySet
  <2> QED
    BY <2>1, <2>2
<1>3. IsWalk(walk, n, dag, inputs, key)
  <2> HIDE DEF n
  <2> QED
    BY <1>2, WalkExists
<1>4. ProofKeys(dag, inputs, key) = walk[n]
  BY DEF ProofKeys, IsWalk, NextPath
<1> HIDE DEF walk, n
<1>5. \A i \in 1..n : walk[i] = IF i = 1 THEN <<key>> ELSE NextPath(dag, inputs, walk[i - 1])
  BY <1>3 DEF IsWalk
<1> DEFINE Ends(path) == Children(inputs, Last(path)) = {}
           C == {i \in Nat : i > 0 => /\ IsTrail(walk[i], dag, inputs, key)
                                      /\ Ends(walk[i]) \/ Len(walk[i]) = i}
<1>6. 0 \in C
  OBVIOUS
<1>7. ASSUME NEW i \in 0..(n - 1), i \in C PROVE i + 1 \in C
  <2>1. i \in Nat /\ i + 1 \in 1..n /\ i + 1 > 0 /\ (i + 1) - 1 = i /\ i + 1 \in Nat
    BY <1>2
  <2>2. CASE i = 0
    <3>1. walk[i + 1] = <<key>>
      BY <1>5, <2>1, <2>2
    <3>2. Len(<<key>>) = 1 /\ <<key>>[1] = key /\ <<key>> \in Seq(D)
      OBVIOUS
    <3>3. IsTrail(<<key>>, dag, inputs, key)
      BY <3>2 DEF IsTrail
    <3> QED
      BY <2>1, <2>2, <3>1, <3>2, <3>3
  <2>3. CASE i # 0
    <3> DEFINE path == walk[i]
               next == Children(inputs, Last(path)) \ Range(path)
    <3>1. IsTrail(path, dag, inputs, key) /\ (Ends(path) \/ Len(path) = i)
      BY <1>7, <2>1, <2>3
    <3>2. walk[i + 1] = NextPath(dag, inputs, path)
      <4>1. i + 1 # 1
        BY <2>1, <2>3
      <4> QED
        BY <1>5, <2>1, <4>1
    <3> HIDE DEF path
    <3>3. next = Children(inputs, Last(path))
      <4>1. \A c \in Children(inputs, Last(path)) : c \notin Range(path)
        BY <1>1, <3>1, TrailGrows
      <4> QED
        BY <4>1
    <3>4. CASE next = {}
      <4>1. walk[i + 1] = path /\ Ends(path)
        BY <3>2, <3>3, <3>4 DEF NextPath
      <4> QED
        BY <2>1, <3>1, <4>1
    <3>5. CASE next # {}
      <4> DEFINE c == DeepestOf(dag, next)
      <4>1. walk[i + 1] = Append(path, c)
        BY <3>2, <3>5 DEF NextPath
      <4>2. next \subseteq D /\ IsFiniteSet(next)
        <5>1. next \subseteq D
          BY DEF Children
        <5> QED
          BY <1>1, <5>1, FS_Subset
      <4>3. c \in next
        <5>1. \A d \in next : dag.nodes[d].depth \in Nat
          BY <1>1, <4>2 DEF DepthsRise
        <5>2. next \subseteq DOMAIN Order
          BY <4>2
        <5> HIDE DEF next
        <5> QED
          BY <3>5, <4>2, <5>1, <5>2, DeepestIsOne
      <4> HIDE DEF c
      <4>4. IsTrail(Append(path, c), dag, inputs, key)
        BY <1>1, <3>1, <3>3, <4>3, TrailGrows
      <4>5. Len(path) = i /\ path \in Seq(D) /\ c \in D
        BY <3>1, <3>3, <3>5, <4>2, <4>3 DEF IsTrail
      <4>6. Len(Append(path, c)) = i + 1
        BY <4>5
      <4> QED
        BY <2>1, <4>1, <4>4, <4>6
    <3> QED
      BY <3>4, <3>5
  <2> QED
    BY <2>2, <2>3
<1>8. n \in C
  <2> HIDE DEF C
  <2> QED
    BY <1>2, <1>6, <1>7, CountTo
<1> DEFINE keys == walk[n]
<1>9. IsTrail(keys, dag, inputs, key) /\ (Ends(keys) \/ Len(keys) = n)
  BY <1>2, <1>8
<1> HIDE DEF keys
<1>10. ASSUME NEW c \in Children(inputs, Last(keys)) PROVE FALSE
  <2>1. Len(keys) = n /\ keys \in Seq(D)
    BY <1>9, <1>10 DEF IsTrail
  <2>2. IsTrail(Append(keys, c), dag, inputs, key)
    BY <1>1, <1>9, TrailGrows
  <2>3. Len(Append(keys, c)) <= n
    BY <1>1, <2>2, TrailFits DEF n
  <2>4. c \in D
    BY DEF Children
  <2>5. Len(Append(keys, c)) = n + 1
    BY <2>1, <2>4
  <2> QED
    BY <1>2, <2>3, <2>5
<1>11. Ends(keys)
  BY <1>10
<1> QED
  BY <1>4, <1>9, <1>11 DEF keys

\* A proof path begins with the node of its artifact.
LEMMA FirstStep ==
    ASSUME NEW dag, NEW artifacts, NEW inputs, IsBuilt(dag, artifacts, inputs),
           DOMAIN inputs \subseteq DOMAIN Order, NEW key \in DOMAIN inputs,
           dag.nodes[key].artifactKey = key
    PROVE  GetMerkleProofPath(dag, key).path[1]
               = [artifactKey |-> key, contentHash |-> dag.nodes[key].contentHash,
                  inputHashes |-> dag.nodes[key].inputHashes,
                  chainedHash |-> dag.nodes[key].chainedHash]
<1> DEFINE keys == ProofKeys(dag, inputs, key)
<1>1. IsTrail(keys, dag, inputs, key)
  BY WalkReachesLeaf
<1>2. DerivedInputs(dag) = inputs
  BY InputsAgain
<1>3. GetMerkleProofPath(dag, key).path
          = [i \in DOMAIN keys |->
                [artifactKey |-> dag.nodes[keys[i]].artifactKey,
                 contentHash |-> dag.nodes[keys[i]].contentHash,
                 inputHashes |-> dag.nodes[keys[i]].inputHashes,
                 chainedHash |-> dag.nodes[keys[i]].chainedHash]]
  <2> HIDE DEF keys
  <2>1. keys = ProofKeys(dag, DerivedInputs(dag), key)
    BY <1>2 DEF keys
  <2> QED
    BY <2>1 DEF GetMerkleProofPath
<1> HIDE DEF keys
<1>4. 1 \in DOMAIN keys /\ keys[1] = key
  BY <1>1 DEF IsTrail
<1> QED
  BY <1>3, <1>4

\* The proof path of an artifact (merkle-dag.ts:300-346) ends in a hash that the chain
\* digest covers, and makes verifySingleArtifact accept the content the chain was built
\* from for that artifact, and nothing else for any.  The chain is as it was built, the
\* key kept in the artifact's node (267) included.
THEOREM ProofPathVerifies ==
    ASSUME NEW dag, NEW artifacts, NEW inputs, IsBuilt(dag, artifacts, inputs),
           DOMAIN inputs \subseteq DOMAIN Order, NEW key \in DOMAIN inputs,
           dag.nodes[key].artifactKey = key,
           NEW proof, proof = GetMerkleProofPath(dag, key)
    PROVE  /\ proof.expectedChainedHash \in dag.chainDigest
           /\ \A data, other :
                  VerifySingleArtifact(proof, other, data) <=> other = key /\ data = artifacts[key]
<1> DEFINE D == DOMAIN inputs
           keys == ProofKeys(dag, inputs, key)
           n == Len(keys)
<1>1. IsTrail(keys, dag, inputs, key) /\ Children(inputs, Last(keys)) = {}
  BY WalkReachesLeaf
<1>2. /\ proof.target = key /\ proof.expectedChainedHash = dag.nodes[Last(keys)].chainedHash
      /\ proof.path = [i \in DOMAIN keys |->
                          [artifactKey |-> dag.nodes[keys[i]].artifactKey,
                           contentHash |-> dag.nodes[keys[i]].contentHash,
                           inputHashes |-> dag.nodes[keys[i]].inputHashes,
                           chainedHash |-> dag.nodes[keys[i]].chainedHash]]
  <2>1. DerivedInputs(dag) = inputs
    BY InputsAgain
  <2> HIDE DEF keys
  <2>2. keys = ProofKeys(dag, DerivedInputs(dag), key)
    BY <2>1 DEF keys
  <2> QED
    BY <2>2 DEF GetMerkleProofPath
<1> HIDE DEF keys
<1>3. /\ keys \in Seq(D) /\ n \in Nat /\ n > 0 /\ keys[1] = key /\ Last(keys) = keys[n]
      /\ DOMAIN keys = 1..n /\ \A i \in 1..n : keys[i] \in D
  BY <1>1 DEF IsTrail, Last
<1>4. \A i \in 1..n : /\ proof.path[i].artifactKey = dag.nodes[keys[i]].artifactKey
                      /\ proof.path[i].contentHash = dag.nodes[keys[i]].contentHash
                      /\ proof.path[i].inputHashes = dag.nodes[keys[i]].inputHashes
                      /\ proof.path[i].chainedHash = dag.nodes[keys[i]].chainedHash
  BY <1>2, <1>3
<1>5. DOMAIN proof.path = 1..n /\ proof.path # << >> /\ Len(proof.path) = n
      /\ Last(proof.path) = proof.path[n]
  <2>1. DOMAIN proof.path = 1..n
    BY <1>2, <1>3
  <2>2. Len(proof.path) = n
    BY <1>2, <1>3
  <2>3. proof.path # << >>
    BY <1>3, <2>2
  <2> QED
    BY <2>1, <2>2, <2>3 DEF Last
<1>6. proof.expectedChainedHash \in dag.chainDigest
  <2>1. keys[n] \in Leaves(inputs)
    BY <1>1, <1>3 DEF Leaves, Children
  <2>2. dag.nodes[keys[n]].chainedHash \in HashesOf(dag.nodes, Leaves(inputs))
    BY <2>1 DEF HashesOf
  <2> QED
    BY <1>2, <1>3, <2>2 DEF IsBuilt
<1>7. \A i \in 1..n : /\ proof.path[i].chainedHash
                             = ChainedHash(proof.path[i].contentHash, proof.path[i].inputHashes)
                      /\ i > 1 => proof.path[i - 1].chainedHash \in proof.path[i].inputHashes
  <2> SUFFICES ASSUME NEW i \in 1..n
               PROVE  /\ proof.path[i].chainedHash
                             = ChainedHash(proof.path[i].contentHash, proof.path[i].inputHashes)
                      /\ i > 1 => proof.path[i - 1].chainedHash \in proof.path[i].inputHashes
    OBVIOUS
  <2>1. proof.path[i].chainedHash = ChainedHash(proof.path[i].contentHash, proof.path[i].inputHashes)
    <3>1. keys[i] \in D
      BY <1>3
    <3>2. dag.nodes[keys[i]].chainedHash
              = ChainedHash(dag.nodes[keys[i]].contentHash, dag.nodes[keys[i]].inputHashes)
      BY <3>1 DEF IsBuilt
    <3> QED
      BY <1>4, <3>2
  <2>2. ASSUME i > 1 PROVE proof.path[i - 1].chainedHash \in proof.path[i].inputHashes
    <3>1. i - 1 \in 1..n /\ keys[i - 1] \in inputs[keys[i]]
      BY <1>1, <1>3, <2>2 DEF IsTrail
    <3>2. dag.nodes[keys[i - 1]].chainedHash \in HashesOf(dag.nodes, inputs[keys[i]])
      BY <3>1 DEF HashesOf
    <3>3. dag.nodes[keys[i]].inputHashes = HashesOf(dag.nodes, inputs[keys[i]])
      BY <1>3 DEF IsBuilt
    <3> QED
      BY <1>4, <3>1, <3>2, <3>3
  <2> QED
    BY <2>1, <2>2
<1>8. proof.path[1].artifactKey = key /\ proof.path[1].contentHash = ContentHash(key, artifacts[key])
  <2>1. dag.nodes[key].contentHash = ContentHash(key, artifacts[key])
    BY DEF IsBuilt
  <2> QED
    BY <1>3, <1>4, <2>1
<1>9. proof.path[n].chainedHash = proof.expectedChainedHash
  BY <1>2, <1>3, <1>4
<1>10. ASSUME NEW data, NEW other
       PROVE  VerifySingleArtifact(proof, other, data) <=> other = key /\ data = artifacts[key]
  <2>1. VerifySingleArtifact(proof, other, data)
        <=> other = key /\ ContentHash(other, data) = ContentHash(key, artifacts[key])
    BY <1>2, <1>5, <1>7, <1>8, <1>9 DEF VerifySingleArtifact
  <2>2. ContentHash(other, data) = ContentHash(key, artifacts[key])
        <=> other = key /\ data = artifacts[key]
    BY DEF ContentHash
  <2> QED
    BY <2>1, <2>2
<1> QED
  BY <1>6, <1>10

================================================================================
