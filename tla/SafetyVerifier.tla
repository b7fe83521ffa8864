---------------------------- MODULE SafetyVerifier ----------------------------
(***************************************************************************)
(* runtime/safety-verifier.ts: six checks over the manifests of a          *)
(* registry.  Each gives what it reports: skills, or pairs of a skill and  *)
(* an artifact.  Here a skill that consumes what it produces precedes      *)
(* itself, which dag-compiler.ts passes over.                              *)
(*                                                                         *)
(* `approves` says that the name of the skill contains "approval".         *)
(***************************************************************************)
EXTENDS DagCompiler

Parents(reg, s) == {p \in DOMAIN reg : reg[p].produces \cap reg[s].consumes # {}}

Ancestors(reg, s) ==
    LET up[i \in 0..Cardinality(DOMAIN reg)] ==
            IF i = 0 THEN Parents(reg, s)
            ELSE LET below == up[i - 1] IN below \cup UNION {Parents(reg, p) : p \in below}
    IN  up[Cardinality(DOMAIN reg)]

\* Mutant: a guardrail anywhere in the registry will do.
WritePathGuardrailMutant(reg) ==
    {s \in DOMAIN reg : reg[s].writes /\ ~\E p \in DOMAIN reg : reg[p].stage = "guardrail"}
WritePathGuardrail(reg) ==
    {s \in DOMAIN reg : reg[s].writes /\ ~\E p \in Ancestors(reg, s) : reg[p].stage = "guardrail"}

ApprovalPath(reg) ==
    {s \in DOMAIN reg : reg[s].writes /\ ~\E p \in Ancestors(reg, s) : reg[p].approves}

\* The first cycle that the search meets, or the empty sequence.
CycleFreedom(reg) ==
    LET next == [s \in DOMAIN reg |-> {t \in DOMAIN reg : s \in Parents(reg, t)}]
    IN  FindCycle(DOMAIN reg, next)

CapabilitySatisfiability(reg, available) ==
    {s \in DOMAIN reg : ~(reg[s].requires \subseteq available)}

SingleWriter(reg) ==
    {a \in UNION {reg[s].produces : s \in DOMAIN reg} : Cardinality(Producers(reg, a)) > 1}

Completeness(reg, initial) ==
    UNION {{<<s, a>> : a \in {b \in reg[s].consumes \ initial : Producers(reg, b) = {}}}
              : s \in DOMAIN reg}

VerifySafetyInvariants(reg, available, initial) ==
    [passed |-> /\ WritePathGuardrail(reg) = {} /\ ApprovalPath(reg) = {}
                /\ CycleFreedom(reg) = << >>
                /\ CapabilitySatisfiability(reg, available) = {}
                /\ SingleWriter(reg) = {} /\ Completeness(reg, initial) = {},
     totalViolations |->
         Cardinality(WritePathGuardrail(reg)) + Cardinality(ApprovalPath(reg))
         + (IF CycleFreedom(reg) = << >> THEN 0 ELSE 1)
         + Cardinality(CapabilitySatisfiability(reg, available))
         + Cardinality(SingleWriter(reg)) + Cardinality(Completeness(reg, initial))]
================================================================================
