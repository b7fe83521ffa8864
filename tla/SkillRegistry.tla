----------------------------- MODULE SkillRegistry -----------------------------
(***************************************************************************)
(* The skills that src/skills/ installs: of each the manifest (SKILL.md)   *)
(* and what its handler (run.ts) puts into the store, hands off to and     *)
(* throws on.  Triggers in Chinese are left out.                           *)
(***************************************************************************)
EXTENDS Naturals, TLC

\* A manifest that declares nothing.
Plain ==
    [stage |-> "sensor", guards |-> FALSE, alwaysOn |-> FALSE, repeatable |-> FALSE,
     triggers |-> {}, consumes |-> {}, produces |-> {}, hasHandoff |-> FALSE,
     fromRun |-> FALSE, route |-> << >>, outputs |-> {},
     makes |-> {}, handoff |-> "none", fails |-> "never"]

\* Runs portfolio-xray too.
AccountProbe ==
    [stage |-> "sensor", repeatable |-> TRUE,
     triggers |-> {"probe", "account", "rehearsal"},
     consumes |-> {"diagnostics.probes"},
     produces |-> {"diagnostics.probes", "goal.intake", "portfolio.snapshot", "portfolio.risk-profile"},
     hasHandoff |-> TRUE,
     route |-> <<"env-probe", "market-probe", "account-probe">>,
     outputs |-> {"diagnostics.probes", "goal.intake", "portfolio.snapshot", "portfolio.risk-profile"},
     makes |-> {"diagnostics.probes", "goal.intake", "portfolio.snapshot", "portfolio.risk-profile"},
     handoff |-> "diagnosis-synthesizer"] @@ Plain

AgentWallet ==
    [stage |-> "sensor", triggers |-> {"wallet", "agent-wallet", "identity"},
     produces |-> {"identity.agent-wallet"}, hasHandoff |-> TRUE,
     route |-> <<"agent-wallet">>, outputs |-> {"identity.agent-wallet"},
     makes |-> {"identity.agent-wallet"}, handoff |-> "official-executor"] @@ Plain

\* No ticket without --execute, which only apply passes on.
ApprovalGate ==
    [stage |-> "executor", guards |-> TRUE, repeatable |-> TRUE,
     triggers |-> {"approval", "ticket", "apply", "execute"},
     consumes |-> {"policy.plan-decision", "planning.proposals", "goal.intake"},
     produces |-> {"approval.ticket"}, hasHandoff |-> TRUE,
     route |-> <<"portfolio-xray", "market-scan", "trade-thesis", "hedge-planner", "scenario-sim", "policy-gate", "approval-gate">>,
     outputs |-> {"approval.ticket"}, handoff |-> "official-executor"] @@ Plain

DiagnosisSynthesizer ==
    [stage |-> "guardrail", guards |-> TRUE, repeatable |-> TRUE,
     triggers |-> {"diagnosis", "readiness", "rehearsal"},
     consumes |-> {"diagnostics.probes"},
     produces |-> {"diagnostics.readiness", "diagnostics.reason-catalog"},
     hasHandoff |-> TRUE,
     route |-> <<"env-probe", "market-probe", "account-probe", "diagnosis-synthesizer">>,
     outputs |-> {"diagnostics.readiness", "diagnostics.reason-catalog"},
     makes |-> {"diagnostics.readiness", "diagnostics.reason-catalog"},
     handoff |-> "rehearsal-planner"] @@ Plain

EnvProbe ==
    [stage |-> "sensor", repeatable |-> TRUE,
     triggers |-> {"probe", "doctor", "readiness", "rehearsal"},
     produces |-> {"diagnostics.probes"}, hasHandoff |-> TRUE,
     route |-> <<"env-probe">>, outputs |-> {"diagnostics.probes"},
     makes |-> {"diagnostics.probes"}, handoff |-> "market-probe"] @@ Plain

HedgePlanner ==
    [stage |-> "planner",
     triggers |-> {"risk", "hedge", "drawdown", "protect", "downside"},
     consumes |-> {"goal.intake", "trade.thesis", "portfolio.risk-profile", "market.snapshot"},
     produces |-> {"planning.proposals"}, hasHandoff |-> TRUE,
     route |-> <<"portfolio-xray", "market-scan", "trade-thesis", "hedge-planner">>,
     outputs |-> {"planning.proposals"}, makes |-> {"planning.proposals"},
     handoff |-> "scenario-sim"] @@ Plain

IdempotencyGate ==
    [stage |-> "executor", guards |-> TRUE, repeatable |-> TRUE,
     triggers |-> {"idempotency", "fingerprint", "duplicate", "reconcile"},
     consumes |-> {"execution.intent-bundle", "approval.ticket", "execution.apply-decision"},
     produces |-> {"execution.idempotency-check"}, hasHandoff |-> TRUE,
     route |-> <<"portfolio-xray", "market-scan", "trade-thesis", "hedge-planner", "scenario-sim", "policy-gate", "approval-gate", "agent-wallet", "official-executor", "idempotency-gate">>,
     outputs |-> {"execution.idempotency-check"},
     makes |-> {"execution.idempotency-check"}, handoff |-> "operator-summarizer"] @@ Plain

LiveGuard ==
    [stage |-> "executor", guards |-> TRUE, repeatable |-> TRUE,
     triggers |-> {"live", "guard", "execute", "confirmation", "approval"},
     consumes |-> {"goal.intake", "policy.plan-decision", "diagnostics.readiness"},
     produces |-> {"operations.live-guard"}, hasHandoff |-> TRUE,
     route |-> <<"portfolio-xray", "market-scan", "trade-thesis", "hedge-planner", "scenario-sim", "policy-gate", "live-guard">>,
     outputs |-> {"operations.live-guard"}, makes |-> {"operations.live-guard"},
     handoff |-> "idempotency-gate"] @@ Plain

\* Runs market-scan too.
MarketProbe ==
    [stage |-> "sensor", repeatable |-> TRUE,
     triggers |-> {"probe", "market", "rehearsal"},
     consumes |-> {"diagnostics.probes"},
     produces |-> {"diagnostics.probes", "market.snapshot", "market.regime"},
     hasHandoff |-> TRUE, route |-> <<"env-probe", "market-probe">>,
     outputs |-> {"diagnostics.probes", "market.snapshot", "market.regime"},
     makes |-> {"diagnostics.probes", "market.snapshot", "market.regime"},
     handoff |-> "account-probe"] @@ Plain

MarketScan ==
    [stage |-> "sensor", alwaysOn |-> TRUE,
     triggers |-> {"market", "funding", "volatility", "option"},
     consumes |-> {"portfolio.snapshot"},
     produces |-> {"market.snapshot", "market.regime"}, hasHandoff |-> TRUE,
     route |-> <<"portfolio-xray", "market-scan">>,
     outputs |-> {"market.snapshot", "market.regime"},
     makes |-> {"market.snapshot", "market.regime"}, handoff |-> "trade-thesis"] @@ Plain

MeshProver ==
    [stage |-> "memory", repeatable |-> TRUE,
     triggers |-> {"proof", "route", "certification", "replay", "export"},
     consumes |-> {"mesh.skill-certification"}, produces |-> {"mesh.route-proof"},
     route |-> <<"mesh-prover">>, outputs |-> {"mesh.route-proof"},
     makes |-> {"mesh.route-proof"}] @@ Plain

OfficialExecutor ==
    [stage |-> "executor", triggers |-> {"apply", "execute", "order"},
     consumes |-> {"planning.proposals", "policy.plan-decision", "trade.thesis", "identity.agent-wallet"},
     produces |-> {"execution.intent-bundle"}, hasHandoff |-> TRUE,
     route |-> <<"portfolio-xray", "market-scan", "trade-thesis", "hedge-planner", "scenario-sim", "policy-gate", "agent-wallet", "official-executor">>,
     outputs |-> {"execution.intent-bundle"},
     makes |-> {"execution.intent-bundle"}, handoff |-> "replay"] @@ Plain

OperatorSummarizer ==
    [stage |-> "memory", repeatable |-> TRUE,
     triggers |-> {"operator", "summary", "replay", "export"},
     consumes |-> {"goal.intake", "approval.ticket", "execution.idempotency-check", "execution.reconciliation", "operations.receipt-verification"},
     produces |-> {"report.operator-summary", "report.operator-brief", "report.business-brief"},
     hasHandoff |-> TRUE, route |-> <<"operator-summarizer">>,
     outputs |-> {"report.operator-summary", "report.operator-brief", "report.business-brief"},
     makes |-> {"report.operator-summary", "report.operator-brief", "report.business-brief"}] @@ Plain

\* Puts the proposals again, annotated: a key it does not declare.
PolicyGate ==
    [stage |-> "guardrail", guards |-> TRUE, alwaysOn |-> TRUE,
     triggers |-> {"policy", "approval", "demo", "live"},
     consumes |-> {"planning.proposals", "planning.scenario-matrix", "trade.thesis", "portfolio.snapshot", "portfolio.risk-profile"},
     produces |-> {"policy.plan-decision"}, hasHandoff |-> TRUE,
     route |-> <<"portfolio-xray", "market-scan", "trade-thesis", "hedge-planner", "scenario-sim", "policy-gate">>,
     outputs |-> {"planning.proposals", "policy.plan-decision"},
     makes |-> {"planning.proposals", "policy.plan-decision"},
     handoff |-> "official-executor"] @@ Plain

PortfolioXray ==
    [stage |-> "sensor", alwaysOn |-> TRUE,
     triggers |-> {"portfolio", "risk", "hedge", "drawdown"},
     produces |-> {"goal.intake", "portfolio.snapshot", "portfolio.risk-profile"},
     hasHandoff |-> TRUE, route |-> <<"portfolio-xray">>,
     outputs |-> {"goal.intake", "portfolio.snapshot", "portfolio.risk-profile"},
     makes |-> {"goal.intake", "portfolio.snapshot", "portfolio.risk-profile"},
     handoff |-> "market-scan"] @@ Plain

\* Throws without an executed record, and only an apply makes one.
ReceiptVerifier ==
    [stage |-> "executor", guards |-> TRUE, repeatable |-> TRUE,
     triggers |-> {"receipt", "verify", "verification", "reconcile", "demo-execute"},
     consumes |-> {"execution.intent-bundle"},
     produces |-> {"operations.receipt-verification"}, hasHandoff |-> TRUE,
     fromRun |-> TRUE, route |-> <<"receipt-verifier">>,
     outputs |-> {"operations.receipt-verification"},
     makes |-> {"operations.receipt-verification"},
     handoff |-> "operator-summarizer", fails |-> "always"] @@ Plain

\* Throws without an executed record.
ReconcileEngine ==
    [stage |-> "executor", guards |-> TRUE, repeatable |-> TRUE,
     triggers |-> {"reconcile", "settlement", "order-history"},
     consumes |-> {"execution.intent-bundle"},
     produces |-> {"execution.reconciliation"}, hasHandoff |-> TRUE,
     fromRun |-> TRUE, route |-> <<"reconcile-engine">>,
     outputs |-> {"execution.reconciliation"},
     makes |-> {"execution.reconciliation"}, handoff |-> "operator-summarizer",
     fails |-> "always"] @@ Plain

\* Throws off the demo plane and when a module is blocked.
RehearsalPlanner ==
    [stage |-> "planner", triggers |-> {"rehearsal", "drill", "preflight"},
     consumes |-> {"goal.intake", "portfolio.snapshot", "diagnostics.readiness", "market.regime"},
     produces |-> {"trade.thesis", "planning.proposals", "planning.scenario-matrix", "operations.rehearsal-plan"},
     hasHandoff |-> TRUE,
     route |-> <<"env-probe", "market-probe", "account-probe", "diagnosis-synthesizer", "rehearsal-planner">>,
     outputs |-> {"trade.thesis", "planning.proposals", "planning.scenario-matrix", "operations.rehearsal-plan"},
     makes |-> {"trade.thesis", "planning.proposals", "planning.scenario-matrix", "operations.rehearsal-plan"},
     handoff |-> "policy-gate", fails |-> "sometimes"] @@ Plain

\* Throws on a torn file of the run it reads.
Replayer ==
    [stage |-> "memory", triggers |-> {"replay", "trace", "audit"},
     fromRun |-> TRUE, route |-> <<"replay">>, fails |-> "sometimes"] @@ Plain

ScenarioSim ==
    [stage |-> "planner", alwaysOn |-> TRUE,
     triggers |-> {"scenario", "stress", "hedge"},
     consumes |-> {"planning.proposals", "trade.thesis", "portfolio.risk-profile"},
     produces |-> {"planning.proposals", "planning.scenario-matrix"},
     hasHandoff |-> TRUE,
     route |-> <<"portfolio-xray", "market-scan", "trade-thesis", "hedge-planner", "scenario-sim">>,
     outputs |-> {"planning.proposals", "planning.scenario-matrix"},
     makes |-> {"planning.proposals", "planning.scenario-matrix"},
     handoff |-> "policy-gate"] @@ Plain

TradeThesis ==
    [stage |-> "planner", alwaysOn |-> TRUE,
     triggers |-> {"hedge", "thesis", "doctrine", "risk"},
     consumes |-> {"portfolio.snapshot", "portfolio.risk-profile", "market.regime"},
     produces |-> {"trade.thesis"}, hasHandoff |-> TRUE,
     route |-> <<"portfolio-xray", "market-scan", "trade-thesis">>,
     outputs |-> {"trade.thesis"}, makes |-> {"trade.thesis"},
     handoff |-> "hedge-planner"] @@ Plain

\* In the order loadSkillRegistry sorts them.
Installed ==
    ("account-probe" :> AccountProbe
        @@ "agent-wallet" :> AgentWallet
        @@ "approval-gate" :> ApprovalGate
        @@ "diagnosis-synthesizer" :> DiagnosisSynthesizer
        @@ "env-probe" :> EnvProbe
        @@ "hedge-planner" :> HedgePlanner
        @@ "idempotency-gate" :> IdempotencyGate
        @@ "live-guard" :> LiveGuard
        @@ "market-probe" :> MarketProbe
        @@ "market-scan" :> MarketScan
        @@ "mesh-prover" :> MeshProver
        @@ "official-executor" :> OfficialExecutor
        @@ "operator-summarizer" :> OperatorSummarizer
        @@ "policy-gate" :> PolicyGate
        @@ "portfolio-xray" :> PortfolioXray
        @@ "receipt-verifier" :> ReceiptVerifier
        @@ "reconcile-engine" :> ReconcileEngine
        @@ "rehearsal-planner" :> RehearsalPlanner
        @@ "replay" :> Replayer
        @@ "scenario-sim" :> ScenarioSim
        @@ "trade-thesis" :> TradeThesis)

Sorted ==
    ("account-probe" :> 1
        @@ "agent-wallet" :> 2
        @@ "approval-gate" :> 3
        @@ "diagnosis-synthesizer" :> 4
        @@ "env-probe" :> 5
        @@ "hedge-planner" :> 6
        @@ "idempotency-gate" :> 7
        @@ "live-guard" :> 8
        @@ "market-probe" :> 9
        @@ "market-scan" :> 10
        @@ "mesh-prover" :> 11
        @@ "official-executor" :> 12
        @@ "operator-summarizer" :> 13
        @@ "policy-gate" :> 14
        @@ "portfolio-xray" :> 15
        @@ "receipt-verifier" :> 16
        @@ "reconcile-engine" :> 17
        @@ "rehearsal-planner" :> 18
        @@ "replay" :> 19
        @@ "scenario-sim" :> 20
        @@ "trade-thesis" :> 21)
================================================================================
