----------------------------- MODULE MCSkillRuns -----------------------------
(***************************************************************************)
(* SkillRuns over the skills the repository installs.                      *)
(***************************************************************************)
EXTENDS SkillRuns, SkillRegistry

\* A hedge that also asks for the wallet, one that the probes block, one that spins.
MCGoals == {{"hedge", "wallet"}, {"hedge", "market"}, {"rehearsal"}}

\* A whole route, one whose last skill puts nothing, one that may throw.
MCStandalone == {"official-executor", "approval-gate", "replay"}

\* The theorems ResumePointsHold and RedundantStepsAreUseless are about these skills too.
ASSUME InstalledRoutesAreWhole == RoutesAreWhole
ASSUME InstalledGuardsAreFed == GuardsAreFed
================================================================================
