--------------------------- MODULE MCApplyDecision ---------------------------
(* Instances of ApplyDecision: a hedge of one swap worth 2, and a cover of two options
   worth 1 each; a setting in which everything passes, and one that refuses the hedge. *)
EXTENDS ApplyDecision, TLC

CONSTANTS hedge, cover, swap, put, call

MCLegsOf == (hedge :> {swap}) @@ (cover :> {put, call})
MCNotional == (swap :> 2) @@ (put :> 1) @@ (call :> 1)

Calm ==
    [discipline |-> "clear", tradable |-> {swap, put, call}, single |-> 2, total |-> 3,
     premium |-> 3, margin |-> 1, exposure |-> 9, gross |-> 6, balanceKnown |-> TRUE,
     available |-> 1, crowded |-> FALSE, credentials |-> TRUE]
\* In the second, the swap may not be traded and no balance is known.
MCSettings ==
    {Calm, [Calm EXCEPT !.tradable = {put, call}, !.discipline = "cooldown", !.balanceKnown = FALSE]}

Bare ==
    [cmd |-> "apply", plane |-> "same", proposal |-> NoProposal, execute |-> TRUE,
     approve |-> TRUE, approver |-> "named", confirm |-> FALSE, maxOrder |-> 0,
     maxTotal |-> 0, verify |-> FALSE]
Full == [Bare EXCEPT !.plane = "live", !.confirm = TRUE, !.maxOrder = 2, !.maxTotal = 3]
\* The last one is a dry run on demo.
MCApplies ==
    {Full,
     [Full EXCEPT !.plane = "same", !.proposal = cover, !.approver = "blank"],
     [Bare EXCEPT !.plane = "demo", !.execute = FALSE]}
DemoApplies == {[Bare EXCEPT !.verify = TRUE]}
MCRehearsals == {[cmd |-> "rehearse", execute |-> e, approve |-> a] : e, a \in BOOLEAN}

\* A bound on what runs at the same time: commands that execute and began before the run
\* had a record, and reconciles of its first record.  One at a time it bounds nothing.
Plain(r) == \A i \in DOMAIN r.executions : i = 1 /\ ~r.executions[i].retryable
Alongside(p) ==
    \/ pc[p] = "idle"
    \/ pc[p] \in {"reconcile", "reconciled", "saveArtifacts"} /\ options[p] = NoOptions
    \/ options[p] # NoOptions /\ options[p].execute /\ base[p].executions = << >>
Overlap ==
    \/ Cardinality({p \in Procs : pc[p] # "idle"}) <= 1
    \/ Plain(run) /\ \A p \in Procs : Plain(base[p]) /\ Alongside(p)

Symmetry == Permutations(Procs)
=============================================================================
