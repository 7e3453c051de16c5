------------------------------ MODULE MCUpkeep ------------------------------
(***************************************************************************)
(* The jobs around the rollup, and what reads their tables, in one run:    *)
(* BlockFetch, Refresh, Venues, Workflow, Scores and Freshness.  They      *)
(* share no state in the models, so their product would only repeat the    *)
(* states of each: "part" says which of them is at work and the others     *)
(* stay as they began.                                                     *)
(***************************************************************************)
EXTENDS BlockFetch, Refresh, Venues, Workflow, Scores, Freshness

VARIABLE part

allVars == <<part, fvars, rvars, nvars, wvars, svars, dvars>>

\* The components that are not at work begin in one state each.
AtRest ==
  /\ part # "refresh" => source = "holders" /\ reply = [t \in Target |-> "found"]
  /\ part # "venues" => volume = [p \in Pool |-> 0]
  /\ part # "scores" => projects = {}

UpkeepInit ==
  /\ part \in {"fetch", "refresh", "venues", "workflow", "scores", "reads"}
  /\ FetchInit /\ RefreshInit /\ VenuesInit /\ WorkflowInit /\ ScoresInit /\ FreshnessInit
  /\ AtRest

UpkeepNext ==
  \/ part = "fetch" /\ FetchNext /\ UNCHANGED <<part, rvars, nvars, wvars, svars, dvars>>
  \/ part = "refresh" /\ RefreshNext /\ UNCHANGED <<part, fvars, nvars, wvars, svars, dvars>>
  \/ part = "venues" /\ VenuesNext /\ UNCHANGED <<part, fvars, rvars, wvars, svars, dvars>>
  \/ part = "workflow" /\ WorkflowNext /\ UNCHANGED <<part, fvars, rvars, nvars, svars, dvars>>
  \/ part = "scores" /\ ScoresNext /\ UNCHANGED <<part, fvars, rvars, nvars, wvars, dvars>>
  \/ part = "reads" /\ FreshnessNext /\ UNCHANGED <<part, fvars, rvars, nvars, wvars, svars>>

WorkflowAtWork(A) ==
  part = "workflow" /\ A /\ UNCHANGED <<part, fvars, rvars, nvars, svars, dvars>>

\* The fairness of Refresh and of Workflow, each while it is at work.
UpkeepSpec ==
  /\ UpkeepInit /\ [][UpkeepNext]_allVars
  /\ WF_allVars(part = "refresh" /\ RefreshStep
                /\ UNCHANGED <<part, fvars, nvars, wvars, svars, dvars>>)
  /\ WF_allVars(WorkflowAtWork(Schedule)) /\ WF_allVars(WorkflowAtWork(IngestEnds))
  /\ WF_allVars(WorkflowAtWork(DiscoveryEnds)) /\ WF_allVars(WorkflowAtWork(UpkeepEnds))
  /\ WF_allVars(WorkflowAtWork(BackoffEnds)) /\ WF_allVars(WorkflowAtWork(FillEnds))
  /\ \A f \in Flow : /\ WF_allVars(WorkflowAtWork(StartJob(f)))
                     /\ WF_allVars(WorkflowAtWork(Chained(f) \/ ChainRefused(f)))

-----------------------------------------------------------------------------
(* Values of the constants.                                                  *)

Tx(to, from, failed, moves) == [to |-> to, from |-> from, failed |-> failed, moves |-> moves]

\* A mint, a creation without a sender, a tracked token, a call to the sentinel.
SomeTxs ==
  [b \in Job |->
    IF b = 1 THEN <<Tx("c1", "a1", FALSE, <<"usdc", "mint">>), Tx(Creation, NoSender, TRUE, <<>>)>>
    ELSE <<Tx("c1", "a1", TRUE, <<"eurc", "other">>), Tx(Sentinel, "a2", FALSE, <<"native">>)>>]
TwoDays == [b \in Job |-> b - 1]
TwoVenues == [p \in Pool |-> IF p = 4 THEN 2 ELSE 1]
\* Four projects, the third of them no DeFi one: spread out, tied but for one, an age each.
Has(gas, users, tvl, days) ==
  [use |-> [k \in Measure |-> CASE k = "gas" -> gas [] k = "users" -> users [] OTHER -> tvl],
   days |-> days]
SomeWindows ==
  {<<Has(0, 0, 1, 3), Has(1, 0, 1, 1), Has(2, 2, 0, 0), Has(1, 2, 2, 1)>>,
   <<Has(1, 1, 1, -1), Has(1, 1, 1, 2), Has(0, 0, 2, 1), Has(1, 1, 0, 2)>>}
ThreeAndFour == [f \in Flow |-> IF f = "ingest" THEN 3 ELSE 4]

-----------------------------------------------------------------------------
(* Their liveness properties, each where it is at work.                      *)

\* Refresh.EveryTurnComes: no due target is starved by the others.
TurnsCome == part = "refresh" => EveryTurnComes

\* Workflow.RunsGoOn: ingestion jobs go on for ever.
JobsGoOn == part = "workflow" => RunsGoOn

=============================================================================
