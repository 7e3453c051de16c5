------------------------------ MODULE Workflow ------------------------------
(***************************************************************************)
(* The jobs that run the pipeline: ingestion-cron.yml (worker.main, then   *)
(* the step that starts the next run) and backfill-rollup.yml, each in a   *)
(* concurrency group of its own with one running and one waiting job.      *)
(***************************************************************************)
EXTENDS Integers

CONSTANTS
  Tries,        \* attempts of a chain step, by workflow
  FillRuns      \* bound: runs the gap backfill needs

Flow == {"ingest", "backfill"}
ASSUME WorkflowAssumption == Tries \in [Flow -> Nat \ {0}] /\ FillRuns \in Nat

VARIABLES
  waits,      \* the group has a job waiting
  job,        \* the running job of each group: [at, failed, long, tries]
  fillLeft,   \* runs until the range is complete
  stopped     \* history: why the last job of each group left nothing waiting

wvars == <<waits, job, fillLeft, stopped>>

NoJob == [at |-> "none", failed |-> FALSE, long |-> FALSE, tries |-> 0]

\* The steps of worker.main after ingestion, in order.
Upkeep == <<"market", "holders", "venues", "socials">>
Places == {"none", "ingest", "discovery", "chain", "backoff"} \cup {Upkeep[i] : i \in DOMAIN Upkeep}
Reasons == {"", "asked", "cancelled", "early failure", "refused", "complete", "failed fill"}

WorkflowTypeOK ==
  /\ waits \in [Flow -> BOOLEAN]
  /\ job \in [Flow -> [at: Places, failed: BOOLEAN, long: BOOLEAN, tries: Nat]]
  /\ fillLeft \in 0..FillRuns
  /\ stopped \in [Flow -> Reasons]

WorkflowInit ==
  /\ waits = [f \in Flow |-> FALSE]
  /\ job = [f \in Flow |-> NoJob]
  /\ fillLeft = FillRuns
  /\ stopped = [f \in Flow |-> "asked"]

Goes(f, j) == job' = [job EXCEPT ![f] = j]
Ends(f, why) ==
  /\ Goes(f, NoJob)
  /\ stopped' = [stopped EXCEPT ![f] = why]

-----------------------------------------------------------------------------
(* GitHub: the best-effort schedule, the group and the timeout.              *)

\* A job that waits already is replaced: one waits at most.
Schedule ==
  /\ waits' = [waits EXCEPT !["ingest"] = TRUE]
  /\ UNCHANGED <<job, fillLeft, stopped>>

\* The backfill has no schedule: somebody starts it.
Dispatch ==
  /\ waits' = [waits EXCEPT !["backfill"] = TRUE]
  /\ UNCHANGED <<job, fillLeft, stopped>>

StartJob(f) ==
  /\ job[f].at = "none" /\ waits[f]
  /\ Goes(f, [NoJob EXCEPT !.at = "ingest"])
  /\ waits' = [waits EXCEPT ![f] = FALSE]
  /\ stopped' = [stopped EXCEPT ![f] = ""]
  /\ UNCHANGED fillLeft

\* timeout-minutes: the job is cancelled, which is neither success nor failure.
TimesOut(f) ==
  /\ job[f].at # "none"
  /\ Ends(f, "cancelled")
  /\ UNCHANGED <<waits, fillLeft>>

-----------------------------------------------------------------------------
(* worker.main.                                                              *)

IngestEnds ==
  /\ job["ingest"].at = "ingest"
  /\ \E failed, long \in BOOLEAN :
       Goes("ingest", [job["ingest"] EXCEPT !.at = "discovery", !.failed = failed, !.long = long])
  /\ UNCHANGED <<waits, fillLeft, stopped>>

\* After a failure: chained when the job had been going for ten minutes.
Red(j) == IF j.long THEN [j EXCEPT !.at = "backoff"] ELSE [j EXCEPT !.at = "none"]

\* Mutant: an exception of discovery ends the process.
DiscoveryEscapes(j) == {IF j.failed THEN Red(j) ELSE [j EXCEPT !.at = Upkeep[1]],
                        Red([j EXCEPT !.failed = TRUE])}

\* _run_discovery_safely: its exception is a warning; an ingestion failure is
\* raised again after it.
AfterDiscovery(j) == {IF j.failed THEN Red(j) ELSE [j EXCEPT !.at = Upkeep[1]]}

DiscoveryEnds ==
  /\ job["ingest"].at = "discovery"
  /\ \E j \in AfterDiscovery(job["ingest"]) :
       IF j.at = "none" THEN Ends("ingest", "early failure") ELSE Goes("ingest", j) /\ UNCHANGED stopped
  /\ UNCHANGED <<waits, fillLeft>>

\* The other refreshes: each may fail, none changes the result.
UpkeepEnds ==
  /\ \E i \in DOMAIN Upkeep :
       /\ job["ingest"].at = Upkeep[i]
       /\ Goes("ingest", [job["ingest"] EXCEPT
                            !.at = IF i + 1 \in DOMAIN Upkeep THEN Upkeep[i + 1] ELSE "chain"])
  /\ UNCHANGED <<waits, fillLeft, stopped>>

\* sleep 300, then the same loop.
BackoffEnds ==
  /\ job["ingest"].at = "backoff"
  /\ Goes("ingest", [job["ingest"] EXCEPT !.at = "chain"])
  /\ UNCHANGED <<waits, fillLeft, stopped>>

\* backfill_rollup.run: some of the range, all of it, or an exception.
FillEnds ==
  /\ job["backfill"].at = "ingest"
  /\ \/ /\ fillLeft > 1 /\ fillLeft' = fillLeft - 1
        /\ Goes("backfill", [job["backfill"] EXCEPT !.at = "chain"])
        /\ UNCHANGED stopped
     \/ /\ fillLeft <= 1 /\ fillLeft' = 0
        /\ Ends("backfill", "complete")
     \/ /\ Ends("backfill", "failed fill")
        /\ UNCHANGED fillLeft
  /\ UNCHANGED waits

-----------------------------------------------------------------------------
(* The chain steps.                                                          *)

\* Mutant: a refused dispatch is tried until it is accepted.
TriesLeftAlways(f) == job[f].tries >= 0

TriesLeft(f) == job[f].tries + 1 < Tries[f]

Chained(f) ==
  /\ job[f].at = "chain"
  /\ waits' = [waits EXCEPT ![f] = TRUE]
  /\ Ends(f, "")
  /\ UNCHANGED fillLeft

ChainRefused(f) ==
  /\ job[f].at = "chain"
  /\ IF TriesLeft(f)
     THEN Goes(f, [job[f] EXCEPT !.tries = (@ + 1) % Tries[f]]) /\ UNCHANGED stopped
     ELSE Ends(f, "refused")
  /\ UNCHANGED <<waits, fillLeft>>

WorkflowNext ==
  \/ Schedule \/ Dispatch
  \/ IngestEnds \/ DiscoveryEnds \/ UpkeepEnds \/ BackoffEnds \/ FillEnds
  \/ \E f \in Flow : StartJob(f) \/ TimesOut(f) \/ Chained(f) \/ ChainRefused(f)

\* The schedule fires again and again, however late; the steps of a job end, and
\* the service answers each request of a chain step one way or the other.
WorkflowSpec ==
  /\ WorkflowInit /\ [][WorkflowNext]_wvars
  /\ WF_wvars(Schedule) /\ \A f \in Flow : WF_wvars(StartJob(f))
  /\ WF_wvars(IngestEnds) /\ WF_wvars(DiscoveryEnds) /\ WF_wvars(UpkeepEnds)
  /\ WF_wvars(BackoffEnds) /\ WF_wvars(FillEnds)
  /\ \A f \in Flow : WF_wvars(Chained(f) \/ ChainRefused(f))

-----------------------------------------------------------------------------
(* Properties.                                                              *)

\* The chain of ingestion jobs breaks for a reason of its own: the timeout, a
\* service that refused every request, or an ingestion that failed in its first ten
\* minutes - never because discovery or a refresh failed.  (Action property.)
ChainBreaksForReason ==
  [][job["ingest"].at # "none" /\ job'["ingest"].at = "none" /\ ~waits'["ingest"] =>
       \/ stopped'["ingest"] \in {"cancelled", "refused"}
       \/ job["ingest"].failed /\ ~job["ingest"].long]_wvars

\* Ingestion runs again and again, although every single job may be cancelled.
RunsGoOn == []<>(job["ingest"].at = "ingest")

=============================================================================
