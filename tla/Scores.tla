------------------------------- MODULE Scores -------------------------------
(***************************************************************************)
(* The scoring job (scoring/compute_scores.py, scoring.py, db.py, tvl.py)  *)
(* and the list of projects the API builds from its rows (api/db.py,       *)
(* api/aggregate.py, routes/projects.py).  The job has no concurrency      *)
(* group: a manual run may overlap a scheduled one.  Tables are read page  *)
(* by page in the order of a key while other jobs write to them.           *)
(***************************************************************************)
EXTENDS Queues, FiniteSets, SequencesExt, FiniteSetsExt

CONSTANTS
  Project,      \* projects, numbered in the order of their ids
  Defi,         \* those of the one segment that is scored
  Scorer,       \* scoring jobs at once
  Rows,         \* PAGE_SIZE
  Windows,      \* what a run may find of the projects: their metrics and ages
  TopUse,       \* bound: a metric is 0..TopUse
  AgeCap,       \* AGE_BONUS_CAP_DAYS
  Unit,         \* a quarter of the score 1: a multiple of AgeCap and of every 1..TopUse
  MaxScorings,  \* bound: scoring jobs in all
  MaxChanges    \* bound: projects promoted or retired

\* usdc_gas_7d, unique_users_7d and tvl_usd of a project, and its age in days, which
\* is negative for one created after "now".
Measure == {"gas", "users", "tvl"}
Found == [use: [Measure -> 0..TopUse], days: Int]

ASSUME ScoreAssumption ==
  /\ IsFiniteSet(Project) /\ Project = 1..Cardinality(Project) /\ Defi \subseteq Project
  /\ Rows \in Nat \ {0} /\ TopUse \in Nat /\ Unit \in Nat \ {0} /\ MaxScorings \in Nat /\ MaxChanges \in Nat
  /\ Windows \subseteq [Project -> Found]
  /\ AgeCap \in Nat \ {0} /\ Unit % AgeCap = 0 /\ \A n \in 1..TopUse : Unit % n = 0

VARIABLES
  projects,   \* ids in the table
  scores,     \* project_scores in the order the rows were inserted
  leaving,    \* projects whose scores retire_project has deleted, before their own row
  changes,    \* projects promoted or retired so far
  begun,      \* scoring jobs started so far; a job's number is its computed_at
  scorer,     \* the jobs: [at, now, read]
  load,       \* the list the API is building: [at, read, latest]
  owed        \* history: what the list under construction has to hold

svars == <<projects, scores, leaving, changes, begun, scorer, load, owed>>

NoScore == -1                      \* None: not applicable, never 0
Idle == [at |-> "idle", now |-> 0, read |-> <<>>]
NoLoad == [at |-> "idle", read |-> <<>>, latest |-> <<>>]
NoDue == [present |-> {}, since |-> [p \in Project |-> 0]]
ScoreRow == [project: Project, now: 1..MaxScorings, found: Found,
             score: {NoScore} \cup 0..(4 * Unit)]

ScoresTypeOK ==
  /\ projects \subseteq Project /\ leaving \subseteq projects
  /\ scores \in Seq(ScoreRow) /\ begun \in 0..MaxScorings /\ changes \in 0..MaxChanges
  /\ scorer \in [Scorer -> [at: {"idle", "stats", "projects", "metrics", "insert"},
                            now: 0..MaxScorings, read: Seq(Project)]]
  /\ load.at \in {"idle", "both", "projects", "scores", "join"}
  /\ load.read \in Seq(Project) /\ load.latest \in Seq(ScoreRow)
  /\ owed.present \subseteq Project /\ owed.since \in [Project -> 0..MaxScorings]

ScoresInit ==
  /\ projects \in SUBSET Project /\ scores = <<>> /\ leaving = {} /\ changes = 0 /\ begun = 0
  /\ scorer = [s \in Scorer |-> Idle]
  /\ load = NoLoad /\ owed = NoDue

-----------------------------------------------------------------------------
(* Tables and views.                                                         *)

\* Mutant: the row inserted last.
LastInserted(p) ==
  LET mine == SelectSeq(scores, LAMBDA r : r.project = p)
  IN IF mine = <<>> THEN {} ELSE {Last(mine)}

\* latest_project_scores: the row of a project with the greatest computed_at.
Latest(p) ==
  {r \in ToSet(scores) : r.project = p /\ \A q \in ToSet(scores) : q.project = p => q.now <= r.now}

At(p) == IF Latest(p) = {} THEN 0 ELSE Max({r.now : r \in Latest(p)})

\* _fetch_all_pages_keyset: the last page is the one that is not full.
IsLast(before, all) == Len(all) < Len(before) + Rows

Promote(p) ==
  /\ p \notin projects /\ changes < MaxChanges /\ changes' = changes + 1
  /\ projects' = projects \cup {p}
  /\ UNCHANGED <<scores, leaving, begun, scorer, load, owed>>

\* retire_project: the scores go first, then the project, and a row that was
\* inserted in between stops the second step on its foreign key.
RetireScores(p) ==
  /\ p \in projects \ leaving /\ changes < MaxChanges /\ changes' = changes + 1
  /\ scores' = Only(scores, {r \in ToSet(scores) : r.project # p})
  /\ leaving' = leaving \cup {p}
  /\ owed' = [present |-> owed.present \ {p}, since |-> [owed.since EXCEPT ![p] = 0]]
  /\ UNCHANGED <<projects, begun, scorer, load>>

RetireProject(p) ==
  /\ p \in leaving
  /\ leaving' = leaving \ {p}
  /\ projects' = IF Latest(p) = {} THEN projects \ {p} ELSE projects
  /\ UNCHANGED <<scores, changes, begun, scorer, load, owed>>

-----------------------------------------------------------------------------
(* compute_scores.run.                                                       *)

Step(s, j) == scorer' = [scorer EXCEPT ![s] = j]

StartScoring(s) ==
  /\ scorer[s].at = "idle" /\ begun < MaxScorings
  /\ begun' = begun + 1
  /\ Step(s, [at |-> "stats", now |-> begun + 1, read |-> <<>>])
  /\ UNCHANGED <<projects, scores, leaving, changes, load, owed>>

\* network_stats is written before anything else is known to work.
WriteStats(s) ==
  /\ scorer[s].at = "stats"
  /\ Step(s, [scorer[s] EXCEPT !.at = "projects"])
  /\ UNCHANGED <<projects, scores, leaving, changes, begun, load, owed>>

\* fetch_projects, one page; without projects there is nothing to score.
ReadProjects(s) ==
  /\ scorer[s].at = "projects"
  /\ LET before == scorer[s].read
         all == ReadOn(projects, before, Rows)
     IN Step(s, IF ~IsLast(before, all) THEN [scorer[s] EXCEPT !.read = all]
                ELSE IF all = <<>> THEN Idle
                ELSE [scorer[s] EXCEPT !.read = all, !.at = "insert"])
  /\ UNCHANGED <<projects, scores, leaving, changes, begun, load, owed>>

\* Anything the run asks for may fail: the statistics, a page, the window metrics
\* or their cap, the pool of endpoints, one balance of one contract.
ScoringFails(s) ==
  /\ scorer[s].at # "idle"
  /\ Step(s, Idle)
  /\ UNCHANGED <<projects, scores, leaving, changes, begun, load, owed>>

\* normalize: min-max, and 0 when every value is the same.
Normalized(v, all) ==
  IF all = {} \/ Min(all) = Max(all) THEN 0
  ELSE ((v - Min(all)) * Unit) \div (Max(all) - Min(all))

\* contract_age_bonus: a ramp, clamped at both ends.
AgeBonus(days) ==
  IF days < 0 THEN 0 ELSE IF days > AgeCap THEN Unit ELSE (days * Unit) \div AgeCap

\* Mutant: normalised against every project.
AllPeers(ids, w, k) == {w[p].use[k] : p \in ids}

Peers(ids, w, k) == {w[p].use[k] : p \in ids \cap Defi}

\* compute_score: the weights are equal, and the age bonus is not normalised.
Composite(p, ids, w) ==
  LET Part(k) == Normalized(w[p].use[k], Peers(ids, w, k))
  IN Part("gas") + Part("users") + Part("tvl") + AgeBonus(w[p].days)

\* compute_all_scores: a row for each project that was read, in their order.
RowsOf(ids, w, now) ==
  [i \in DOMAIN ids |->
     [project |-> ids[i], now |-> now, found |-> w[ids[i]],
      score |-> IF ids[i] \in Defi THEN Composite(ids[i], ToSet(ids), w) ELSE NoScore]]

\* One insert: a project deleted meanwhile fails all of it.
InsertScores(s) ==
  /\ scorer[s].at = "insert"
  /\ \E w \in Windows :
       scores' = IF ToSet(scorer[s].read) \subseteq projects
                 THEN scores \o RowsOf(scorer[s].read, w, scorer[s].now)
                 ELSE scores
  /\ Step(s, Idle)
  /\ UNCHANGED <<projects, leaving, changes, begun, load, owed>>

-----------------------------------------------------------------------------
(* load_project_summaries: two readers side by side, then the join.          *)

StartLoad ==
  /\ load.at = "idle"
  /\ load' = [NoLoad EXCEPT !.at = "both"]
  /\ owed' = [present |-> projects \ leaving, since |-> [p \in Project |-> At(p)]]
  /\ UNCHANGED <<projects, scores, leaving, changes, begun, scorer>>

\* Mutant: the list is built when the first reader is done.
FirstDone(done) == "join"

After(done) ==
  CASE load.at = "both" -> IF done = "projects" THEN "scores" ELSE "projects"
    [] OTHER -> "join"

LoadProjects ==
  /\ load.at \in {"both", "projects"}
  /\ LET all == ReadOn(projects, load.read, Rows)
     IN load' = [load EXCEPT !.read = all,
                             !.at = IF IsLast(load.read, all) THEN After("projects") ELSE @]
  /\ UNCHANGED <<projects, scores, leaving, changes, begun, scorer, owed>>

ProjectsOf(rows) == [i \in DOMAIN rows |-> rows[i].project]

\* The view has one row for each project, in the order of their ids.
LoadScores ==
  /\ load.at \in {"both", "scores"}
  /\ LET before == ProjectsOf(load.latest)
         all == ReadOn({r.project : r \in ToSet(scores)}, before, Rows)
         found == [i \in DOMAIN all |-> IF i \in DOMAIN before THEN load.latest[i]
                                       ELSE CHOOSE r \in Latest(all[i]) : TRUE]
     IN load' = [load EXCEPT !.latest = found,
                             !.at = IF IsLast(before, all) THEN After("scores") ELSE @]
  /\ UNCHANGED <<projects, scores, leaving, changes, begun, scorer, owed>>

\* build_all_summaries: one summary for each project, with its row if there is one.
Join ==
  /\ load.at = "join"
  /\ load' = NoLoad /\ owed' = NoDue
  /\ UNCHANGED <<projects, scores, leaving, changes, begun, scorer>>

\* A read that fails is the snapshot cache's affair: the list is not built.
LoadFails ==
  /\ load.at \notin {"idle", "join"}
  /\ load' = NoLoad /\ owed' = NoDue
  /\ UNCHANGED <<projects, scores, leaving, changes, begun, scorer>>

ScoresNext ==
  \/ \E p \in Project : Promote(p) \/ RetireScores(p) \/ RetireProject(p)
  \/ \E s \in Scorer : StartScoring(s) \/ WriteStats(s) \/ ReadProjects(s)
                       \/ InsertScores(s) \/ ScoringFails(s)
  \/ StartLoad \/ LoadProjects \/ LoadScores \/ Join \/ LoadFails

ScoresSpec == ScoresInit /\ [][ScoresNext]_svars

-----------------------------------------------------------------------------
(* Properties.                                                              *)

\* A project's score never goes back to an older run's, although the run that
\* started first may insert last.  (Action property; retiring a project ends it.)
ScoresMoveForward ==
  [][\A p \in Project : At(p) > 0 /\ p \notin leaving' => At(p)' >= At(p)]_svars

\* r is behind q in nothing that is measured, and is no younger.
NotBehind(r, q) ==
  (\A k \in Measure : q.found.use[k] <= r.found.use[k]) /\ q.found.days <= r.found.days

\* DeFi projects are measured against each other and nobody else, in every run: one that
\* is behind another in nothing scores no less, and more if it is ahead in something; the
\* last in everything has its age bonus alone, and the one that leads in everything has
\* all three quarters besides; projects of other segments have no score.  However the
\* table changed between two pages, no project is scored twice in a run.  (Action
\* property, about the rows a run inserts.)
ScoredAmongPeers ==
  [][LET rows == SubSeq(scores', Len(scores) + 1, Len(scores'))
         added == ToSet(rows)
         peers == {q \in added : q.project \in Defi}
     IN /\ \A i, j \in DOMAIN rows : i < j => rows[i].project # rows[j].project
        /\ \A r \in added \ peers : r.score = NoScore
        /\ \A r, q \in peers : NotBehind(r, q) =>
             /\ q.score <= r.score
             /\ (\E k \in Measure : q.found.use[k] < r.found.use[k]) => q.score < r.score
        /\ \A r \in peers :
             /\ (\A q \in peers, k \in Measure : r.found.use[k] <= q.found.use[k])
                  => r.score = AgeBonus(r.found.days)
             /\ (\A k \in Measure : /\ \A q \in peers : q.found.use[k] <= r.found.use[k]
                                    /\ \E q \in peers : q.found.use[k] < r.found.use[k])
                  => r.score = 3 * Unit + AgeBonus(r.found.days)]_svars

\* A list of projects is whole: who was there throughout the load is in it, with a
\* score at least as new as the one the project had when the load began; and nobody
\* is in it twice, although the pages were read while rows came and went.
ServedWhole ==
  load.at = "join" =>
    /\ \A i, j \in DOMAIN load.read : i < j => load.read[i] # load.read[j]
    /\ \A i, j \in DOMAIN load.latest : i < j => load.latest[i].project # load.latest[j].project
    /\ \A p \in owed.present :
         /\ p \in ToSet(load.read)
         /\ owed.since[p] > 0 =>
              \E r \in ToSet(load.latest) : r.project = p /\ r.now >= owed.since[p]

=============================================================================
