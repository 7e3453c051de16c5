------------------------------ MODULE Discovery ------------------------------
(***************************************************************************)
(* Discovery of projects: one ingestion job runs ingestion/discovery.py    *)
(* (seed, classify, promote) while admins work on the same rows through    *)
(* api/routes/admin.py and project owners submit contracts.                *)
(*                                                                         *)
(* Every database call is a step of its own: nothing here is a             *)
(* transaction, and no write checks that the row is still what was read.   *)
(* The ingestion workflow queues its jobs, so at most one discovery runs.  *)
(***************************************************************************)
EXTENDS Integers, FiniteSets

CONSTANTS
  Contract,    \* the addresses seen on chain or named by people
  Wallets,     \* those without bytecode
  Slug,        \* the names sources and people give to contracts
  Category,    \* the taxonomy (aggregate.SEGMENT_BY_CATEGORY)
  Says,        \* what the classification sources may say of a contract
  Curated,     \* the hand-seeded projects: a function from ids to projects
  Sub,         \* submissions that owners may make, and their contracts
  SubContract,
  Admin,       \* concurrent admin requests
  Followed,    \* contracts whose restoration is remembered
  None,        \* SQL null
  MaxFaults    \* bound: how many runs and requests fail half-way

\* A project's id is a slug, or the address when there is nothing better.
Ids == Slug \cup Contract
NoProject == [contracts |-> {}, category |-> None, seeded |-> FALSE]

Answer == [category: Category \cup {None}, symbol: Slug \cup {None},
           name: Slug \cup {None}, fake: BOOLEAN]
Silence == [category |-> None, symbol |-> None, name |-> None, fake |-> FALSE]

ASSUME DiscoveryAssumption ==
  /\ None \notin Slug \cup Contract \cup Category
  /\ Wallets \subseteq Contract
  /\ Says \in [Contract -> SUBSET Answer]
  /\ DOMAIN Curated \subseteq Slug
  /\ \A i \in DOMAIN Curated :
       Curated[i] \in [contracts: SUBSET Contract, category: Category \cup {None}, seeded: {TRUE}]
  /\ SubContract \in [Sub -> Contract] /\ Followed \subseteq Contract
  /\ MaxFaults \in Nat

VARIABLES
  row,       \* discovered_contracts
  project,   \* projects
  sub,       \* project_submissions.status
  disc,      \* the discovery run
  adm,       \* the admin requests in progress
  human,     \* history: contracts whose category a person has chosen
  restored,  \* history: followed, restored, and since then no person chose a category
  queued,    \* history: submissions whose review queued the contract
  byTool,    \* history: submissions that the command line has marked
  faults

vars == <<row, project, sub, disc, adm, human, restored, queued, byTool, faults>>

Row == [status: {"absent", "unclassified", "needs_review", "promoted", "rejected"},
        category: Category \cup {None}, symbol: Slug \cup {None}, name: Slug \cup {None},
        busy: BOOLEAN]   \* call_count >= CALL_COUNT_THRESHOLD

NoRow == [status |-> "absent", category |-> None, symbol |-> None, name |-> None,
          busy |-> FALSE]
NotReady == [id |-> None, category |-> None]
NoRun == [pc |-> "idle", todo |-> {}, ready |-> [c \in Contract |-> NotReady]]
NoRequest == [pc |-> "idle", contract |-> None, sub |-> None, decision |-> "none"]

TypeOK ==
  /\ row \in [Contract -> Row]
  /\ project \in [Ids -> [contracts: SUBSET Contract, category: Category \cup {None},
                          seeded: BOOLEAN]]
  /\ sub \in [Sub -> {"absent", "pending", "approved", "rejected"}]
  /\ disc \in [pc: {"idle", "organic", "trending", "read", "classify", "gather",
                    "promote", "mark"},
               todo: SUBSET Contract,
               ready: [Contract -> [id: Ids \cup {None}, category: Category \cup {None}]]]
  /\ \A c \in Contract : disc.ready[c] # NotReady => disc.ready[c].id # None
  /\ adm \in [Admin -> [pc: {"idle", "reject", "restore", "queue", "mark", "tool", "upsert"},
                        contract: Contract \cup {None}, sub: Sub \cup {None},
                        decision: {"none", "approve", "reject"}]]
  /\ human \subseteq Contract /\ restored \subseteq Contract
  /\ queued \subseteq Sub /\ byTool \subseteq Sub
  /\ faults \in 0..MaxFaults

\* Before wallets were looked for, the first batch of candidates left some in review.
OldWallet == [NoRow EXCEPT !.status = "needs_review", !.busy = TRUE]

Init ==
  /\ row \in {[c \in Contract |-> IF c \in old THEN OldWallet ELSE NoRow] : old \in SUBSET Wallets}
  /\ project = [i \in Ids |-> IF i \in DOMAIN Curated THEN Curated[i] ELSE NoProject]
  /\ sub = [s \in Sub |-> "absent"]
  /\ disc = NoRun
  /\ adm = [a \in Admin |-> NoRequest]
  /\ human = {} /\ restored = {} /\ queued = {} /\ byTool = {}
  /\ faults = 0

history == <<human, restored, queued, byTool>>
Mapped == UNION {project[i].contracts : i \in Ids}

-----------------------------------------------------------------------------
(* The discovery run.                                                       *)

Seed(c, busy) ==
  IF row[c].status = "absent" THEN [NoRow EXCEPT !.status = "unclassified", !.busy = busy]
                              ELSE [row[c] EXCEPT !.busy = busy]

StartRun ==
  /\ disc.pc = "idle"
  /\ disc' = [disc EXCEPT !.pc = "organic"]
  /\ UNCHANGED <<row, project, sub, adm, history, faults>>

\* upsert_unmapped_contracts: the unmapped contracts with some activity, each
\* with its count of the last days, which may be lower than the stored one.
SeedOrganic ==
  /\ disc.pc = "organic"
  /\ \E seen \in SUBSET (Contract \ Mapped) : \E busy \in SUBSET seen :
       row' = [c \in Contract |-> IF c \in seen THEN Seed(c, c \in busy) ELSE row[c]]
  /\ disc' = [disc EXCEPT !.pc = "trending"]
  /\ UNCHANGED <<project, sub, adm, history, faults>>

\* fetch_trending_pool_candidates: any contract, also one already tracked.
SeedTrending ==
  /\ disc.pc = "trending"
  /\ \E hot \in SUBSET Contract :
       row' = [c \in Contract |-> IF c \in hot THEN Seed(c, TRUE) ELSE row[c]]
  /\ disc' = [disc EXCEPT !.pc = "read"]
  /\ UNCHANGED <<project, sub, adm, history, faults>>

Waiting(c) == row[c].status = "unclassified" /\ row[c].busy

ReadCandidates ==
  /\ disc.pc = "read"
  /\ disc' = [disc EXCEPT !.pc = "classify", !.todo = {c \in Contract : Waiting(c)}]
  /\ UNCHANGED <<row, project, sub, adm, history, faults>>

\* Mutant: a look-alike of a known brand keeps the category its source gave.
FinalizeTrusting(a) == a

\* _finalize_classification
Finalize(a) == IF a.fake THEN [a EXCEPT !.category = None] ELSE a

\* Mutant: a contract no source knows stays unclassified.
ClassifiedStuck(c, a) ==
  IF a.category = None THEN row[c]
  ELSE [row[c] EXCEPT !.status = "needs_review", !.category = a.category,
                      !.symbol = a.symbol, !.name = a.name]

\* A checked candidate leaves 'unclassified' whether or not a source knew it.
Classified(c, a) ==
  [row[c] EXCEPT !.status = "needs_review", !.category = a.category,
                 !.symbol = a.symbol, !.name = a.name]

\* Mutant: wallets are not looked for.
ClassifyOneBlind(c) ==
  /\ disc.pc = "classify" /\ c \in disc.todo
  /\ \E a \in Says[c] \cup {Silence} : row' = [row EXCEPT ![c] = Classified(c, Finalize(a))]
  /\ disc' = [disc EXCEPT !.todo = @ \ {c}]
  /\ UNCHANGED <<project, sub, adm, history, faults>>

\* The row is written by its address alone, whatever it has become meanwhile.
ClassifyOne(c) ==
  /\ disc.pc = "classify" /\ c \in disc.todo
  /\ IF c \in Wallets
     THEN row' = [row EXCEPT ![c].status = "rejected"]
     ELSE \E a \in Says[c] \cup {Silence} : row' = [row EXCEPT ![c] = Classified(c, Finalize(a))]
  /\ disc' = [disc EXCEPT !.todo = @ \ {c}]
  /\ UNCHANGED <<project, sub, adm, history, faults>>

\* Mutant: a candidate with neither symbol nor name gets an empty id.
ProjectIdOrEmpty(c) ==
  CASE row[c].symbol # None -> row[c].symbol
    [] OTHER -> row[c].name

ProjectId(c) ==
  CASE row[c].symbol # None -> row[c].symbol
    [] row[c].symbol = None /\ row[c].name # None -> row[c].name
    [] OTHER -> c

Promotable(c) == row[c].status = "needs_review" /\ row[c].category # None

ReadReady ==
  /\ disc.pc = "classify" /\ disc.todo = {}
  /\ disc' = [disc EXCEPT !.pc = "promote", !.ready =
       [c \in Contract |-> IF Promotable(c) THEN [id |-> ProjectId(c), category |-> row[c].category]
                                            ELSE NotReady]]
  /\ UNCHANGED <<row, project, sub, adm, history, faults>>

\* Mutant: the upsert of before 2026-10-02.
CollidesNever(c, i) == FALSE

Collides(c, i) == project[i] # NoProject /\ c \notin project[i].contracts

\* The trigger on seeded projects, known from discovery.py and ops only.
Protected(c, p) == p.seeded /\ (p.contracts # {c} \/ p.category # disc.ready[c].category)

RejectCandidate(c) ==
  LET p == project[disc.ready[c].id] IN
  /\ disc.pc = "promote" /\ disc.ready[c] # NotReady
  /\ Collides(c, disc.ready[c].id) \/ Protected(c, p)
  /\ row' = [row EXCEPT ![c].status = "rejected"]
  /\ disc' = [disc EXCEPT !.ready[c] = NotReady]
  /\ UNCHANGED <<project, sub, adm, history, faults>>

Unopposed(c) ==
  /\ disc.pc = "promote" /\ disc.ready[c] # NotReady
  /\ ~Collides(c, disc.ready[c].id) /\ ~Protected(c, project[disc.ready[c].id])

With(c) ==
  [project EXCEPT ![disc.ready[c].id].contracts = {c},
                  ![disc.ready[c].id].category = disc.ready[c].category]

\* The project is written first, the candidate's row in a second call.
UpsertProject(c) ==
  /\ Unopposed(c)
  /\ project' = With(c)
  /\ disc' = [disc EXCEPT !.pc = "mark", !.todo = {c}]
  /\ UNCHANGED <<row, sub, adm, history, faults>>

MarkPromoted(c) ==
  /\ disc.pc = "mark" /\ c \in disc.todo
  /\ row' = [row EXCEPT ![c].status = "promoted"]
  /\ disc' = [disc EXCEPT !.pc = "promote", !.todo = {}, !.ready[c] = NotReady]
  /\ UNCHANGED <<project, sub, adm, history, faults>>

EndRun ==
  /\ disc.pc = "promote" /\ \A c \in Contract : disc.ready[c] = NotReady
  /\ disc' = NoRun
  /\ UNCHANGED <<row, project, sub, adm, history, faults>>

\* "except Exception": a lost call of the upsert rejects its candidate for good, whether
\* the project was written or not, and the run goes on.
UpsertFails(c) ==
  /\ Unopposed(c) /\ faults < MaxFaults
  /\ project' \in {project, With(c)}
  /\ row' = [row EXCEPT ![c].status = "rejected"]
  /\ disc' = [disc EXCEPT !.ready[c] = NotReady]
  /\ faults' = faults + 1
  /\ UNCHANGED <<sub, adm, history>>

\* Any other endpoint pool or database error ends the run where it is.
RunFails ==
  /\ disc.pc # "idle" /\ faults < MaxFaults
  /\ disc' = NoRun
  /\ faults' = faults + 1
  /\ UNCHANGED <<row, project, sub, adm, history>>

-----------------------------------------------------------------------------
(* Owners and admins.                                                       *)

Submit(s) ==
  /\ sub[s] = "absent"
  /\ sub' = [sub EXCEPT ![s] = "pending"]
  /\ UNCHANGED <<row, project, disc, adm, history, faults>>

\* _manual_classify: an existing row keeps its symbol and call count.
ManualClassify(c, category, name) ==
  /\ row' = [row EXCEPT ![c].status = "needs_review", ![c].category = category,
                        ![c].name = name]
  /\ human' = human \cup {c}
  /\ restored' = restored \ {c}

Classify(a, c, category, name) ==
  /\ adm[a].pc = "idle"
  /\ ManualClassify(c, category, name)
  /\ UNCHANGED <<project, sub, disc, adm, queued, byTool, faults>>

Dismissible(c) == row[c].status \notin {"absent", "promoted"}

\* The rows that reclassify_existing_eoas reads, those that turn out to be wallets.
Swept(c) == c \in Wallets /\ row[c].status = "needs_review" /\ row[c].category = None

\* reject_discovered, or the sweep for one of its rows: both write by the address what
\* they decided on a row read before, whatever it says by then.
BeginReject(a, c) ==
  /\ adm[a].pc = "idle" /\ (Dismissible(c) \/ Swept(c))
  /\ adm' = [adm EXCEPT ![a] = [NoRequest EXCEPT !.pc = "reject", !.contract = c]]
  /\ UNCHANGED <<row, project, sub, disc, history, faults>>

EndReject(a) ==
  /\ adm[a].pc = "reject"
  /\ row' = [row EXCEPT ![adm[a].contract].status = "rejected"]
  /\ adm' = [adm EXCEPT ![a] = NoRequest]
  /\ UNCHANGED <<project, sub, disc, history, faults>>

BeginRestore(a, c) ==
  /\ adm[a].pc = "idle"
  /\ row[c].status = "rejected"
  /\ adm' = [adm EXCEPT ![a] = [NoRequest EXCEPT !.pc = "restore", !.contract = c]]
  /\ UNCHANGED <<row, project, sub, disc, history, faults>>

EndRestore(a) ==
  /\ adm[a].pc = "restore"
  /\ row' = [row EXCEPT ![adm[a].contract].status = "unclassified"]
  /\ restored' = restored \cup ({adm[a].contract} \cap Followed)
  /\ adm' = [adm EXCEPT ![a] = NoRequest]
  /\ UNCHANGED <<project, sub, disc, human, queued, byTool, faults>>

\* Mutant: the order of before: the submission is marked, then queued.
AfterStepMarkFirst(pc, decision) ==
  CASE pc = "read" -> "mark"
    [] pc = "mark" /\ decision = "approve" -> "queue"
    [] OTHER -> "idle"

AfterStep(pc, decision) ==
  CASE pc = "read" /\ decision = "approve" -> "queue"
    [] pc = "read" /\ decision = "reject" -> "mark"
    [] pc = "queue" -> "mark"
    [] OTHER -> "idle"

Continue(a) ==
  LET next == AfterStep(adm[a].pc, adm[a].decision) IN
  adm' = [adm EXCEPT ![a] = IF next = "idle" THEN NoRequest ELSE [@ EXCEPT !.pc = next]]

\* review: everything is validated before anything is written.
BeginReview(a, s, decision) ==
  /\ adm[a].pc = "idle" /\ sub[s] = "pending"
  /\ adm' = [adm EXCEPT ![a] =
       [pc |-> AfterStep("read", decision), contract |-> SubContract[s], sub |-> s,
        decision |-> decision]]
  /\ UNCHANGED <<row, project, sub, disc, history, faults>>

\* category and name: the reviewer's, or the ones that were proposed.
QueueSubmission(a, category, name) ==
  /\ adm[a].pc = "queue"
  /\ ManualClassify(adm[a].contract, category, name)
  /\ queued' = queued \cup {adm[a].sub}
  /\ Continue(a)
  /\ UNCHANGED <<project, sub, disc, byTool, faults>>

MarkSubmission(a) ==
  /\ adm[a].pc = "mark"
  /\ sub' = [sub EXCEPT ![adm[a].sub] =
               IF adm[a].decision = "approve" THEN "approved" ELSE "rejected"]
  /\ Continue(a)
  /\ UNCHANGED <<row, project, disc, history, faults>>

\* admin_tools.review_submission, the command line: the submission is marked first,
\* whatever its status was; an approval then queues the contract.
ReviewByTool(a, s, decision) ==
  /\ adm[a].pc = "idle" /\ sub[s] # "absent"
  /\ sub' = [sub EXCEPT ![s] = IF decision = "approve" THEN "approved" ELSE "rejected"]
  /\ byTool' = byTool \cup {s}
  /\ adm' = IF decision = "reject" THEN adm
            ELSE [adm EXCEPT ![a] = [NoRequest EXCEPT !.pc = "tool", !.contract = SubContract[s]]]
  /\ UNCHANGED <<row, project, disc, human, restored, queued, faults>>

\* manual_classify of the command line asks for the row, then upserts it.
FindByTool(a) ==
  /\ adm[a].pc = "tool" /\ row[adm[a].contract].status = "absent"
  /\ adm' = [adm EXCEPT ![a].pc = "upsert"]
  /\ UNCHANGED <<row, project, sub, disc, history, faults>>

\* A row that discovery has made meanwhile loses its call count.
QueueByTool(a, category, name) ==
  LET c == adm[a].contract
  IN /\ adm[a].pc = "upsert"
     /\ row' = [row EXCEPT ![c].status = "needs_review", ![c].category = category,
                           ![c].name = name, ![c].busy = FALSE]
     /\ human' = human \cup {c} /\ restored' = restored \ {c}
     /\ adm' = [adm EXCEPT ![a] = NoRequest]
     /\ UNCHANGED <<project, sub, disc, queued, byTool, faults>>

\* Nobody proposed a category and none was given; or the contract has a row, and the
\* upsert is refused: it leaves out columns that may not be null.
QueueNothing(a) ==
  /\ adm[a].pc = "tool"
  /\ adm' = [adm EXCEPT ![a] = NoRequest]
  /\ UNCHANGED <<row, project, sub, disc, history, faults>>

RequestFails(a) ==
  /\ adm[a].pc # "idle" /\ faults < MaxFaults
  /\ adm' = [adm EXCEPT ![a] = NoRequest]
  /\ faults' = faults + 1
  /\ UNCHANGED <<row, project, sub, disc, history>>

-----------------------------------------------------------------------------

Run ==
  \/ StartRun \/ SeedOrganic \/ SeedTrending \/ ReadCandidates
  \/ (\E c \in Contract : ClassifyOne(c)) \/ ReadReady
  \/ (\E c \in Contract : RejectCandidate(c) \/ UpsertProject(c) \/ MarkPromoted(c))
  \/ EndRun

Request(a) ==
  \/ \E c \in Contract : BeginReject(a, c) \/ BeginRestore(a, c)
  \/ \E s \in Sub, decision \in {"approve", "reject"} :
       BeginReview(a, s, decision) \/ ReviewByTool(a, s, decision)
  \/ \E k \in Category, n \in Slug \cup {None} :
       (\E c \in Contract : Classify(a, c, k, n)) \/ QueueSubmission(a, k, n)
                                                     \/ QueueByTool(a, k, n)
  \/ FindByTool(a) \/ QueueNothing(a) \/ EndReject(a) \/ EndRestore(a) \/ MarkSubmission(a)

Next ==
  \/ Run \/ RunFails
  \/ \E c \in Contract : UpsertFails(c)
  \/ \E s \in Sub : Submit(s)
  \/ \E a \in Admin : Request(a) \/ RequestFails(a)

Spec == Init /\ [][Next]_vars

\* The ingestion job runs discovery after every ingestion, and a run that
\* does not fail gets through.
FairSpec == Spec /\ WF_vars(Run)

-----------------------------------------------------------------------------
(* Properties.                                                              *)

\* A project, once there, keeps its contracts: no candidate that reports the
\* same name takes its place, whatever was reclassified, renamed or restored
\* between the reading of the candidates and their promotion.
ProjectsKeepContracts ==
  [][\A i \in Ids : project[i] # NoProject => project'[i].contracts = project[i].contracts]_vars

Signal(c) == c \notin Wallets /\ \E a \in Says[c] : ~a.fake /\ a.category # None

\* A wallet, a contract no source knows, and a look-alike of a known brand
\* become a project only if at some time a person chose a category for it
\* (discovery.py:567-568, "can never auto-promote it").
NoSignalNeedsPerson ==
  \A i \in Ids \ DOMAIN Curated : \A c \in project[i].contracts : Signal(c) \/ c \in human

\* A submission that the API marks approved has had its contract queued for
\* promotion, although a request may fail after any of its writes.  The command
\* line gives no such promise: it marks first.
ApprovedWasQueued == \A s \in Sub : sub[s] = "approved" => s \in queued \cup byTool

\* Whatever is ready to be classified or promoted leaves its queue: the bug
\* of 2026-09-30 (a miss stayed 'unclassified' for ever) is gone, and a
\* collision does not leave its candidate stuck in needs_review.
QueuesDrain == \A c \in Contract : (Waiting(c) \/ Promotable(c)) ~> ~(Waiting(c) \/ Promotable(c))

\* "It never goes straight back to 'needs_review', so nothing is promoted
\* without someone choosing a category again", api/routes/admin.py:188-189: a
\* restored contract is not ready for promotion before a person has chosen a
\* category.  Fails: it is 'unclassified', which the next run classifies itself.
RestoredWaitsForPerson == \A c \in restored : ~Promotable(c)

=============================================================================
