--------------------------- MODULE LaunchpadSeed ---------------------------
(***************************************************************************)
(* The script that turns known launch platforms into projects              *)
(* (ops/seed_launchpads.py).  It is started by hand, reads the projects    *)
(* page by page, plans, and then writes row by row without a transaction,  *)
(* so it may stop between any two writes; discovery promotes contracts and *)
(* scoring writes scores meanwhile.  The database refuses to change the    *)
(* contracts or the category of a seeded project (a trigger), and to       *)
(* delete a project that rows still refer to (foreign keys).               *)
(***************************************************************************)
EXTENDS Integers, Sequences, FiniteSets, FiniteSetsExt

CONSTANTS
  Address,     \* contracts
  IdOf,        \* the id discovery derives for each, a number: ids are read in their order
  Platforms,   \* PLATFORMS, a sequence: id, fixed token, who may claim its coin id, own contracts
  Listed,      \* TOKENS: contracts that are projects of their own
  Legacy,      \* projects that rows of gas_events, which nothing writes any more, may refer to
  NoAddress,   \* None
  SeedPage,    \* rows of a page
  MaxMoves     \* bound: contracts promoted and projects scored

NoId == 0
PlatformRow == [id: Nat \ {NoId}, token: Address \cup {NoAddress}, claimants: SUBSET Address, own: SUBSET Address]
SeedId == {IdOf[a] : a \in Address} \cup {Platforms[n].id : n \in DOMAIN Platforms}
Own == UNION {Platforms[n].own : n \in DOMAIN Platforms}
TokensOf(p) == (p.claimants \cup {p.token}) \ {NoAddress}

ASSUME SeedAssumption ==
  /\ IsFiniteSet(Address) /\ NoAddress \notin Address /\ IdOf \in [Address -> Nat \ {NoId}]
  /\ \A a, b \in Address : IdOf[a] = IdOf[b] => a = b
  /\ Platforms \in Seq(PlatformRow)
  /\ \A n, m \in DOMAIN Platforms :
       n # m => /\ Platforms[n].id # Platforms[m].id
                /\ Platforms[n].own \cap Platforms[m].own = {}
                /\ TokensOf(Platforms[n]) \cap TokensOf(Platforms[m]) = {}
                /\ \A a \in Platforms[n].own \cup TokensOf(Platforms[n]) : IdOf[a] # Platforms[m].id
  /\ \A n \in DOMAIN Platforms : TokensOf(Platforms[n]) \cap Own = {}
  /\ Listed \subseteq Address
  /\ \A n \in DOMAIN Platforms : /\ Listed \cap (Own \cup TokensOf(Platforms[n])) = {}
                                 /\ \A a \in Listed : IdOf[a] # Platforms[n].id
  /\ Legacy \subseteq SeedId /\ SeedPage \in Nat \ {0} /\ MaxMoves \in Nat

VARIABLES
  table,      \* projects: [category, seeded, contracts] by id
  rows,       \* what refers to a project: <<"ledger" | "events" | "scores", id>>
  promoted,   \* contracts discovery has made projects of
  moves,      \* contracts promoted and projects scored so far
  script,     \* the script: what it does next, and to which project; the projects it has
              \* read, those it has yet to mark, its plan and the platform it is at
  had,        \* history: contracts that have had a project
  asked       \* history: the coin index of the run that last deleted a platform's stub

lvars == <<table, rows, promoted, moves, script, had, asked>>
allButScript == <<table, rows, promoted, moves, had, asked>>

ProjectRow == [category: {"other", "launchpad"}, seeded: BOOLEAN, contracts: SUBSET Address]
PlanItem == [id: SeedId, new: BOOLEAN, due: BOOLEAN, contracts: SUBSET Address, retire: SUBSET SeedId]

SeedTypeOK ==
  /\ DOMAIN table \subseteq SeedId /\ \A i \in DOMAIN table : table[i] \in ProjectRow
  /\ rows \subseteq {"ledger", "events", "scores"} \X SeedId
  /\ promoted \subseteq Address /\ had \subseteq Address /\ moves \in 0..MaxMoves
  /\ script.at \in {"idle", "read", "plan", "mark", "marked", "platform", "insert", "retire",
                    "events", "scores", "delete", "update", "seed"}
  /\ script.id \in SeedId \cup {NoId} /\ script.marks \subseteq SeedId
  /\ DOMAIN script.seen \subseteq SeedId
  /\ \A i \in DOMAIN script.seen : script.seen[i] \in ProjectRow
  /\ script.plan \in Seq(PlanItem) /\ script.turn \in Nat \ {0} /\ script.coins \subseteq Address
  /\ asked \in [DOMAIN Platforms -> SUBSET Address]

Asleep == [at |-> "idle", id |-> NoId, seen |-> [i \in {} |-> NoId], marks |-> {}, coins |-> {},
           plan |-> <<>>, turn |-> 1]
Found(a) == [category |-> "other", seeded |-> FALSE, contracts |-> {a}]
LedgerRows(ids) == {<<"ledger", i>> : i \in ids}

\* Projects of one contract, as discovery makes them, some of them curated since.
SeedInit ==
  /\ promoted \in SUBSET Address /\ had = promoted /\ moves = 0
  /\ \E curated \in SUBSET promoted :
       table = [i \in {IdOf[a] : a \in promoted} |->
                 LET a == CHOOSE b \in promoted : IdOf[b] = i
                 IN [Found(a) EXCEPT !.seeded = a \in curated]]
  /\ \E legacy \in SUBSET (Legacy \cap DOMAIN table) :
       rows = LedgerRows(DOMAIN table) \cup {<<"events", i>> : i \in legacy}
  /\ script = Asleep /\ asked = [n \in DOMAIN Platforms |-> {}]

-----------------------------------------------------------------------------
(* Meanwhile.                                                                *)

\* Discovery promotes a contract of a name that is not taken.
PromoteContract(a) ==
  /\ a \notin promoted /\ IdOf[a] \notin DOMAIN table
  /\ moves < MaxMoves /\ moves' = moves + 1
  /\ promoted' = promoted \cup {a} /\ had' = had \cup {a}
  /\ table' = [i \in DOMAIN table \cup {IdOf[a]} |-> IF i = IdOf[a] THEN Found(a) ELSE table[i]]
  /\ rows' = rows \cup LedgerRows({IdOf[a]})
  /\ UNCHANGED <<script, asked>>

ScoreProject(i) ==
  /\ i \in DOMAIN table
  /\ moves < MaxMoves /\ moves' = moves + 1
  /\ rows' = rows \cup {<<"scores", i>>}
  /\ UNCHANGED <<table, promoted, script, had, asked>>

-----------------------------------------------------------------------------
(* The plan.                                                                 *)

\* The project of a contract: the last one read that lists it.
IndexOf(projs, a) ==
  LET holders == {i \in DOMAIN projs : a \in projs[i].contracts}
  IN IF holders = {} THEN NoId ELSE Max(holders)

\* Which of the contracts that may do so claim a coin id when they are looked up.
CoinIndex == SUBSET UNION {Platforms[n].claimants : n \in DOMAIN Platforms}

\* A fixed token wins; a coin id counts when exactly one contract claims it.
ResolveToken(p, coins) ==
  LET found == p.claimants \cap coins
  IN IF p.token # NoAddress THEN p.token
     ELSE IF Cardinality(found) = 1 THEN CHOOSE a \in found : TRUE
     ELSE NoAddress

MainOf(p, coin, projs) ==
  IF coin # NoAddress THEN IndexOf(projs, coin)
  ELSE IF p.id \in DOMAIN projs THEN p.id ELSE NoId

\* A project discovery made of contracts of the platform, and of nothing else.
IsStub(p, projs, i) == ~projs[i].seeded /\ projs[i].contracts \subseteq p.own

\* What other projects have is merged when they are stubs, and left out otherwise.
PlanPlatform(p, projs, coins) ==
  LET coin == ResolveToken(p, coins)
      main == MainOf(p, coin, projs)
      elsewhere == {a \in p.own : IndexOf(projs, a) \notin {NoId, main}}
      merged == {a \in elsewhere : IsStub(p, projs, IndexOf(projs, a))}
      tracked == {a \in {coin} \ {NoAddress} : IndexOf(projs, a) # NoId}
  IN [id |-> IF main = NoId THEN p.id ELSE main,
      new |-> main = NoId,
      due |-> main # NoId => ~projs[main].seeded,
      contracts |-> tracked \cup (p.own \ elsewhere) \cup merged,
      retire |-> {IndexOf(projs, a) : a \in merged}]

TokensToMark(projs) ==
  {IndexOf(projs, a) : a \in {b \in Listed : IndexOf(projs, b) # NoId /\ ~projs[IndexOf(projs, b)].seeded}}

GoesTo(at) == script' = [script EXCEPT !.at = at]
Item == script.plan[script.turn]

\* Every address has code on the right chain, or the script refuses to go on.
StartSeeding ==
  /\ script.at = "idle" /\ GoesTo("read")
  /\ UNCHANGED allButScript

\* fetch_projects, one page.
ReadProjectPage ==
  /\ script.at = "read"
  /\ LET Beyond(k) == \A j \in DOMAIN script.seen : j < k
         page == {i \in DOMAIN table :
                    Beyond(i) /\ Cardinality({k \in DOMAIN table : k <= i /\ Beyond(k)}) <= SeedPage}
     IN script' = [script EXCEPT
          !.seen = [i \in DOMAIN script.seen \cup page |-> IF i \in page THEN table[i] ELSE script.seen[i]],
          !.at = IF Cardinality(page) < SeedPage THEN "plan" ELSE @]
  /\ UNCHANGED allButScript

\* build_plan, from the coin index of the moment; a preview ends here.
BuildPlan ==
  /\ script.at = "plan"
  /\ \E coins \in CoinIndex :
       script' \in {Asleep,
         [Asleep EXCEPT !.at = "mark", !.marks = TokensToMark(script.seen), !.coins = coins,
           !.plan = [n \in DOMAIN Platforms |-> PlanPlatform(Platforms[n], script.seen, coins)]]}
  /\ UNCHANGED allButScript

-----------------------------------------------------------------------------
(* The writes.                                                               *)

\* The trigger: nobody changes the category or the contracts of a seeded project.
TriggerRefuses(i, row) ==
  /\ i \in DOMAIN table /\ table[i].seeded
  /\ row.category # table[i].category \/ row.contracts # table[i].contracts

\* An update of a row, and what the script does after it: what the trigger refuses stops it.
Update(i, row, next) ==
  IF TriggerRefuses(i, row) THEN script' = Asleep /\ UNCHANGED <<table, had>>
  ELSE /\ script' = next
       /\ table' = [j \in DOMAIN table |-> IF j = i THEN row ELSE table[j]]
       /\ had' = IF i \in DOMAIN table THEN had \cup row.contracts ELSE had

\* The row an update starts from; without one it changes nothing.
RowOf(i) == IF i \in DOMAIN table THEN table[i] ELSE [Found(NoAddress) EXCEPT !.contracts = {}]

\* execute: a token's project becomes a launchpad, and seeded by a second update.
MarkToken(i) ==
  /\ script.at = "mark" /\ i \in script.marks
  /\ Update(i, [RowOf(i) EXCEPT !.category = "launchpad"],
            [script EXCEPT !.at = "marked", !.id = i, !.marks = @ \ {i}])
  /\ UNCHANGED <<rows, promoted, moves, asked>>

SeedToken ==
  /\ script.at = "marked"
  /\ Update(script.id, [RowOf(script.id) EXCEPT !.seeded = TRUE], [script EXCEPT !.at = "mark"])
  /\ UNCHANGED <<rows, promoted, moves, asked>>

TokensMarked ==
  /\ script.at = "mark" /\ script.marks = {} /\ GoesTo("platform")
  /\ UNCHANGED allButScript

\* What is done or hand-seeded is left alone; after the last platform the script ends.
NextPlatform ==
  /\ script.at = "platform"
  /\ script' = IF script.turn > Len(script.plan) THEN Asleep
               ELSE IF ~Item.due THEN [script EXCEPT !.turn = @ + 1]
               ELSE [script EXCEPT !.at = IF Item.new THEN "insert" ELSE "retire"]
  /\ UNCHANGED allButScript

\* A new project is seeded at once; an id that is taken stops the script.
InsertPlatform ==
  /\ script.at = "insert"
  /\ IF Item.id \in DOMAIN table THEN script' = Asleep /\ UNCHANGED <<table, had>>
     ELSE /\ GoesTo("retire") /\ had' = had \cup Item.contracts
          /\ table' = [i \in DOMAIN table \cup {Item.id} |->
                        IF i = Item.id THEN [category |-> "launchpad", seeded |-> TRUE,
                                             contracts |-> Item.contracts]
                        ELSE table[i]]
  /\ UNCHANGED <<rows, promoted, moves, asked>>

\* Rows of one kind that refer to a project, pointed at another.
Repointed(kind, old, into) ==
  IF <<kind, old>> \in rows THEN (rows \ {<<kind, old>>}) \cup {<<kind, into>>} ELSE rows

\* retire_project, for the stubs one after another: the ledger first.
RepointLedger(old) ==
  /\ script.at = "retire" /\ old \in Item.retire
  /\ rows' = Repointed("ledger", old, Item.id)
  /\ script' = [script EXCEPT !.at = "events", !.id = old, !.plan[script.turn].retire = @ \ {old}]
  /\ UNCHANGED <<table, promoted, moves, had, asked>>

\* The legacy table may fail; the script goes on.
RepointEvents ==
  /\ script.at = "events" /\ GoesTo("scores")
  /\ rows' \in {rows, Repointed("events", script.id, Item.id)}
  /\ UNCHANGED <<table, promoted, moves, had, asked>>

DropScores ==
  /\ script.at = "scores" /\ GoesTo("delete")
  /\ rows' = rows \ {<<"scores", script.id>>}
  /\ UNCHANGED <<table, promoted, moves, had, asked>>

\* What still refers to the stub stops the script.
DeleteStub ==
  /\ script.at = "delete"
  /\ IF \E r \in rows : r[2] = script.id THEN script' = Asleep /\ UNCHANGED <<table, asked>>
     ELSE /\ GoesTo("retire") /\ table' = [i \in DOMAIN table \ {script.id} |-> table[i]]
          /\ asked' = [asked EXCEPT ![script.turn] = script.coins]
  /\ UNCHANGED <<rows, promoted, moves, had>>

StubsRetired ==
  /\ script.at = "retire" /\ Item.retire = {}
  /\ script' = IF Item.new THEN [script EXCEPT !.at = "platform", !.turn = @ + 1]
               ELSE [script EXCEPT !.at = "update"]
  /\ UNCHANGED allButScript

\* Mutant: the flag comes first.
SeedBeforeUpdate ==
  /\ script.at = "update"
  /\ Update(Item.id, [RowOf(Item.id) EXCEPT !.category = "launchpad", !.seeded = TRUE], [script EXCEPT !.at = "seed"])
  /\ UNCHANGED <<rows, promoted, moves, asked>>

UpdatePlatform ==
  /\ script.at = "update"
  /\ Update(Item.id, [RowOf(Item.id) EXCEPT !.category = "launchpad", !.contracts = Item.contracts],
            [script EXCEPT !.at = "seed"])
  /\ UNCHANGED <<rows, promoted, moves, asked>>

SeedPlatform ==
  /\ script.at = "seed"
  /\ Update(Item.id, [RowOf(Item.id) EXCEPT !.seeded = TRUE],
            [script EXCEPT !.at = "platform", !.turn = @ + 1])
  /\ UNCHANGED <<rows, promoted, moves, asked>>

\* It is interrupted, or a call fails.
SeedingStops ==
  /\ script.at # "idle" /\ script' = Asleep
  /\ UNCHANGED allButScript

SeedNext ==
  \/ \E a \in Address : PromoteContract(a)
  \/ \E i \in SeedId : ScoreProject(i) \/ MarkToken(i) \/ RepointLedger(i)
  \/ StartSeeding \/ ReadProjectPage \/ BuildPlan \/ SeedToken \/ TokensMarked \/ NextPlatform
  \/ InsertPlatform \/ RepointEvents \/ DropScores \/ DeleteStub \/ StubsRetired
  \/ UpdatePlatform \/ SeedPlatform \/ SeedingStops

SeedSpec == SeedInit /\ [][SeedNext]_lvars

-----------------------------------------------------------------------------
(* Properties.                                                              *)

\* The projects that list a contract.
HoldersOf(a) == {i \in DOMAIN table : a \in table[i].contracts}

\* A platform's contract that has had a project has one still, wherever the script
\* stopped; or else the platform's project is there and not seeded, and a run that finds
\* the coin index as it was plans to give it the contract.
NothingLost ==
  \A n \in DOMAIN Platforms : \A a \in Platforms[n].own \cap had :
    HoldersOf(a) = {} =>
      LET item == PlanPlatform(Platforms[n], table, asked[n])
      IN item.due /\ ~item.new /\ a \in item.contracts

=============================================================================
