--------------------------- MODULE DiscoveryProofs ---------------------------
(***************************************************************************)
(* Proofs about Discovery, for any contracts, names, categories, sources   *)
(* and any number of admin requests at once, and about the script that     *)
(* makes projects of launch platforms.                                     *)
(*                                                                         *)
(* A category gets into a row from a source or from a person only; the     *)
(* list of candidates copies it from the row, the project from the list.   *)
(* No write checks what the row has become, so the argument is about every *)
(* copy by itself and not about their agreement.                           *)
(***************************************************************************)
EXTENDS Discovery, LaunchpadSeed, QueueProofs, FiniteSetTheorems, TLAPS

-----------------------------------------------------------------------------
(* Types.                                                                    *)

RunState == [pc: {"idle", "organic", "trending", "read", "classify", "gather", "promote", "mark"},
         todo: SUBSET Contract,
         ready: [Contract -> [id: Ids \cup {None}, category: Category \cup {None}]]]
RequestState == [pc: {"idle", "reject", "restore", "queue", "mark", "tool", "upsert"},
             contract: Contract \cup {None}, sub: Sub \cup {None},
             decision: {"none", "approve", "reject"}]
ProjectState == [contracts: SUBSET Contract, category: Category \cup {None}, seeded: BOOLEAN]

\* A request that goes on knows its contract, one that reviews its submission too.
Knows ==
  \A a \in Admin :
    /\ adm[a].pc # "idle" => adm[a].contract \in Contract
    /\ adm[a].pc \in {"queue", "mark"} => adm[a].sub \in Sub

Types ==
  /\ row \in [Contract -> Row] /\ project \in [Ids -> ProjectState]
  /\ sub \in [Sub -> {"absent", "pending", "approved", "rejected"}]
  /\ disc \in RunState /\ \A c \in Contract : disc.ready[c] # NotReady => disc.ready[c].id # None
  /\ adm \in [Admin -> RequestState] /\ Knows
  /\ human \subseteq Contract /\ restored \subseteq Contract
  /\ queued \subseteq Sub /\ byTool \subseteq Sub /\ faults \in 0..MaxFaults

\* The states that are named in the module have their types.
LEMMA NamedStates ==
  /\ NoRow \in Row /\ OldWallet \in Row /\ NoRow.category = None /\ OldWallet.category = None
  /\ NoRun \in RunState /\ NoRun.pc = "idle" /\ NoRun.todo = {}
  /\ NoRun.ready = [c \in Contract |-> NotReady] /\ NotReady.id = None
  /\ NoRequest \in RequestState /\ NoRequest.pc = "idle"
  /\ NoProject \in ProjectState /\ None \notin Ids
  /\ \A i \in DOMAIN Curated : Curated[i] \in ProjectState /\ Curated[i].seeded
  BY DiscoveryAssumption DEF NoRow, OldWallet, Row, NoRun, RunState, NotReady, NoRequest, RequestState,
     NoProject, ProjectState, Ids

\* Initially every variable has its type.
LEMMA InitTypes == Init => Types
<1> SUFFICES ASSUME Init PROVE Types
  OBVIOUS
<1>1. row \in [Contract -> Row]
  BY NamedStates DEF Init
<1>2. project \in [Ids -> ProjectState]
  BY NamedStates DEF Init
<1>3. disc \in RunState /\ \A c \in Contract : disc.ready[c] = NotReady
  BY NamedStates DEF Init
<1>4. adm \in [Admin -> RequestState] /\ \A a \in Admin : adm[a] = NoRequest
  BY NamedStates DEF Init
<1> QED
  BY <1>1, <1>2, <1>3, <1>4, NamedStates, DiscoveryAssumption
  DEF Init, Types, Knows

\* A row keeps its type when what is written into it has the right type.
LEMMA RowWritten ==
  ASSUME NEW r \in Row, NEW k \in Category \cup {None}, NEW y \in Slug \cup {None},
         NEW n \in Slug \cup {None}
  PROVE  [r EXCEPT !.status = "needs_review", !.category = k, !.symbol = y, !.name = n] \in Row
  BY DEF Row

\* A step of the discovery run keeps the types.
LEMMA RunTypes ==
  ASSUME Types, Run \/ RunFails \/ \E c \in Contract : UpsertFails(c)
  PROVE  Types'
<1>1. CASE StartRun
  BY <1>1 DEF Types, StartRun, RunState, history, Knows
<1>2. ASSUME row' \in [Contract -> Row], UNCHANGED <<project, sub, adm, history, faults>>,
             \/ disc' \in RunState /\ disc'.ready = disc.ready
             \/ disc' = NoRun
      PROVE  Types'
  BY <1>2, NamedStates DEF Types, history, Knows
<1>3. CASE SeedOrganic \/ SeedTrending
  <2>1. ASSUME NEW c \in Contract, NEW busy \in BOOLEAN PROVE Seed(c, busy) \in Row
    BY DEF Types, Seed, Row, NoRow
  <2>2. ASSUME NEW c \in Contract, NEW busy PROVE Seed(c, c \in busy) \in Row
    <3>1. (c \in busy) \in BOOLEAN
      OBVIOUS
    <3> QED
      BY <2>1, <3>1, Zenon
  <2>3. ASSUME NEW c \in Contract PROVE Seed(c, TRUE) \in Row /\ row[c] \in Row
    BY <2>1 DEF Types
  <2>4. row' \in [Contract -> Row]
    <3>1. CASE SeedOrganic
      <4>1. PICK seen, busy :
              row' = [c \in Contract |-> IF c \in seen THEN Seed(c, c \in busy) ELSE row[c]]
        BY <3>1, Zenon DEF SeedOrganic
      <4> QED
        BY <2>2, <2>3, <4>1, Zenon
    <3>2. CASE SeedTrending
      BY <2>3, <3>2, Zenon DEF SeedTrending
    <3> QED
      BY <1>3, <3>1, <3>2
  <2>5. disc' \in RunState /\ disc'.ready = disc.ready
    BY <1>3 DEF Types, SeedOrganic, SeedTrending, RunState
  <2> QED
    BY <1>2, <1>3, <2>4, <2>5 DEF SeedOrganic, SeedTrending
<1>4. CASE ReadCandidates
  <2>1. disc' \in RunState /\ disc'.ready = disc.ready
    BY <1>4 DEF Types, ReadCandidates, RunState
  <2> QED
    BY <1>2, <1>4, <2>1 DEF Types, ReadCandidates
<1>5. ASSUME NEW c \in Contract, ClassifyOne(c) PROVE Types'
  <2>1. disc' \in RunState /\ disc'.ready = disc.ready
    BY <1>5 DEF Types, ClassifyOne, RunState
  <2>2. ASSUME NEW a \in Says[c] \cup {Silence} PROVE Classified(c, Finalize(a)) \in Row
    <3>1. a \in Answer
      <4>1. Silence \in Answer
        BY DEF Silence, Answer
      <4>2. Says[c] \subseteq Answer
        BY DiscoveryAssumption
      <4> QED
        BY <4>1, <4>2
    <3>2. Finalize(a) \in Answer
      BY <3>1 DEF Finalize, Answer
    <3> QED
      BY <3>2, RowWritten DEF Types, Classified, Answer
  <2>3. [row[c] EXCEPT !.status = "rejected"] \in Row
    BY DEF Types, Row
  <2>4. row' \in [Contract -> Row]
    BY <1>5, <2>2, <2>3 DEF Types, ClassifyOne
  <2> QED
    BY <1>2, <1>5, <2>1, <2>4 DEF ClassifyOne
<1>6. CASE ReadReady
  <2>1. \A c \in Contract : ProjectId(c) \in Ids
    BY DiscoveryAssumption DEF Types, ProjectId, Row, Ids
  <2>2. \A c \in Contract : row[c].category \in Category \cup {None}
    BY DEF Types, Row
  <2>3. /\ disc' \in RunState
        /\ \A c \in Contract : disc'.ready[c] # NotReady => disc'.ready[c].id \in Ids
    BY <1>6, <2>1, <2>2 DEF Types, ReadReady, RunState, NotReady
  <2> QED
    BY <1>6, <2>3, NamedStates DEF Types, ReadReady, history, Knows
<1>7. ASSUME NEW c \in Contract,
             RejectCandidate(c) \/ UpsertProject(c) \/ MarkPromoted(c) \/ UpsertFails(c)
      PROVE  Types'
  <2>1. /\ row' \in [Contract -> Row]
    BY <1>7 DEF Types, RejectCandidate, UpsertProject, MarkPromoted, UpsertFails, Row
  <2>2. /\ disc' \in RunState
        /\ \A d \in Contract : disc'.ready[d] = disc.ready[d] \/ disc'.ready[d] = NotReady
    <3>1. None \in Ids \cup {None} /\ None \in Category \cup {None}
      OBVIOUS
    <3>2. CASE RejectCandidate(c)
      BY <3>1, <3>2 DEF Types, RejectCandidate, RunState, NotReady
    <3>5. CASE UpsertFails(c)
      <4>1. disc' = [disc EXCEPT !.ready[c] = NotReady]
        BY <3>5 DEF UpsertFails
      <4> QED
        BY <3>1, <4>1 DEF Types, RunState, NotReady
    <3>3. CASE UpsertProject(c)
      BY <3>3 DEF Types, UpsertProject, RunState
    <3>4. CASE MarkPromoted(c)
      BY <3>1, <3>4 DEF Types, MarkPromoted, RunState, NotReady
    <3> QED
      BY <1>7, <3>2, <3>3, <3>4, <3>5
  <2>3. project' \in [Ids -> ProjectState]
    <3>1. Unopposed(c) => With(c) \in [Ids -> ProjectState]
      BY DEF Types, Unopposed, With, ProjectState, RunState
    <3> QED
      BY <1>7, <3>1 DEF Types, RejectCandidate, UpsertProject, MarkPromoted, UpsertFails
  <2>4. faults' \in 0..MaxFaults
    BY <1>7, DiscoveryAssumption
    DEF Types, RejectCandidate, UpsertProject, MarkPromoted, UpsertFails
  <2> QED
    BY <1>7, <2>1, <2>2, <2>3, <2>4
    DEF Types, RejectCandidate, UpsertProject, MarkPromoted, UpsertFails, history, Knows
<1>8. CASE EndRun
  BY <1>2, <1>8 DEF Types, EndRun
<1>9. CASE RunFails
  BY <1>9, NamedStates, DiscoveryAssumption DEF Types, RunFails, history, Knows
<1> QED
  BY <1>1, <1>3, <1>4, <1>5, <1>6, <1>7, <1>8, <1>9 DEF Run

\* What a request writes into a row and into its own state has its type.
LEMMA RequestTypes ==
  ASSUME Types, NEW a \in Admin, Request(a) \/ RequestFails(a)
  PROVE  Types'
<1>1. ASSUME NEW r \in RequestState, adm' = [adm EXCEPT ![a] = r],
             r.pc # "idle" => r.contract \in Contract,
             r.pc \in {"queue", "mark"} => r.sub \in Sub
      PROVE  adm' \in [Admin -> RequestState] /\ Knows'
  BY <1>1 DEF Types, Knows
<1>2. ASSUME NEW c \in Contract, NEW k \in Category, NEW n \in Slug \cup {None},
             ManualClassify(c, k, n)
      PROVE  /\ row' \in [Contract -> Row]
             /\ human' \subseteq Contract /\ restored' \subseteq Contract
  <2>1. row' = [row EXCEPT ![c] = [row[c] EXCEPT !.status = "needs_review", !.category = k,
                                                 !.name = n]]
    BY <1>2 DEF Types, ManualClassify
  <2>2. [row[c] EXCEPT !.status = "needs_review", !.category = k, !.name = n] \in Row
    BY DEF Types, Row
  <2> QED
    BY <1>2, <2>1, <2>2 DEF Types, ManualClassify
<1>3. ASSUME Continue(a), adm[a].pc \in {"queue", "mark"}
      PROVE  adm' \in [Admin -> RequestState] /\ Knows'
  <2>1. AfterStep(adm[a].pc, adm[a].decision) \in {"mark", "idle"}
    BY <1>3 DEF AfterStep
  <2>2. CASE AfterStep(adm[a].pc, adm[a].decision) = "idle"
    BY <1>1, <1>3, <2>2, NamedStates DEF Continue
  <2>3. CASE AfterStep(adm[a].pc, adm[a].decision) = "mark"
    <3> DEFINE r == [adm[a] EXCEPT !.pc = "mark"]
    <3>1. r \in RequestState /\ r.contract \in Contract /\ r.sub \in Sub
      BY <1>3 DEF Types, RequestState, Knows
    <3> QED
      BY <1>1, <1>3, <2>3, <3>1 DEF Continue
  <2> QED
    BY <2>1, <2>2, <2>3
<1>4. ASSUME NEW c \in Contract, BeginReject(a, c) \/ BeginRestore(a, c)
      PROVE  Types'
  <2> DEFINE r(pc) == [NoRequest EXCEPT !.pc = pc, !.contract = c]
  <2>1. \A pc \in {"reject", "restore"} :
          r(pc) \in RequestState /\ r(pc).pc = pc /\ r(pc).contract = c
    BY DEF NoRequest, RequestState
  <2>2. adm' = [adm EXCEPT ![a] = r("reject")] \/ adm' = [adm EXCEPT ![a] = r("restore")]
    BY <1>4 DEF BeginReject, BeginRestore
  <2> HIDE DEF r
  <2>3. adm' \in [Admin -> RequestState] /\ Knows'
    BY <1>1, <2>1, <2>2
  <2> QED
    BY <1>4, <2>3 DEF Types, BeginReject, BeginRestore, history
<1>5. ASSUME NEW s \in Sub, NEW decision \in {"approve", "reject"},
             BeginReview(a, s, decision) \/ ReviewByTool(a, s, decision)
      PROVE  Types'
  <2>1. SubContract[s] \in Contract
    BY DiscoveryAssumption
  <2>2. CASE BeginReview(a, s, decision)
    <3> DEFINE r == [pc |-> AfterStep("read", decision), contract |-> SubContract[s], sub |-> s,
                     decision |-> decision]
    <3>1. AfterStep("read", decision) \in {"queue", "mark"}
      BY DEF AfterStep
    <3>2. r \in RequestState /\ r.contract \in Contract /\ r.sub \in Sub
      BY <2>1, <3>1 DEF RequestState
    <3>3. adm' \in [Admin -> RequestState] /\ Knows'
      BY <1>1, <2>2, <3>2 DEF BeginReview
    <3> QED
      BY <2>2, <3>3 DEF Types, BeginReview, history
  <2>3. CASE ReviewByTool(a, s, decision)
    <3> DEFINE r == [NoRequest EXCEPT !.pc = "tool", !.contract = SubContract[s]]
    <3>1. r \in RequestState /\ r.contract \in Contract /\ r.pc = "tool"
      BY <2>1 DEF RequestState, NoRequest
    <3>2. adm' = adm \/ adm' = [adm EXCEPT ![a] = r]
      BY <2>3 DEF ReviewByTool
    <3>3. adm' \in [Admin -> RequestState] /\ Knows'
      BY <1>1, <3>1, <3>2 DEF Types, Knows
    <3> QED
      BY <2>3, <3>3 DEF Types, ReviewByTool
  <2> QED
    BY <1>5, <2>2, <2>3
<1>6. ASSUME NEW c \in Contract, NEW k \in Category, NEW n \in Slug \cup {None},
             Classify(a, c, k, n)
      PROVE  Types'
  BY <1>2, <1>6 DEF Types, Classify, Knows
<1>7. ASSUME NEW k \in Category, NEW n \in Slug \cup {None}, QueueSubmission(a, k, n)
      PROVE  Types'
  <2>1. adm[a].pc = "queue" /\ adm[a].contract \in Contract /\ adm[a].sub \in Sub
    BY <1>7 DEF Types, QueueSubmission, Knows
  <2>2. adm' \in [Admin -> RequestState] /\ Knows'
    BY <1>3, <1>7, <2>1 DEF QueueSubmission
  <2> QED
    BY <1>2, <1>7, <2>1, <2>2 DEF Types, QueueSubmission
<1>8. ASSUME NEW k \in Category, NEW n \in Slug \cup {None}, QueueByTool(a, k, n)
      PROVE  Types'
  <2> DEFINE c == adm[a].contract
  <2>1. c \in Contract
    BY <1>8 DEF Types, QueueByTool, Knows
  <2>2. adm' \in [Admin -> RequestState] /\ Knows'
    BY <1>1, <1>8, NamedStates DEF QueueByTool
  <2>3. row' \in [Contract -> Row]
    <3>1. [row[c] EXCEPT !.status = "needs_review", !.category = k, !.name = n, !.busy = FALSE] \in Row
      <4>1. row[c] \in Row
        BY <2>1 DEF Types
      <4>2. \A x \in Row : [x EXCEPT !.status = "needs_review", !.category = k, !.name = n,
                                     !.busy = FALSE] \in Row
        BY DEF Row
      <4> QED
        BY <4>1, <4>2
    <3>2. row' = [row EXCEPT ![c] = [row[c] EXCEPT !.status = "needs_review", !.category = k,
                                                   !.name = n, !.busy = FALSE]]
      BY <1>8, <2>1 DEF Types, QueueByTool
    <3> QED
      BY <2>1, <3>1, <3>2 DEF Types
  <2>4. human' \subseteq Contract /\ restored' \subseteq Contract
    BY <1>8, <2>1 DEF Types, QueueByTool
  <2> QED
    BY <1>8, <2>2, <2>3, <2>4 DEF Types, QueueByTool
<1>11. CASE FindByTool(a)
  <2> DEFINE r == [adm[a] EXCEPT !.pc = "upsert"]
  <2>1. r \in RequestState /\ r.contract \in Contract /\ r.pc = "upsert"
    BY <1>11 DEF Types, FindByTool, RequestState, Knows
  <2>2. adm' = [adm EXCEPT ![a] = r]
    BY <1>11 DEF FindByTool
  <2>3. adm' \in [Admin -> RequestState] /\ Knows'
    BY <1>1, <2>1, <2>2
  <2> QED
    BY <1>11, <2>3 DEF Types, FindByTool, history
<1>9. CASE QueueNothing(a) \/ EndReject(a) \/ EndRestore(a) \/ RequestFails(a)
  <2>1. adm' \in [Admin -> RequestState] /\ Knows'
    BY <1>1, <1>9, NamedStates DEF QueueNothing, EndReject, EndRestore, RequestFails
  <2>2. adm[a].contract \in Contract
    BY <1>9 DEF Types, QueueNothing, EndReject, EndRestore, RequestFails, Knows
  <2>3. row' \in [Contract -> Row]
    BY <1>9, <2>2 DEF Types, QueueNothing, EndReject, EndRestore, RequestFails, Row
  <2> QED
    BY <1>9, <2>1, <2>2, <2>3, DiscoveryAssumption
    DEF Types, QueueNothing, EndReject, EndRestore, RequestFails, history
<1>10. CASE MarkSubmission(a)
  <2>1. adm' \in [Admin -> RequestState] /\ Knows'
    BY <1>3, <1>10 DEF MarkSubmission
  <2> QED
    BY <1>10, <2>1 DEF Types, MarkSubmission, history
<1> QED
  BY <1>4, <1>5, <1>6, <1>7, <1>8, <1>9, <1>10, <1>11 DEF Request

\* Every variable keeps its type in every behaviour.
THEOREM TypeCorrect == Spec => [](Types /\ TypeOK)
<1>1. Types /\ [Next]_vars => Types'
  <2> SUFFICES ASSUME Types, [Next]_vars PROVE Types'
    OBVIOUS
  <2>1. ASSUME NEW s \in Sub, Submit(s) PROVE Types'
    BY <2>1 DEF Types, Submit, history, Knows
  <2>2. CASE UNCHANGED vars
    BY <2>2 DEF Types, vars, Knows
  <2> QED
    BY <2>1, <2>2, RunTypes, RequestTypes DEF Next
<1>2. Types => TypeOK
  BY DEF Types, TypeOK, RunState, RequestState, ProjectState
<1> QED
  BY <1>1, <1>2, InitTypes, PTL DEF Spec
-----------------------------------------------------------------------------
(* Nobody's choice, no project.                                              *)

\* What is known of a contract that has, or gets, a category.
Chosen(c) == Signal(c) \/ c \in human

\* Each of the three copies of a category: row, list of candidates, project.
ChosenInv ==
  /\ \A c \in Contract : row[c].category # None => Chosen(c)
  /\ \A c \in Contract : disc.ready[c] # NotReady => Chosen(c)
  /\ NoSignalNeedsPerson

\* Steps that leave the three copies as they are.
LEMMA CopiesKept ==
  ASSUME ChosenInv, human \subseteq human',
         \A c \in Contract : row'[c].category # None => row[c].category # None \/ c \in human',
         \A c \in Contract : disc'.ready[c] # NotReady => disc.ready[c] # NotReady,
         project' = project
  PROVE  ChosenInv'
  BY DEF ChosenInv, Chosen, NoSignalNeedsPerson, Signal

\* A run takes a category from a source that vouches for the contract.
LEMMA RunChosen ==
  ASSUME Types, ChosenInv, Run \/ RunFails \/ \E c \in Contract : UpsertFails(c)
  PROVE  ChosenInv'
<1>1. NoRow.category = None /\ NoRun.ready = [c \in Contract |-> NotReady]
  BY NamedStates
<1>2. CASE StartRun \/ ReadCandidates \/ EndRun \/ RunFails
  BY <1>1, <1>2, CopiesKept DEF Types, RunState, StartRun, ReadCandidates, EndRun, RunFails, history
<1>3. CASE SeedOrganic \/ SeedTrending
  <2>1. ASSUME NEW c \in Contract, NEW busy PROVE Seed(c, busy).category # None => row[c].category # None
    BY <1>1 DEF Seed, Types, Row, NoRow
  <2>2. ASSUME SeedOrganic
        PROVE  \A c \in Contract : row'[c].category # None => row[c].category # None
    <3>1. PICK seen \in SUBSET (Contract \ Mapped) : \E busy \in SUBSET seen :
             row' = [c \in Contract |-> IF c \in seen THEN Seed(c, c \in busy) ELSE row[c]]
      BY <2>2, Zenon DEF SeedOrganic
    <3>2. PICK busy \in SUBSET seen :
             row' = [c \in Contract |-> IF c \in seen THEN Seed(c, c \in busy) ELSE row[c]]
      BY <3>1, Zenon
    <3> QED
      BY <2>1, <3>2, Zenon
  <2>3. ASSUME SeedTrending
        PROVE  \A c \in Contract : row'[c].category # None => row[c].category # None
    <3>1. PICK hot \in SUBSET Contract :
             row' = [c \in Contract |-> IF c \in hot THEN Seed(c, TRUE) ELSE row[c]]
      BY <2>3, Zenon DEF SeedTrending
    <3> QED
      BY <2>1, <3>1, Zenon
  <2>4. \A c \in Contract : row'[c].category # None => row[c].category # None
    BY <1>3, <2>2, <2>3
  <2> QED
    BY <1>3, <2>4, CopiesKept DEF Types, RunState, SeedOrganic, SeedTrending, history
<1>4. ASSUME NEW c \in Contract, ClassifyOne(c) PROVE ChosenInv'
  <2>1. disc'.ready = disc.ready /\ project' = project /\ human' = human
    BY <1>4 DEF Types, RunState, ClassifyOne, history
  <2>2. \A d \in Contract : d # c => row'[d] = row[d]
    BY <1>4 DEF Types, ClassifyOne
  <2>3. row'[c].category # None => row[c].category # None \/ Signal(c)
    <3>1. CASE c \in Wallets
      BY <1>4, <3>1 DEF Types, Row, ClassifyOne
    <3>2. CASE c \notin Wallets
      <4>1. PICK a \in Says[c] \cup {Silence} : row'[c] = Classified(c, Finalize(a))
        BY <1>4, <3>2 DEF Types, ClassifyOne
      <4>2. row'[c].category = Finalize(a).category
        BY <4>1 DEF Types, Row, Classified
      <4>3. a \in Answer
        <5>1. Silence \in Answer
          BY DEF Silence, Answer
        <5> QED
          BY <5>1, DiscoveryAssumption
      <4>4. Finalize(a).category # None => ~a.fake /\ a.category # None
        BY <4>3 DEF Finalize, Answer
      <4>5. Silence.category = None
        BY DEF Silence
      <4> QED
        BY <3>2, <4>1, <4>2, <4>4, <4>5 DEF Signal
    <3> QED
      BY <3>1, <3>2
  <2> QED
    BY <2>1, <2>2, <2>3 DEF ChosenInv, Chosen, NoSignalNeedsPerson, Signal
<1>5. CASE ReadReady
  <2>1. \A c \in Contract : disc'.ready[c] # NotReady => row[c].category # None
    BY <1>5 DEF Types, RunState, ReadReady, Promotable
  <2>2. UNCHANGED <<row, project, human>>
    BY <1>5 DEF ReadReady, history
  <2> QED
    BY <2>1, <2>2 DEF ChosenInv, Chosen, NoSignalNeedsPerson, Signal
<1>6. ASSUME NEW c \in Contract, RejectCandidate(c) \/ MarkPromoted(c) PROVE ChosenInv'
  <2>1. \A d \in Contract : row'[d].category = row[d].category
    BY <1>6 DEF Types, Row, RejectCandidate, MarkPromoted
  <2>2. \A d \in Contract : disc'.ready[d] # NotReady => disc.ready[d] # NotReady
    <3>1. disc'.ready = [disc.ready EXCEPT ![c] = NotReady]
      <4>1. CASE RejectCandidate(c)
        BY <4>1 DEF Types, RunState, RejectCandidate
      <4>2. CASE MarkPromoted(c)
        BY <4>2 DEF Types, RunState, MarkPromoted
      <4> QED
        BY <1>6, <4>1, <4>2
    <3>2. DOMAIN disc.ready = Contract
      BY DEF Types, RunState
    <3> QED
      BY <3>1, <3>2, Zenon
  <2> QED
    BY <1>6, <2>1, <2>2, CopiesKept DEF RejectCandidate, MarkPromoted, history
<1>7. ASSUME NEW c \in Contract, UpsertProject(c) \/ UpsertFails(c) PROVE ChosenInv'
  <2>1. \A d \in Contract : disc'.ready[d] # NotReady => disc.ready[d] # NotReady
    <3>1. CASE UpsertProject(c)
      BY <3>1 DEF Types, RunState, UpsertProject
    <3>2. CASE UpsertFails(c)
      <4>1. disc'.ready = [disc.ready EXCEPT ![c] = NotReady] /\ DOMAIN disc.ready = Contract
        BY <3>2 DEF Types, RunState, UpsertFails
      <4> QED
        BY <4>1, Zenon
    <3> QED
      BY <1>7, <3>1, <3>2
  <2>2. human' = human /\ \A d \in Contract : row'[d].category = row[d].category
    BY <1>7 DEF Types, Row, UpsertProject, UpsertFails, history
  <2>3. Chosen(c)
    BY <1>7 DEF ChosenInv, UpsertProject, UpsertFails, Unopposed
  <2>4. \A i \in Ids : project'[i].contracts = project[i].contracts \/ project'[i].contracts = {c}
    <3>1. project' = project \/ project' = With(c)
      BY <1>7 DEF UpsertProject, UpsertFails
    <3>2. \A i \in Ids : With(c)[i].contracts = project[i].contracts \/ With(c)[i].contracts = {c}
      BY DEF Types, ProjectState, With
    <3> QED
      BY <3>1, <3>2
  <2> QED
    BY <2>1, <2>2, <2>3, <2>4 DEF ChosenInv, Chosen, NoSignalNeedsPerson, Signal
<1> QED
  BY <1>2, <1>3, <1>4, <1>5, <1>6, <1>7 DEF Run

\* A person's request gives a category only to a contract that person chose it for.
LEMMA RequestChosen ==
  ASSUME Types, ChosenInv, NEW a \in Admin, Request(a) \/ RequestFails(a)
  PROVE  ChosenInv'
<1>1. ASSUME NEW c \in Contract, NEW k \in Category, NEW n \in Slug \cup {None},
             ManualClassify(c, k, n), UNCHANGED <<project, disc>>
      PROVE  ChosenInv'
  <2>1. human' = human \cup {c} /\ \A d \in Contract : d # c => row'[d] = row[d]
    BY <1>1 DEF Types, ManualClassify
  <2> QED
    BY <1>1, <2>1, CopiesKept
<1>2. CASE \E k \in Category, n \in Slug \cup {None} :
             (\E c \in Contract : Classify(a, c, k, n)) \/ QueueSubmission(a, k, n)
  <2>1. adm[a].pc # "idle" => adm[a].contract \in Contract
    BY DEF Types, Knows
  <2> QED
    BY <1>1, <1>2, <2>1 DEF Classify, QueueSubmission
<1>5. CASE \E k \in Category, n \in Slug \cup {None} : QueueByTool(a, k, n)
  <2>1. UNCHANGED <<project, disc>> /\ human' = human \cup {adm[a].contract}
    BY <1>5 DEF QueueByTool
  <2>2. \A d \in Contract : d # adm[a].contract => row'[d] = row[d]
    BY <1>5 DEF Types, QueueByTool
  <2> QED
    BY <2>1, <2>2, CopiesKept
<1>3. CASE EndReject(a) \/ EndRestore(a)
  <2>1. \A d \in Contract : row'[d].category = row[d].category
    BY <1>3 DEF Types, Row, EndReject, EndRestore
  <2> QED
    BY <1>3, <2>1, CopiesKept DEF EndReject, EndRestore, history
<1>4. CASE UNCHANGED <<row, project, disc, human>>
  BY <1>4, CopiesKept
<1> QED
  BY <1>2, <1>3, <1>4, <1>5 DEF Request, RequestFails, BeginReject, BeginRestore, BeginReview,
     ReviewByTool, FindByTool, QueueNothing, MarkSubmission, history

\* A wallet, a contract no source knows and a look-alike become a project only if a
\* person chose a category for them (discovery.py:555-572, 738-796).
THEOREM NobodysChoice == Spec => []NoSignalNeedsPerson
<1>1. Init => ChosenInv
  BY NamedStates, DiscoveryAssumption DEF Init, ChosenInv, NoSignalNeedsPerson, NoProject
<1>2. Types /\ ChosenInv /\ [Next]_vars => ChosenInv'
  <2> SUFFICES ASSUME Types, ChosenInv, [Next]_vars PROVE ChosenInv'
    OBVIOUS
  <2>1. ASSUME NEW s \in Sub, Submit(s) PROVE ChosenInv'
    BY <2>1, CopiesKept DEF Submit, history
  <2>2. CASE UNCHANGED vars
    BY <2>2, CopiesKept DEF vars
  <2> QED
    BY <2>1, <2>2, RunChosen, RequestChosen DEF Next
<1>3. ChosenInv => NoSignalNeedsPerson
  BY DEF ChosenInv
<1> QED
  BY <1>1, <1>2, <1>3, TypeCorrect, PTL DEF Spec

-----------------------------------------------------------------------------
(* Reviews.                                                                  *)

\* A review that is about to mark an approval has queued its contract.
QueuedInv ==
  /\ \A a \in Admin : adm[a].pc = "mark" /\ adm[a].decision = "approve" => adm[a].sub \in queued
  /\ ApprovedWasQueued

\* Steps of one request after which it is not about to mark an approval.
LEMMA NotMarking ==
  ASSUME Types, QueuedInv, NEW a \in Admin, NEW r, adm' = adm \/ adm' = [adm EXCEPT ![a] = r],
         adm' # adm => ~(r.pc = "mark" /\ r.decision = "approve"),
         queued \subseteq queued', byTool \subseteq byTool',
         \A s \in Sub : sub'[s] = "approved" => sub[s] = "approved" \/ s \in queued' \cup byTool'
  PROVE  QueuedInv'
  BY DEF Types, QueuedInv, ApprovedWasQueued

\* The order of a review: queue, then mark.
LEMMA RequestQueued ==
  ASSUME Types, QueuedInv, NEW a \in Admin, Request(a) \/ RequestFails(a)
  PROVE  QueuedInv'
<1>1. NoRequest.pc = "idle" /\ \A pc : [NoRequest EXCEPT !.pc = pc].decision = "none"
  BY DEF NoRequest
<1>2. ASSUME NEW c \in Contract, BeginReject(a, c) \/ BeginRestore(a, c)
      PROVE  QueuedInv'
  <2>1. \A pc : [NoRequest EXCEPT !.pc = pc, !.contract = c].decision = "none"
    BY DEF NoRequest
  <2>2. PICK pc : adm' = [adm EXCEPT ![a] = [NoRequest EXCEPT !.pc = pc, !.contract = c]]
    BY <1>2 DEF BeginReject, BeginRestore
  <2> QED
    BY <1>2, <2>1, <2>2, NotMarking DEF BeginReject, BeginRestore, history
<1>3. ASSUME NEW s \in Sub, NEW decision \in {"approve", "reject"}, BeginReview(a, s, decision)
      PROVE  QueuedInv'
  <2> DEFINE r == [pc |-> AfterStep("read", decision), contract |-> SubContract[s], sub |-> s,
                   decision |-> decision]
  <2>1. ~(r.pc = "mark" /\ r.decision = "approve")
    BY DEF AfterStep
  <2>2. adm' = [adm EXCEPT ![a] = r] /\ UNCHANGED <<sub, queued, byTool>>
    BY <1>3 DEF BeginReview, history
  <2> HIDE DEF r
  <2> QED
    BY <2>1, <2>2, NotMarking
<1>4. ASSUME NEW s \in Sub, NEW decision \in {"approve", "reject"}, ReviewByTool(a, s, decision)
      PROVE  QueuedInv'
  <2> DEFINE r == [NoRequest EXCEPT !.pc = "tool", !.contract = SubContract[s]]
  <2>1. r.pc = "tool" /\ (adm' = adm \/ adm' = [adm EXCEPT ![a] = r])
    BY <1>4 DEF NoRequest, ReviewByTool
  <2>2. byTool' = byTool \cup {s} /\ queued' = queued
    BY <1>4 DEF ReviewByTool
  <2>3. \A u \in Sub : u # s => sub'[u] = sub[u]
    BY <1>4 DEF Types, ReviewByTool
  <2> HIDE DEF r
  <2> QED
    BY <2>1, <2>2, <2>3, NotMarking
<1>5. ASSUME NEW k \in Category, NEW n \in Slug \cup {None}, QueueSubmission(a, k, n)
      PROVE  QueuedInv'
  <2>1. /\ adm[a].pc = "queue" /\ queued' = queued \cup {adm[a].sub}
        /\ UNCHANGED <<sub, byTool>> /\ Continue(a)
    BY <1>5 DEF QueueSubmission
  <2>2. adm' = [adm EXCEPT ![a] = [adm[a] EXCEPT !.pc = "mark"]]
    BY <2>1 DEF Types, Continue, AfterStep
  <2>3. /\ adm'[a].sub = adm[a].sub /\ \A b \in Admin : b # a => adm'[b] = adm[b]
    BY <2>2 DEF Types, RequestState
  <2> QED
    BY <2>1, <2>3 DEF QueuedInv, ApprovedWasQueued
<1>6. CASE MarkSubmission(a)
  <2>1. adm[a].pc = "mark" /\ adm' = [adm EXCEPT ![a] = NoRequest]
    BY <1>6 DEF Types, MarkSubmission, Continue, AfterStep
  <2>2. /\ queued' = queued /\ byTool' = byTool
        /\ \A s \in Sub : sub'[s] = "approved" => sub[s] = "approved" \/ s \in queued
    BY <1>6 DEF Types, Knows, QueuedInv, MarkSubmission, history
  <2> QED
    BY <1>1, <2>1, <2>2, NotMarking
<1>7. CASE \/ QueueNothing(a) \/ EndReject(a) \/ EndRestore(a) \/ RequestFails(a)
           \/ \E k \in Category, n \in Slug \cup {None} : QueueByTool(a, k, n)
  BY <1>1, <1>7, NotMarking DEF QueueNothing, EndReject, EndRestore, RequestFails, QueueByTool, history
<1>8. CASE UNCHANGED <<adm, sub, queued, byTool>>
  BY <1>8 DEF QueuedInv, ApprovedWasQueued
<1>9. CASE FindByTool(a)
  <2> DEFINE r == [adm[a] EXCEPT !.pc = "upsert"]
  <2>1. r.pc = "upsert" /\ adm' = [adm EXCEPT ![a] = r] /\ UNCHANGED <<sub, queued, byTool>>
    BY <1>9 DEF Types, RequestState, FindByTool, history
  <2> HIDE DEF r
  <2> QED
    BY <2>1, NotMarking
<1> QED
  BY <1>2, <1>3, <1>4, <1>5, <1>6, <1>7, <1>8, <1>9 DEF Request, Classify

\* A submission that the API marks approved has had its contract queued, whichever
\* step of whichever request fails (admin.py:239-258).
THEOREM ApprovalsQueue == Spec => []ApprovedWasQueued
<1>1. Init => QueuedInv
  BY NamedStates DEF Init, QueuedInv, ApprovedWasQueued
<1>2. Types /\ QueuedInv /\ [Next]_vars => QueuedInv'
  <2> SUFFICES ASSUME Types, QueuedInv, [Next]_vars PROVE QueuedInv'
    OBVIOUS
  <2>1. ASSUME NEW s \in Sub, Submit(s) PROVE QueuedInv'
    BY <2>1 DEF Types, Submit, history, QueuedInv, ApprovedWasQueued
  <2>2. CASE Run \/ RunFails \/ (\E c \in Contract : UpsertFails(c)) \/ UNCHANGED vars
    <3>1. UNCHANGED <<adm, sub, queued, byTool>>
      BY <2>2 DEF vars, Run, RunFails, StartRun, SeedOrganic, SeedTrending, ReadCandidates, ClassifyOne,
         ReadReady, RejectCandidate, UpsertProject, UpsertFails, MarkPromoted, EndRun, history
    <3> QED
      BY <3>1 DEF QueuedInv, ApprovedWasQueued
  <2> QED
    BY <2>1, <2>2, RequestQueued DEF Next
<1>3. QueuedInv => ApprovedWasQueued
  BY DEF QueuedInv
<1> QED
  BY <1>1, <1>2, <1>3, TypeCorrect, PTL DEF Spec

-----------------------------------------------------------------------------
(* Projects.                                                                 *)

\* A project that discovery made has the one contract it was made for.
OneContract ==
  \A i \in Ids : project[i] # NoProject /\ ~project[i].seeded => \E c \in Contract : project[i].contracts = {c}

\* The only steps that write a project write the contract it has already.
LEMMA UpsertKeeps ==
  ASSUME Types, OneContract, NEW c \in Contract, Unopposed(c), project' = With(c)
  PROVE  /\ OneContract'
         /\ \A i \in Ids : project[i] # NoProject => project'[i].contracts = project[i].contracts
<1> DEFINE i == disc.ready[c].id
<1>1. i \in Ids /\ ~Collides(c, i) /\ ~Protected(c, project[i])
  BY DEF Types, RunState, Unopposed
<1>2. /\ project'[i].contracts = {c} /\ project'[i].seeded = project[i].seeded
      /\ \A j \in Ids : j # i => project'[j] = project[j]
  BY <1>1 DEF Types, ProjectState, With
<1>3. project[i] # NoProject => project[i].contracts = {c}
  <2>1. CASE project[i].seeded
    BY <1>1, <2>1 DEF Protected
  <2>2. CASE ~project[i].seeded
    BY <1>1, <2>2 DEF OneContract, Collides
  <2> QED
    BY <2>1, <2>2
<1> HIDE DEF i
<1> QED
  BY <1>2, <1>3 DEF OneContract

\* Every other step leaves the projects alone.
LEMMA ProjectsAlone ==
  ASSUME [Next]_vars, ~\E c \in Contract : Unopposed(c) /\ project' = With(c)
  PROVE  project' = project
<1>1. ASSUME NEW a \in Admin, Request(a) \/ RequestFails(a) PROVE project' = project
  BY <1>1 DEF Request, RequestFails, BeginReject, BeginRestore, BeginReview, ReviewByTool,
     Classify, QueueSubmission, QueueByTool, FindByTool, QueueNothing, EndReject, EndRestore, MarkSubmission
<1>2. ASSUME Run \/ RunFails PROVE project' = project
  BY <1>2 DEF Run, RunFails, StartRun, SeedOrganic, SeedTrending, ReadCandidates, ClassifyOne,
     ReadReady, RejectCandidate, UpsertProject, MarkPromoted, EndRun
<1>3. ASSUME NEW c \in Contract, UpsertFails(c) PROVE project' = project
  BY <1>3 DEF UpsertFails
<1> QED
  BY <1>1, <1>2, <1>3 DEF Next, Submit, vars

\* No candidate takes the project of another, whatever people do to the rows between
\* the reading of the candidates and their promotion (discovery.py:751-796).
THEOREM ProjectsStay == Spec => ProjectsKeepContracts
<1>1. Init => OneContract
  BY NamedStates DEF Init, OneContract
<1>2. Types /\ OneContract /\ [Next]_vars => OneContract'
  BY UpsertKeeps, ProjectsAlone DEF OneContract
<1>3. Types /\ OneContract /\ [Next]_vars
        => [\A i \in Ids : project[i] # NoProject => project'[i].contracts = project[i].contracts]_vars
  BY UpsertKeeps, ProjectsAlone
<1> QED
  BY <1>1, <1>2, <1>3, TypeCorrect, PTL DEF Spec, ProjectsKeepContracts

-----------------------------------------------------------------------------
(* The script that seeds launch platforms, for any contracts, platforms and  *)
(* pages.  A row belongs to at most one platform, which is told by its id    *)
(* and its contracts, so what the script writes for one platform does not    *)
(* matter to the others; and of the platform at work every contract of a     *)
(* stub that is gone is one its project is about to get.                     *)

Places == DOMAIN Platforms
Mine(n) == Platforms[n].own \cup TokensOf(Platforms[n])

\* A project of one contract, or one of a platform's; a token is in the project that was
\* made for it.
RowShape(i, c) ==
  \/ \E a \in Address : i = IdOf[a] /\ c = {a}
  \/ \E k \in Places : /\ c \subseteq Mine(k)
                       /\ i = Platforms[k].id \/ \E t \in TokensOf(Platforms[k]) : i = IdOf[t]
TokenPlace(i, c) == \A k \in Places : \A t \in c \cap TokensOf(Platforms[k]) : i = IdOf[t]

TableOK(tbl) ==
  /\ DOMAIN tbl \subseteq SeedId /\ tbl = [i \in DOMAIN tbl |-> tbl[i]]
  /\ \A i \in DOMAIN tbl : /\ tbl[i] \in ProjectRow
                           /\ RowShape(i, tbl[i].contracts) /\ TokenPlace(i, tbl[i].contracts)

\* The project of a platform, given the answer of the coin index.
IsMain(n, coins, tbl, i) ==
  /\ i \in DOMAIN tbl
  /\ LET t == ResolveToken(Platforms[n], coins)
     IN IF t # NoAddress THEN i = IdOf[t] /\ t \in tbl[i].contracts ELSE i = Platforms[n].id

\* A stub of a platform, and a project that is none.
StubNow(n, tbl, j) ==
  /\ j \in DOMAIN tbl /\ ~tbl[j].seeded
  /\ tbl[j].contracts # {} /\ tbl[j].contracts \subseteq Platforms[n].own
KeptBy(n, tbl, i, a) ==
  /\ i \in DOMAIN tbl /\ a \in tbl[i].contracts
  /\ tbl[i].seeded \/ ~(tbl[i].contracts \subseteq Platforms[n].own)

\* What a plan says of a platform is still so.
ItemOK(n, item, coins, tbl) ==
  item.due =>
    /\ item.contracts \subseteq Mine(n) /\ TokenPlace(item.id, item.contracts)
    /\ item.new => item.id = Platforms[n].id
    /\ ~item.new => /\ IsMain(n, coins, tbl, item.id) /\ ~tbl[item.id].seeded
                    /\ LET t == ResolveToken(Platforms[n], coins)
                       IN t # NoAddress => t \in item.contracts
    /\ \A j \in item.retire : StubNow(n, tbl, j) /\ (~item.new => j # item.id)
    /\ \A a \in Platforms[n].own :
         \/ a \in item.contracts
         \/ \E i \in DOMAIN tbl : KeptBy(n, tbl, i, a) /\ (~item.new => i # item.id)

Parts == {"at", "id", "seen", "marks", "coins", "plan", "turn"}
ItemParts == {"id", "new", "due", "contracts", "retire"}
Retiring == {"events", "scores", "delete"}
Writing == {"insert", "retire", "update", "seed"} \cup Retiring
Planned == {"mark", "marked", "platform"} \cup Writing

\* Where the script is.
ReadOK(s, tbl) ==
  /\ s.at = "idle" => DOMAIN s.seen = {}
  /\ s.at \in {"idle", "read", "plan"} =>
       \A i \in DOMAIN s.seen : i \in DOMAIN tbl /\ s.seen[i] = tbl[i]
MarksOK(s, tbl) ==
  /\ s.at \in {"mark", "marked"} =>
       \A i \in s.marks : i \in DOMAIN tbl /\ tbl[i].contracts \cap Listed # {}
  /\ s.at = "marked" => s.id \in DOMAIN tbl /\ tbl[s.id].contracts \cap Listed # {}
PlanOK(s, tbl) ==
  s.at \in Planned =>
    /\ s.turn \in Nat \ {0}
    /\ s.plan = [n \in Places |-> s.plan[n]]
    /\ \A n \in Places : s.plan[n] = [f \in ItemParts |-> s.plan[n][f]]
    /\ \A n \in Places : n >= s.turn => ItemOK(n, s.plan[n], s.coins, tbl)
TurnOK(s, tbl) ==
  s.at \in Writing =>
    LET item == s.plan[s.turn]
    IN /\ s.turn \in Places /\ item.due
       /\ s.at = "insert" => item.new
       /\ s.at \in {"update", "seed"} => ~item.new /\ item.retire = {}
       /\ (item.new /\ s.at # "insert") \/ s.at = "seed" =>
            item.id \in DOMAIN tbl /\ tbl[item.id].contracts = item.contracts
       /\ item.new /\ s.at # "insert" => tbl[item.id].seeded
       /\ s.at \in Retiring => StubNow(s.turn, tbl, s.id) /\ s.id # item.id /\ s.id \notin item.retire
ScriptOK(s, tbl) ==
  s = [f \in Parts |-> s[f]] /\ ReadOK(s, tbl) /\ MarksOK(s, tbl) /\ PlanOK(s, tbl) /\ TurnOK(s, tbl)

\* A contract without a project is one the platform's project is to get.
LostOK(n, tbl, ever, coins) ==
  (\E a \in Platforms[n].own \cap ever : \A i \in DOMAIN tbl : a \notin tbl[i].contracts)
    => \E i \in DOMAIN tbl : IsMain(n, coins, tbl, i) /\ ~tbl[i].seeded

SeedInv ==
  /\ TableOK(table) /\ ScriptOK(script, table)
  /\ asked = [n \in Places |-> asked[n]]
  /\ \A n \in Places : LostOK(n, table, had, asked[n])

-----------------------------------------------------------------------------
(* What tells the rows of platforms apart.                                   *)

\* The constants.
LEMMA PlatformFacts ==
  /\ \A n \in Places :
       /\ Platforms[n] \in PlatformRow /\ Platforms[n].id \in SeedId
       /\ Mine(n) \subseteq Address /\ TokensOf(Platforms[n]) \subseteq Address
       /\ TokensOf(Platforms[n]) \cap Platforms[n].own = {}
       /\ Listed \cap Mine(n) = {} /\ \A a \in Listed : IdOf[a] # Platforms[n].id
  /\ \A n, m \in Places : n # m =>
       /\ Platforms[n].id # Platforms[m].id /\ Mine(n) \cap Mine(m) = {}
       /\ \A a \in Mine(n) : IdOf[a] # Platforms[m].id
  /\ SeedId \subseteq Nat \ {NoId} /\ \A a \in Address : IdOf[a] \in SeedId
<1>1. \A n \in Places : Platforms[n] \in PlatformRow
  BY SeedAssumption DEF Places
<1>2. \A n \in Places : /\ Platforms[n].id \in Nat \ {NoId} /\ Platforms[n].own \subseteq Address
                        /\ TokensOf(Platforms[n]) \subseteq Address
  BY <1>1, SeedAssumption DEF PlatformRow, TokensOf
<1>3. \A n \in Places : Platforms[n].own \subseteq Own
  BY DEF Own, Places
<1>4. \A n \in Places : TokensOf(Platforms[n]) \cap Own = {}
  BY SeedAssumption DEF Places
<1>5. \A n \in Places : Listed \cap Mine(n) = {} /\ \A a \in Listed : IdOf[a] # Platforms[n].id
  BY <1>3, SeedAssumption DEF Mine, Places
<1>6. \A n, m \in Places : n # m =>
        /\ Platforms[n].id # Platforms[m].id /\ Mine(n) \cap Mine(m) = {}
        /\ \A a \in Mine(n) : IdOf[a] # Platforms[m].id
  <2> SUFFICES ASSUME NEW n \in Places, NEW m \in Places, n # m
               PROVE  /\ Platforms[n].id # Platforms[m].id /\ Mine(n) \cap Mine(m) = {}
                      /\ \A a \in Mine(n) : IdOf[a] # Platforms[m].id
    OBVIOUS
  <2>1. /\ Platforms[n].id # Platforms[m].id
        /\ Platforms[n].own \cap Platforms[m].own = {}
        /\ TokensOf(Platforms[n]) \cap TokensOf(Platforms[m]) = {}
        /\ \A a \in Platforms[n].own \cup TokensOf(Platforms[n]) : IdOf[a] # Platforms[m].id
    BY SeedAssumption DEF Places
  <2> QED
    BY <2>1, <1>3, <1>4 DEF Mine
<1>7. SeedId \subseteq Nat \ {NoId} /\ \A a \in Address : IdOf[a] \in SeedId
  BY <1>2, SeedAssumption DEF SeedId, Places
<1>8. \A n \in Places : Platforms[n].id \in SeedId
  BY DEF SeedId, Places
<1> QED
  BY <1>1, <1>2, <1>3, <1>4, <1>5, <1>6, <1>7, <1>8 DEF Mine

\* A row that may be a platform's has nothing of another's, nor of the list.
LEMMA Apart ==
  ASSUME NEW n \in Places, NEW i, NEW c, RowShape(i, c),
         i = Platforms[n].id \/ c \cap TokensOf(Platforms[n]) # {}
  PROVE  /\ c \cap Listed = {}
         /\ \A m \in Places \ {n} : c \cap Mine(m) = {} /\ i # Platforms[m].id
<1>1. CASE \E a \in Address : i = IdOf[a] /\ c = {a}
  <2>1. PICK a \in Address : i = IdOf[a] /\ c = {a}
    BY <1>1
  <2>2. CASE i = Platforms[n].id
    BY <2>1, <2>2, PlatformFacts
  <2>3. CASE a \in TokensOf(Platforms[n])
    <3>1. a \in Mine(n)
      BY <2>3 DEF Mine
    <3> QED
      BY <3>1, <2>1, PlatformFacts
  <2> QED
    BY <2>1, <2>2, <2>3
<1>2. CASE \E k \in Places : /\ c \subseteq Mine(k)
                             /\ i = Platforms[k].id \/ \E t \in TokensOf(Platforms[k]) : i = IdOf[t]
  <2>1. PICK k \in Places : /\ c \subseteq Mine(k)
                            /\ i = Platforms[k].id \/ \E t \in TokensOf(Platforms[k]) : i = IdOf[t]
    BY <1>2
  <2>2. \A m \in Places \ {k} : i # Platforms[m].id /\ c \cap Mine(m) = {}
    <3>1. \A t \in TokensOf(Platforms[k]) : t \in Mine(k)
      BY DEF Mine
    <3> QED
      BY <2>1, <3>1, PlatformFacts
  <2>3. k = n
    <3>1. TokensOf(Platforms[n]) \subseteq Mine(n)
      BY DEF Mine
    <3> QED
      BY <2>2, <3>1
  <2> QED
    BY <2>1, <2>2, <2>3, PlatformFacts
<1> QED
  BY <1>1, <1>2 DEF RowShape

\* A project with a contract of the list has nothing of a platform.
LEMMA ListedApart ==
  ASSUME NEW i, NEW c, RowShape(i, c), c \cap Listed # {}, NEW n \in Places
  PROVE  i # Platforms[n].id /\ c \cap Mine(n) = {}
<1>1. PICK a \in Address : i = IdOf[a] /\ c = {a} /\ a \in Listed
  BY PlatformFacts DEF RowShape
<1> QED
  BY <1>1, PlatformFacts

\* A stub is not what another platform could take for its own.
LEMMA StubApart ==
  ASSUME NEW tbl, TableOK(tbl), NEW m \in Places, NEW j, StubNow(m, tbl, j), NEW n \in Places \ {m}
  PROVE  j # Platforms[n].id /\ tbl[j].contracts \cap Mine(n) = {}
<1>1. /\ j \in DOMAIN tbl /\ tbl[j].contracts # {} /\ tbl[j].contracts \subseteq Mine(m)
      /\ RowShape(j, tbl[j].contracts)
  BY DEF StubNow, TableOK, Mine
<1>2. tbl[j].contracts \cap Mine(n) = {}
  BY <1>1, PlatformFacts
<1>3. j # Platforms[n].id
  BY <1>1, Apart
<1> QED
  BY <1>2, <1>3

\* The token of a platform is one of its tokens.
LEMMA TokenFacts ==
  ASSUME NEW n \in Places, NEW coins
  PROVE  ResolveToken(Platforms[n], coins) \in TokensOf(Platforms[n]) \cup {NoAddress}
<1> DEFINE p == Platforms[n]
           found == p.claimants \cap coins
<1>1. p.claimants \subseteq Address /\ NoAddress \notin Address
  BY PlatformFacts, SeedAssumption DEF PlatformRow
<1>2. Cardinality(found) = 1 => found # {}
  BY FS_EmptySet
<1>3. Cardinality(found) = 1 => (CHOOSE a \in found : TRUE) \in found
  BY <1>2
<1> QED
  BY <1>1, <1>3 DEF ResolveToken, TokensOf

\* The project of a platform is the platform's in the sense of Apart.
LEMMA MainApart ==
  ASSUME NEW tbl, TableOK(tbl), NEW n \in Places, NEW coins, NEW i, IsMain(n, coins, tbl, i)
  PROVE  /\ i \in DOMAIN tbl /\ tbl[i].contracts \cap Listed = {}
         /\ \A m \in Places \ {n} : tbl[i].contracts \cap Mine(m) = {} /\ i # Platforms[m].id
<1>1. i \in DOMAIN tbl /\ RowShape(i, tbl[i].contracts)
  BY DEF IsMain, TableOK
<1>2. i = Platforms[n].id \/ tbl[i].contracts \cap TokensOf(Platforms[n]) # {}
  BY TokenFacts DEF IsMain
<1> QED
  BY <1>1, <1>2, Apart

-----------------------------------------------------------------------------
(* Steps that leave a platform's rows alone.                                 *)

\* The rows that are the platform's, or have a contract of it.
Concerns(n, i, c) == i = Platforms[n].id \/ c \cap Mine(n) # {}
RowsKept(n, tbl, new) ==
  \A i \in DOMAIN tbl : Concerns(n, i, tbl[i].contracts) =>
    /\ i \in DOMAIN new
    /\ new[i].contracts = tbl[i].contracts /\ new[i].seeded = tbl[i].seeded

LEMMA MainKept ==
  ASSUME NEW n \in Places, NEW tbl, NEW new, RowsKept(n, tbl, new), NEW coins, NEW i, IsMain(n, coins, tbl, i)
  PROVE  IsMain(n, coins, new, i) /\ new[i].seeded = tbl[i].seeded
<1> DEFINE t == ResolveToken(Platforms[n], coins)
<1>1. t = NoAddress \/ t \in Mine(n)
  BY TokenFacts DEF Mine
<1>2. Concerns(n, i, tbl[i].contracts)
  BY <1>1 DEF IsMain, Concerns
<1>3. /\ i \in DOMAIN tbl /\ i \in DOMAIN new
      /\ new[i].contracts = tbl[i].contracts /\ new[i].seeded = tbl[i].seeded
  BY <1>2 DEF IsMain, RowsKept
<1> QED
  BY <1>3 DEF IsMain

LEMMA ItemKept ==
  ASSUME NEW n \in Places, NEW tbl, NEW new, RowsKept(n, tbl, new),
         NEW coins, NEW item, ItemOK(n, item, coins, tbl)
  PROVE  ItemOK(n, item, coins, new)
<1> SUFFICES ASSUME item.due PROVE ItemOK(n, item, coins, new)
  BY DEF ItemOK
<1>1. Platforms[n].own \subseteq Mine(n)
  BY DEF Mine
<1>2. ~item.new => IsMain(n, coins, new, item.id) /\ ~new[item.id].seeded
  BY MainKept DEF ItemOK
<1>3. \A j \in item.retire : StubNow(n, new, j)
  <2> SUFFICES ASSUME NEW j \in item.retire PROVE StubNow(n, new, j)
    OBVIOUS
  <2>1. StubNow(n, tbl, j)
    BY DEF ItemOK
  <2>2. j \in DOMAIN tbl /\ Concerns(n, j, tbl[j].contracts)
    BY <2>1, <1>1 DEF StubNow, Concerns
  <2> QED
    BY <2>1, <2>2 DEF StubNow, RowsKept
<1>4. \A a \in Platforms[n].own : \A i \in DOMAIN tbl : KeptBy(n, tbl, i, a) => i \in DOMAIN new /\ KeptBy(n, new, i, a)
  <2> SUFFICES ASSUME NEW a \in Platforms[n].own, NEW i \in DOMAIN tbl, KeptBy(n, tbl, i, a)
               PROVE  i \in DOMAIN new /\ KeptBy(n, new, i, a)
    OBVIOUS
  <2>1. Concerns(n, i, tbl[i].contracts)
    BY <1>1 DEF KeptBy, Concerns
  <2> QED
    BY <2>1 DEF KeptBy, RowsKept
<1>5. \A a \in Platforms[n].own :
         \/ a \in item.contracts
         \/ \E i \in DOMAIN new : KeptBy(n, new, i, a) /\ (~item.new => i # item.id)
  <2> SUFFICES ASSUME NEW a \in Platforms[n].own, a \notin item.contracts
               PROVE  \E i \in DOMAIN new : KeptBy(n, new, i, a) /\ (~item.new => i # item.id)
    OBVIOUS
  <2>1. PICK i \in DOMAIN tbl : KeptBy(n, tbl, i, a) /\ (~item.new => i # item.id)
    BY DEF ItemOK
  <2> QED
    BY <2>1, <1>4
<1> QED
  BY <1>2, <1>3, <1>5 DEF ItemOK

LEMMA LostKept ==
  ASSUME NEW n \in Places, NEW tbl, NEW new, RowsKept(n, tbl, new), NEW coins,
         NEW ever, NEW later, LostOK(n, tbl, ever, coins),
         \A a \in later \ ever : \E i \in DOMAIN new : a \in new[i].contracts
  PROVE  LostOK(n, new, later, coins)
<1> SUFFICES ASSUME NEW a \in Platforms[n].own \cap later, \A i \in DOMAIN new : a \notin new[i].contracts
             PROVE  \E i \in DOMAIN new : IsMain(n, coins, new, i) /\ ~new[i].seeded
  BY DEF LostOK
<1>1. \A i \in DOMAIN tbl : a \notin tbl[i].contracts
  <2> SUFFICES ASSUME NEW i \in DOMAIN tbl, a \in tbl[i].contracts PROVE FALSE
    OBVIOUS
  <2>1. Concerns(n, i, tbl[i].contracts)
    BY DEF Concerns, Mine
  <2> QED
    BY <2>1 DEF RowsKept
<1>2. a \in ever
  OBVIOUS
<1>3. PICK i \in DOMAIN tbl : IsMain(n, coins, tbl, i) /\ ~tbl[i].seeded
  BY <1>1, <1>2 DEF LostOK
<1>4. IsMain(n, coins, new, i) /\ ~new[i].seeded
  BY <1>3, MainKept
<1> QED
  BY <1>4 DEF IsMain

-----------------------------------------------------------------------------
(* The plan.                                                                 *)

\* A finite set of numbers that is not empty has a greatest element.
LEMMA GreatestOf ==
  ASSUME NEW S, IsFiniteSet(S), S \subseteq Nat, S # {}
  PROVE  Max(S) \in S
<1> DEFINE Bad(n) == \E U \in SUBSET S : Cardinality(U) = n /\ U # {} /\ \A x \in U : \E y \in U : ~(y <= x)
           T == {n \in Nat : Bad(n)}
<1>1. T = {}
  <2> SUFFICES ASSUME T # {} PROVE FALSE
    OBVIOUS
  <2>1. T \subseteq Nat
    OBVIOUS
  <2> HIDE DEF T
  <2>2. PICK n \in T : \A m \in T : n <= m
    BY <2>1, LeastNumber
  <2> USE DEF T
  <2>3. PICK U \in SUBSET S : Cardinality(U) = n /\ U # {} /\ \A x \in U : \E y \in U : ~(y <= x)
    BY <2>2
  <2>4. PICK x \in U : TRUE
    BY <2>3
  <2> DEFINE V == U \ {x}
  <2>5. IsFiniteSet(U) /\ IsFiniteSet(V) /\ Cardinality(V) = n - 1 /\ n - 1 \in Nat
    <3>1. IsFiniteSet(U)
      BY FS_Subset
    <3>2. IsFiniteSet(V) /\ Cardinality(V) = Cardinality(U) - 1
      BY <3>1, FS_RemoveElement
    <3>3. Cardinality(V) \in Nat
      BY <3>2, FS_CardinalityType
    <3> QED
      BY <3>1, <3>2, <3>3, <2>3
  <2>6. V # {}
    <3> SUFFICES ASSUME V = {} PROVE FALSE
      OBVIOUS
    <3>1. U = {x} /\ x \in Nat
      BY <2>4
    <3> QED
      BY <3>1, <2>3
  <2>7. n \in Nat /\ n - 1 \notin T
    BY <2>2, <2>5
  <2>8. PICK z \in V : \A y \in V : y <= z
    <3>1. ~Bad(n - 1)
      BY <2>5, <2>7
    <3> HIDE DEF V
    <3>2. V \in SUBSET S
      BY DEF V
    <3> QED
      BY <3>1, <3>2, <2>5, <2>6
  <2>9. x \in Nat /\ z \in Nat /\ V \subseteq Nat
    OBVIOUS
  <2>10. CASE x <= z
    <3>1. \A y \in U : y <= z
      BY <2>8, <2>10
    <3> QED
      BY <3>1, <2>3, <2>8
  <2>11. CASE z <= x
    <3>1. \A y \in U : y <= x
      BY <2>8, <2>9, <2>11
    <3> QED
      BY <3>1, <2>3, <2>4
  <2> QED
    BY <2>9, <2>10, <2>11
<1>2. \E x \in S : \A y \in S : y <= x
  <2>1. Cardinality(S) \in Nat /\ S \in SUBSET S
    BY FS_CardinalityType
  <2>2. ~Bad(Cardinality(S))
    BY <1>1, <2>1
  <2> QED
    BY <2>1, <2>2
<1>3. \E x \in S : \A y \in S : x >= y
  BY <1>2
<1> QED
  BY <1>3 DEF Max

\* The values of a function on a finite set are finitely many.
LEMMA FiniteImage ==
  ASSUME NEW S, IsFiniteSet(S), NEW f, DOMAIN f = S
  PROVE  IsFiniteSet({f[x] : x \in S})
<1> DEFINE T == {f[x] : x \in S}
           g == [x \in S |-> f[x]]
<1>1. g \in Surjection(S, T)
  BY DEF Surjection
<1> HIDE DEF T, g
<1>2. IsFiniteSet(T)
  BY <1>1, FS_Surjection
<1> QED
  BY <1>2 DEF T

LEMMA IdsFinite == IsFiniteSet(SeedId)
<1>1. IsFiniteSet({IdOf[a] : a \in Address})
  BY SeedAssumption, FiniteImage
<1>2. IsFiniteSet(DOMAIN Platforms)
  <2>1. Len(Platforms) \in Nat /\ DOMAIN Platforms = 1..Len(Platforms)
    BY SeedAssumption
  <2> QED
    BY <2>1, FS_Interval
<1>3. IsFiniteSet({Platforms[n].id : n \in DOMAIN Platforms})
  <2> DEFINE f == [n \in DOMAIN Platforms |-> Platforms[n].id]
  <2>1. IsFiniteSet({f[n] : n \in DOMAIN Platforms})
    BY <1>2, FiniteImage
  <2> QED
    BY <2>1
<1> QED
  BY <1>1, <1>3, FS_Union DEF SeedId

\* The project of a contract has it.
LEMMA IndexFacts ==
  ASSUME NEW projs, DOMAIN projs \subseteq SeedId, NEW a
  PROVE  /\ IndexOf(projs, a) = NoId <=> \A i \in DOMAIN projs : a \notin projs[i].contracts
         /\ IndexOf(projs, a) # NoId =>
              IndexOf(projs, a) \in DOMAIN projs /\ a \in projs[IndexOf(projs, a)].contracts
<1> DEFINE holders == {i \in DOMAIN projs : a \in projs[i].contracts}
<1>1. IsFiniteSet(holders) /\ holders \subseteq Nat \ {NoId}
  BY IdsFinite, FS_Subset, PlatformFacts
<1>2. holders # {} => Max(holders) \in holders
  BY <1>1, GreatestOf
<1>3. IndexOf(projs, a) = IF holders = {} THEN NoId ELSE Max(holders)
  BY DEF IndexOf
<1> QED
  BY <1>1, <1>2, <1>3

\* What has been read is in the table as it was read.
SeenOK(seen, tbl) == \A i \in DOMAIN seen : i \in DOMAIN tbl /\ seen[i] = tbl[i]

LEMMA PlanHolds ==
  ASSUME NEW tbl, TableOK(tbl), NEW projs, SeenOK(projs, tbl), NEW n \in Places, NEW coins
  PROVE  /\ ItemOK(n, PlanPlatform(Platforms[n], projs, coins), coins, tbl)
         /\ PlanPlatform(Platforms[n], projs, coins) =
              [f \in ItemParts |-> PlanPlatform(Platforms[n], projs, coins)[f]]
<1> DEFINE p == Platforms[n]
           coin == ResolveToken(p, coins)
           main == MainOf(p, coin, projs)
           elsewhere == {a \in p.own : IndexOf(projs, a) \notin {NoId, main}}
           merged == {a \in elsewhere : IsStub(p, projs, IndexOf(projs, a))}
           tracked == {a \in {coin} \ {NoAddress} : IndexOf(projs, a) # NoId}
           item == PlanPlatform(p, projs, coins)
<1>1. /\ item.id = IF main = NoId THEN p.id ELSE main
      /\ item.new = (main = NoId)
      /\ item.due = (main # NoId => ~projs[main].seeded)
      /\ item.contracts = tracked \cup (p.own \ elsewhere) \cup merged
      /\ item.retire = {IndexOf(projs, a) : a \in merged}
      /\ item = [f \in ItemParts |-> item[f]]
  BY DEF PlanPlatform, ItemParts
<1> HIDE DEF item
<1>2. DOMAIN projs \subseteq SeedId /\ DOMAIN projs \subseteq DOMAIN tbl
  BY DEF SeenOK, TableOK
<1>3. \A a : /\ IndexOf(projs, a) = NoId <=> \A i \in DOMAIN projs : a \notin projs[i].contracts
             /\ IndexOf(projs, a) # NoId => /\ IndexOf(projs, a) \in DOMAIN tbl
                                            /\ tbl[IndexOf(projs, a)] = projs[IndexOf(projs, a)]
                                            /\ a \in tbl[IndexOf(projs, a)].contracts
  BY <1>2, IndexFacts DEF SeenOK
<1>4. coin \in TokensOf(p) \cup {NoAddress} /\ NoAddress \notin TokensOf(p)
  BY TokenFacts DEF TokensOf
<1>5. coin # NoAddress => main = IndexOf(projs, coin) /\ (main # NoId => main = IdOf[coin])
  <2> SUFFICES ASSUME coin # NoAddress PROVE main = IndexOf(projs, coin) /\ (main # NoId => main = IdOf[coin])
    OBVIOUS
  <2>1. main = IndexOf(projs, coin)
    BY DEF MainOf
  <2>2. ASSUME main # NoId PROVE main = IdOf[coin]
    <3>1. main \in DOMAIN tbl /\ coin \in tbl[main].contracts \cap TokensOf(p)
      BY <1>3, <1>4, <2>1, <2>2
    <3> QED
      BY <3>1 DEF TableOK, TokenPlace
  <2> QED
    BY <2>1, <2>2
<1>6. main # NoId => IsMain(n, coins, tbl, main) /\ tbl[main] = projs[main]
  <2>1. CASE coin # NoAddress
    BY <1>3, <1>5, <2>1 DEF IsMain
  <2>2. CASE coin = NoAddress
    <3>1. main # NoId => main = p.id /\ main \in DOMAIN projs
      BY <2>2 DEF MainOf
    <3> QED
      BY <1>2, <2>2, <3>1 DEF IsMain, SeenOK
  <2> QED
    BY <2>1, <2>2
<1>7. tracked \subseteq TokensOf(p) /\ (tracked # {} => tracked = {coin} /\ coin # NoAddress /\ main # NoId)
  BY <1>4, <1>5
<1>8. coin # NoAddress /\ main # NoId => coin \in tracked
  BY <1>5
<1>9. p.own \subseteq Mine(n) /\ p.own \cap TokensOf(p) = {}
  BY PlatformFacts DEF Mine
<1>10. item.contracts \subseteq Mine(n)
  BY <1>1, <1>7, <1>9 DEF Mine
<1>11. TokenPlace(item.id, item.contracts)
  <2> SUFFICES ASSUME NEW k \in Places, NEW t \in item.contracts \cap TokensOf(Platforms[k])
               PROVE  item.id = IdOf[t]
    BY DEF TokenPlace
  <2>1. t \in Mine(n) \cap Mine(k)
    BY <1>10 DEF Mine
  <2>2. k = n
    BY <2>1, PlatformFacts
  <2>3. t \in tracked
    BY <1>1, <1>9, <2>2
  <2> QED
    BY <1>1, <1>5, <1>7, <2>3
<1>12. \A a \in elsewhere : /\ IndexOf(projs, a) \in DOMAIN tbl /\ IndexOf(projs, a) # main
                            /\ tbl[IndexOf(projs, a)] = projs[IndexOf(projs, a)]
                            /\ a \in tbl[IndexOf(projs, a)].contracts
  BY <1>3
<1>13. \A j \in item.retire : StubNow(n, tbl, j) /\ (~item.new => j # item.id)
  <2> SUFFICES ASSUME NEW a \in merged
               PROVE  /\ StubNow(n, tbl, IndexOf(projs, a))
                      /\ ~item.new => IndexOf(projs, a) # item.id
    BY <1>1
  <2>1. IsStub(p, projs, IndexOf(projs, a)) /\ a \in elsewhere
    OBVIOUS
  <2> QED
    BY <1>1, <1>12, <2>1 DEF StubNow, IsStub
<1>14. \A a \in p.own :
         \/ a \in item.contracts
         \/ \E i \in DOMAIN tbl : KeptBy(n, tbl, i, a) /\ (~item.new => i # item.id)
  <2> SUFFICES ASSUME NEW a \in p.own, a \notin item.contracts
               PROVE  \E i \in DOMAIN tbl : KeptBy(n, tbl, i, a) /\ (~item.new => i # item.id)
    OBVIOUS
  <2>1. a \in elsewhere /\ a \notin merged
    BY <1>1
  <2>2. ~IsStub(p, projs, IndexOf(projs, a))
    BY <2>1
  <2>3. KeptBy(n, tbl, IndexOf(projs, a), a)
    BY <1>12, <2>1, <2>2 DEF IsStub, KeptBy
  <2>4. ~item.new => IndexOf(projs, a) # item.id
    BY <1>1, <1>12, <2>1
  <2> QED
    BY <2>3, <2>4 DEF KeptBy
<1>15. /\ item.new => item.id = p.id
       /\ item.due /\ ~item.new => /\ IsMain(n, coins, tbl, item.id) /\ ~tbl[item.id].seeded
                                   /\ coin # NoAddress => coin \in item.contracts
  BY <1>1, <1>6, <1>8
<1> QED
  BY <1>1, <1>10, <1>11, <1>13, <1>14, <1>15 DEF ItemOK, item

\* Every platform project found this way is the one of the plan.
LEMMA LostIsPlanned ==
  ASSUME TableOK(table), \A n \in Places : LostOK(n, table, had, asked[n])
  PROVE  NothingLost
<1> SUFFICES ASSUME NEW n \in Places, NEW a \in Platforms[n].own \cap had, HoldersOf(a) = {}
             PROVE  LET item == PlanPlatform(Platforms[n], table, asked[n])
                    IN item.due /\ ~item.new /\ a \in item.contracts
  BY DEF NothingLost, Places
<1> DEFINE p == Platforms[n]
           coin == ResolveToken(p, asked[n])
           main == MainOf(p, coin, table)
<1>1. \A i \in DOMAIN table : a \notin table[i].contracts
  BY DEF HoldersOf
<1>2. PICK i \in DOMAIN table : IsMain(n, asked[n], table, i) /\ ~table[i].seeded
  BY <1>1 DEF LostOK
<1>3. DOMAIN table \subseteq SeedId /\ i # NoId
  BY PlatformFacts DEF TableOK
<1>4. IndexOf(table, a) = NoId
  BY <1>1, <1>3, IndexFacts
<1>5. main = i
  <2>1. CASE coin # NoAddress
    <3>1. i = IdOf[coin] /\ coin \in table[i].contracts /\ coin \in TokensOf(p)
      BY <1>2, <2>1, TokenFacts DEF IsMain
    <3>2. main = IndexOf(table, coin)
      BY <2>1 DEF MainOf
    <3>3. main \in DOMAIN table /\ coin \in table[main].contracts
      BY <1>3, <3>1, <3>2, IndexFacts
    <3>4. main = IdOf[coin]
      BY <3>1, <3>3 DEF TableOK, TokenPlace
    <3> QED
      BY <3>1, <3>4
  <2>2. CASE coin = NoAddress
    BY <1>2, <2>2 DEF IsMain, MainOf
  <2> QED
    BY <2>1, <2>2
<1> QED
  BY <1>2, <1>3, <1>4, <1>5 DEF PlanPlatform

-----------------------------------------------------------------------------
(* The steps of the script that leave the projects alone.                    *)

LEMMA AsleepOK == \A tbl : ScriptOK(Asleep, tbl)
<1>1. /\ Asleep = [f \in Parts |-> Asleep[f]] /\ Asleep.at = "idle" /\ DOMAIN Asleep.seen = {}
  BY DEF Asleep, Parts
<1> QED
  BY <1>1 DEF ScriptOK, ReadOK, MarksOK, PlanOK, TurnOK, Planned, Writing, Retiring

LEMMA SameTableInv ==
  ASSUME SeedInv, UNCHANGED <<table, had, asked>>, ScriptOK(script', table)
  PROVE  SeedInv'
  BY DEF SeedInv

LEMMA StopsInv == ASSUME SeedInv, script' = Asleep, UNCHANGED <<table, had, asked>> PROVE SeedInv'
  BY AsleepOK, SameTableInv

\* The script goes on with the same plan.
SamePlan(s, r) == /\ r = [f \in Parts |-> r[f]]
                  /\ r.plan = s.plan /\ r.coins = s.coins /\ r.turn = s.turn

LEMMA PlanSame ==
  ASSUME NEW s, NEW r, NEW tbl, PlanOK(s, tbl), s.at \in Planned, SamePlan(s, r)
  PROVE  PlanOK(r, tbl)
  BY DEF PlanOK, SamePlan

LEMMA GoesFacts ==
  ASSUME SeedInv, NEW at, GoesTo(at)
  PROVE  /\ SamePlan(script, script') /\ script'.at = at /\ script'.id = script.id
         /\ script'.seen = script.seen /\ script'.marks = script.marks
<1>1. script = [f \in Parts |-> script[f]]
  BY DEF SeedInv, ScriptOK
<1> QED
  BY <1>1 DEF GoesTo, SamePlan, Parts

LEMMA StartInv == ASSUME SeedInv, StartSeeding PROVE SeedInv'
<1>1. GoesTo("read") /\ script.at = "idle" /\ UNCHANGED <<table, had, asked>>
  BY DEF StartSeeding, allButScript
<1>2. /\ SamePlan(script, script') /\ script'.at = "read" /\ script'.seen = script.seen
  BY <1>1, GoesFacts
<1>3. ScriptOK(script', table)
  BY <1>1, <1>2 DEF SeedInv, ScriptOK, SamePlan, ReadOK, MarksOK, PlanOK, TurnOK, Planned, Writing, Retiring
<1> QED
  BY <1>1, <1>3, SameTableInv

LEMMA ReadPageInv == ASSUME SeedInv, ReadProjectPage PROVE SeedInv'
<1>1. script.at = "read" /\ UNCHANGED <<table, had, asked>>
  BY DEF ReadProjectPage, allButScript
<1>2. PICK page \in SUBSET DOMAIN table, at \in {"read", "plan"} :
        script' = [script EXCEPT
          !.seen = [i \in DOMAIN script.seen \cup page |-> IF i \in page THEN table[i] ELSE script.seen[i]],
          !.at = at]
  BY <1>1 DEF ReadProjectPage
<1>3. script = [f \in Parts |-> script[f]]
  BY DEF SeedInv, ScriptOK
<1>4. /\ script' = [f \in Parts |-> script'[f]] /\ script'.at = at
      /\ script'.seen = [i \in DOMAIN script.seen \cup page |-> IF i \in page THEN table[i] ELSE script.seen[i]]
  BY <1>2, <1>3 DEF Parts
<1>5. \A i \in DOMAIN script'.seen : i \in DOMAIN table /\ script'.seen[i] = table[i]
  <2>1. \A i \in DOMAIN script.seen : i \in DOMAIN table /\ script.seen[i] = table[i]
    BY <1>1 DEF SeedInv, ScriptOK, ReadOK
  <2>2. page \subseteq DOMAIN table
    BY <1>2
  <2> QED
    BY <1>4, <2>1, <2>2
<1>6. ScriptOK(script', table)
  BY <1>4, <1>5 DEF ScriptOK, ReadOK, MarksOK, PlanOK, TurnOK, Planned, Writing, Retiring
<1> QED
  BY <1>1, <1>6, SameTableInv

LEMMA PlanInv == ASSUME SeedInv, BuildPlan PROVE SeedInv'
<1>1. script.at = "plan" /\ UNCHANGED <<table, had, asked>>
  BY DEF BuildPlan, allButScript
<1>2. PICK coins \in CoinIndex :
        script' \in {Asleep,
          [Asleep EXCEPT !.at = "mark", !.marks = TokensToMark(script.seen), !.coins = coins,
            !.plan = [n \in DOMAIN Platforms |-> PlanPlatform(Platforms[n], script.seen, coins)]]}
  BY DEF BuildPlan
<1>3. CASE script' = Asleep
  BY <1>1, <1>3, StopsInv
<1>4. CASE script' # Asleep
  <2>1. /\ script' = [f \in Parts |-> script'[f]] /\ script'.at = "mark"
        /\ script'.marks = TokensToMark(script.seen) /\ script'.coins = coins /\ script'.turn = 1
        /\ script'.plan = [n \in Places |-> PlanPlatform(Platforms[n], script.seen, coins)]
    BY <1>2, <1>4 DEF Asleep, Parts, Places
  <2>2. SeenOK(script.seen, table) /\ TableOK(table)
    BY <1>1 DEF SeedInv, ScriptOK, ReadOK, SeenOK
  <2>3. \A n \in Places : /\ ItemOK(n, script'.plan[n], coins, table)
                          /\ script'.plan[n] = [f \in ItemParts |-> script'.plan[n][f]]
    BY <2>1, <2>2, PlanHolds
  <2>4. PlanOK(script', table)
    <3>1. script'.plan = [n \in Places |-> script'.plan[n]]
      BY <2>1
    <3>2. script'.turn \in Nat \ {0}
      BY <2>1
    <3>3. \A n \in Places : ItemOK(n, script'.plan[n], script'.coins, table)
      BY <2>1, <2>3
    <3> QED
      BY <2>3, <3>1, <3>2, <3>3, Zenon DEF PlanOK
  <2>5. \A i \in TokensToMark(script.seen) : i \in DOMAIN table /\ table[i].contracts \cap Listed # {}
    <3> SUFFICES ASSUME NEW a \in Listed, IndexOf(script.seen, a) # NoId
                 PROVE  /\ IndexOf(script.seen, a) \in DOMAIN table
                        /\ a \in table[IndexOf(script.seen, a)].contracts
      BY DEF TokensToMark
    <3>1. DOMAIN script.seen \subseteq SeedId
      BY <2>2 DEF SeenOK, TableOK
    <3> QED
      BY <2>2, <3>1, IndexFacts DEF SeenOK
  <2>6. ScriptOK(script', table)
    BY <2>1, <2>4, <2>5 DEF ScriptOK, ReadOK, MarksOK, TurnOK, Writing, Retiring
  <2> QED
    BY <1>1, <2>6, SameTableInv
<1> QED
  BY <1>3, <1>4

LEMMA MarkedInv == ASSUME SeedInv, TokensMarked PROVE SeedInv'
<1>1. GoesTo("platform") /\ script.at = "mark" /\ UNCHANGED <<table, had, asked>>
  BY DEF TokensMarked, allButScript
<1>2. SamePlan(script, script') /\ script'.at = "platform"
  BY <1>1, GoesFacts
<1>3. PlanOK(script', table)
  <2>1. PlanOK(script, table) /\ script.at \in Planned /\ script'.at \in Planned
    BY <1>1, <1>2 DEF SeedInv, ScriptOK, Planned
  <2> QED
    BY <1>2, <2>1 DEF PlanOK, SamePlan
<1>4. ScriptOK(script', table)
  BY <1>2, <1>3 DEF ScriptOK, SamePlan, ReadOK, MarksOK, TurnOK, Writing, Retiring
<1> QED
  BY <1>1, <1>4, SameTableInv

\* A plan has an item for every platform.
LEMMA PlanLength ==
  ASSUME NEW q, q = [n \in Places |-> q[n]] PROVE Len(q) = Len(Platforms) /\ Places = 1..Len(q) /\ Len(q) \in Nat
<1>1. Len(Platforms) \in Nat /\ Places = 1..Len(Platforms)
  BY SeedAssumption DEF Places
<1>2. q \in Seq({q[n] : n \in Places})
  BY <1>1, SeqDef
<1>3. Len(q) \in Nat /\ DOMAIN q = 1..Len(q)
  BY <1>2, LenProperties
<1>4. Len(q) = Len(Platforms)
  BY <1>1, <1>3
<1> QED
  BY <1>1, <1>4

\* The items that follow are as they were.
LEMMA TurnMoves ==
  ASSUME NEW s, NEW r, NEW tbl, PlanOK(s, tbl), s.at \in Planned,
         r.turn = s.turn + 1, r.plan = s.plan, r.coins = s.coins
  PROVE  PlanOK(r, tbl)
<1>1. s.turn \in Nat \ {0} /\ Places \subseteq Nat
  BY SeedAssumption DEF PlanOK, Places
<1>2. \A n \in Places : n >= s.turn + 1 => n >= s.turn
  <2>1. \A k \in Nat : \A n \in Nat : n >= k + 1 => n >= k
    OBVIOUS
  <2> QED
    BY <1>1, <2>1
<1>3. s.turn + 1 \in Nat \ {0}
  BY <1>1
<1> QED
  BY <1>2, <1>3 DEF PlanOK

LEMMA NextPlatformInv == ASSUME SeedInv, NextPlatform PROVE SeedInv'
<1>1. script.at = "platform" /\ UNCHANGED <<table, had, asked>>
  BY DEF NextPlatform, allButScript
<1>2. /\ script = [f \in Parts |-> script[f]] /\ script.turn \in Nat \ {0}
      /\ PlanOK(script, table) /\ script.plan = [n \in Places |-> script.plan[n]]
  BY <1>1 DEF SeedInv, ScriptOK, PlanOK, Planned
<1>3. Places = 1..Len(script.plan) /\ Len(script.plan) \in Nat
  BY <1>2, PlanLength
<1>4. CASE script.turn > Len(script.plan)
  <2>1. script' = Asleep
    BY <1>4 DEF NextPlatform
  <2> QED
    BY <1>1, <2>1, StopsInv
<1>5. CASE ~(script.turn > Len(script.plan)) /\ ~Item.due
  <2>1. script' = [script EXCEPT !.turn = @ + 1]
    BY <1>5 DEF NextPlatform
  <2>2. /\ script' = [f \in Parts |-> script'[f]] /\ script'.at = "platform" /\ script'.turn = script.turn + 1
        /\ script'.plan = script.plan /\ script'.coins = script.coins
    BY <1>1, <1>2, <2>1 DEF Parts
  <2>3. PlanOK(script', table)
    BY <1>1, <1>2, <2>2, TurnMoves DEF Planned
  <2>4. ScriptOK(script', table)
    BY <2>2, <2>3 DEF ScriptOK, ReadOK, MarksOK, TurnOK, Writing, Retiring
  <2> QED
    BY <1>1, <2>4, SameTableInv
<1>6. CASE ~(script.turn > Len(script.plan)) /\ Item.due
  <2> DEFINE at == IF Item.new THEN "insert" ELSE "retire"
  <2>1. script' = [script EXCEPT !.at = at]
    BY <1>6 DEF NextPlatform
  <2>2. /\ SamePlan(script, script') /\ script'.at = at
    BY <1>2, <2>1 DEF SamePlan, Parts
  <2>3. script.turn \in Places /\ at \in {"insert", "retire"}
    BY <1>2, <1>3, <1>6
  <2>4. PlanOK(script', table)
    BY <1>1, <1>2, <2>2, <2>3 DEF PlanOK, Planned, Writing, SamePlan
  <2>5. TurnOK(script', table)
    BY <1>6, <2>2, <2>3 DEF TurnOK, Retiring, SamePlan, Item
  <2>6. ScriptOK(script', table)
    BY <2>2, <2>3, <2>4, <2>5 DEF ScriptOK, ReadOK, MarksOK, SamePlan
  <2> QED
    BY <1>1, <2>6, SameTableInv
<1> QED
  BY <1>4, <1>5, <1>6

LEMMA RepointLedgerInv == ASSUME SeedInv, NEW old, RepointLedger(old) PROVE SeedInv'
<1> DEFINE m == script.turn
           item == script.plan[m]
           next == script'.plan[m]
<1>1. /\ script.at = "retire" /\ old \in item.retire /\ UNCHANGED <<table, had, asked>>
      /\ script' = [script EXCEPT !.at = "events", !.id = old, !.plan[m].retire = @ \ {old}]
  BY DEF RepointLedger, Item
<1>2. /\ script = [f \in Parts |-> script[f]] /\ PlanOK(script, table) /\ TurnOK(script, table)
  BY DEF SeedInv, ScriptOK
<1>3. /\ m \in Nat \ {0} /\ m \in Places /\ item.due /\ script.plan = [n \in Places |-> script.plan[n]]
      /\ \A n \in Places : script.plan[n] = [f \in ItemParts |-> script.plan[n][f]]
      /\ \A n \in Places : n >= m => ItemOK(n, script.plan[n], script.coins, table)
      /\ item.new => item.id \in DOMAIN table /\ table[item.id].contracts = item.contracts /\ table[item.id].seeded
  BY <1>1, <1>2 DEF PlanOK, TurnOK, Planned, Writing
<1>4. /\ script' = [f \in Parts |-> script'[f]] /\ script'.at = "events" /\ script'.id = old
      /\ script'.turn = m /\ script'.coins = script.coins
      /\ script'.plan = [n \in Places |-> IF n = m THEN [item EXCEPT !.retire = @ \ {old}] ELSE script.plan[n]]
  BY <1>1, <1>2, <1>3 DEF Parts
<1>5. /\ script'.plan = [n \in Places |-> script'.plan[n]]
      /\ \A n \in Places : n # m => script'.plan[n] = script.plan[n]
      /\ next = [item EXCEPT !.retire = @ \ {old}]
  BY <1>3, <1>4
<1> HIDE DEF item, next
<1>6. /\ next = [f \in ItemParts |-> next[f]]
      /\ next.id = item.id /\ next.new = item.new /\ next.due = item.due
      /\ next.contracts = item.contracts /\ next.retire = item.retire \ {old}
  <2>1. item = [f \in ItemParts |-> item[f]]
    BY <1>3 DEF item
  <2> QED
    BY <1>5, <2>1 DEF ItemParts
<1>7. ItemOK(m, item, script.coins, table)
  BY <1>3 DEF item
<1>8. ItemOK(m, next, script.coins, table)
  BY <1>6, <1>7 DEF ItemOK
<1>9. PlanOK(script', table)
  <2>1. \A n \in Places : script'.plan[n] = [f \in ItemParts |-> script'.plan[n][f]]
    BY <1>3, <1>5, <1>6 DEF next
  <2>2. \A n \in Places : n >= m => ItemOK(n, script'.plan[n], script.coins, table)
    BY <1>3, <1>5, <1>8 DEF next
  <2> QED
    BY <1>3, <1>4, <1>5, <2>1, <2>2 DEF PlanOK
<1>10. StubNow(m, table, old) /\ old # item.id
  BY <1>1, <1>3, <1>7 DEF ItemOK, StubNow
<1>11. TurnOK(script', table)
  <2>1. script'.plan[script'.turn] = next
    BY <1>4 DEF next
  <2> QED
    BY <1>3, <1>4, <1>6, <1>10, <2>1 DEF TurnOK
<1>12. ScriptOK(script', table)
  BY <1>4, <1>9, <1>11 DEF ScriptOK, ReadOK, MarksOK
<1> QED
  BY <1>1, <1>12, SameTableInv

LEMMA RepointedInv == ASSUME SeedInv, RepointEvents \/ DropScores PROVE SeedInv'
<1>1. PICK at \in {"scores", "delete"} : GoesTo(at)
  BY DEF RepointEvents, DropScores
<1>2. script.at \in {"events", "scores"} /\ UNCHANGED <<table, had, asked>>
  BY DEF RepointEvents, DropScores
<1>3. SamePlan(script, script') /\ script'.at = at /\ script'.id = script.id
  BY <1>1, GoesFacts
<1>4. PlanOK(script, table) /\ TurnOK(script, table)
  BY DEF SeedInv, ScriptOK
<1>5. PlanOK(script', table)
  BY <1>2, <1>3, <1>4 DEF PlanOK, SamePlan, Planned, Writing, Retiring
<1>6. TurnOK(script', table)
  BY <1>1, <1>2, <1>3, <1>4 DEF TurnOK, SamePlan, Writing, Retiring
<1>7. ScriptOK(script', table)
  BY <1>1, <1>3, <1>5, <1>6 DEF ScriptOK, SamePlan, ReadOK, MarksOK
<1> QED
  BY <1>2, <1>7, SameTableInv

LEMMA StubsRetiredInv == ASSUME SeedInv, StubsRetired PROVE SeedInv'
<1>1. /\ script.at = "retire" /\ Item.retire = {} /\ UNCHANGED <<table, had, asked>>
      /\ script' = IF Item.new THEN [script EXCEPT !.at = "platform", !.turn = @ + 1]
                   ELSE [script EXCEPT !.at = "update"]
  BY DEF StubsRetired, allButScript
<1>2. /\ script = [f \in Parts |-> script[f]] /\ PlanOK(script, table) /\ TurnOK(script, table)
  BY DEF SeedInv, ScriptOK
<1>3. CASE Item.new
  <2>1. /\ script' = [f \in Parts |-> script'[f]] /\ script'.at = "platform" /\ script'.turn = script.turn + 1
        /\ script'.plan = script.plan /\ script'.coins = script.coins
    BY <1>1, <1>2, <1>3 DEF Parts
  <2>2. PlanOK(script', table)
    BY <1>1, <1>2, <2>1, TurnMoves DEF Planned, Writing
  <2>3. ScriptOK(script', table)
    BY <2>1, <2>2 DEF ScriptOK, ReadOK, MarksOK, TurnOK, Writing, Retiring
  <2> QED
    BY <1>1, <2>3, SameTableInv
<1>4. CASE ~Item.new
  <2>1. SamePlan(script, script') /\ script'.at = "update"
    BY <1>1, <1>2, <1>4 DEF Parts, SamePlan
  <2>2. PlanOK(script', table)
    BY <1>1, <1>2, <2>1, PlanSame DEF Planned, Writing
  <2>3. TurnOK(script', table)
    BY <1>1, <1>2, <1>4, <2>1 DEF TurnOK, SamePlan, Writing, Retiring, Item
  <2>4. ScriptOK(script', table)
    BY <2>1, <2>2, <2>3 DEF ScriptOK, SamePlan, ReadOK, MarksOK
  <2> QED
    BY <1>1, <2>4, SameTableInv
<1> QED
  BY <1>3, <1>4

\* The platform the script is at.
LEMMA AtWork ==
  ASSUME SeedInv, script.at \in Writing
  PROVE  LET m == script.turn
             item == script.plan[m]
         IN /\ m \in Places /\ m \in Nat /\ item.due /\ ItemOK(m, item, script.coins, table)
            /\ script.at = "insert" => item.new
            /\ script.at \in {"update", "seed"} => ~item.new /\ item.retire = {}
<1>1. TurnOK(script, table) /\ PlanOK(script, table) /\ script.at \in Planned
  BY DEF SeedInv, ScriptOK, Planned
<1>2. script.turn \in Nat /\ script.turn \in Places /\ script.turn >= script.turn
  BY <1>1 DEF TurnOK, PlanOK
<1> QED
  BY <1>1, <1>2 DEF TurnOK, PlanOK

-----------------------------------------------------------------------------
(* A table that only gets rows.                                              *)

Grows(tbl, new) == \A i \in DOMAIN tbl : i \in DOMAIN new /\ new[i] = tbl[i]

LEMMA GrowsKeeps == ASSUME NEW tbl, NEW new, Grows(tbl, new) PROVE \A n \in Places : RowsKept(n, tbl, new)
  BY DEF Grows, RowsKept

LEMMA PlanKept ==
  ASSUME NEW s, NEW tbl, NEW new, PlanOK(s, tbl),
         \A n \in Places : s.at \in Planned /\ n >= s.turn => RowsKept(n, tbl, new)
  PROVE  PlanOK(s, new)
<1> SUFFICES ASSUME s.at \in Planned PROVE PlanOK(s, new)
  BY DEF PlanOK
<1>1. \A n \in Places : n >= s.turn => ItemOK(n, s.plan[n], s.coins, new)
  BY ItemKept DEF PlanOK
<1> QED
  BY <1>1 DEF PlanOK

LEMMA GrowsScript ==
  ASSUME NEW s, NEW tbl, NEW new, Grows(tbl, new), ScriptOK(s, tbl) PROVE ScriptOK(s, new)
<1>1. PlanOK(s, new)
  BY GrowsKeeps, PlanKept DEF ScriptOK
<1>2. ReadOK(s, new) /\ MarksOK(s, new)
  BY DEF ScriptOK, ReadOK, MarksOK, Grows
<1>3. TurnOK(s, new)
  BY DEF ScriptOK, TurnOK, Grows, StubNow
<1> QED
  BY <1>1, <1>2, <1>3 DEF ScriptOK

LEMMA PromoteInv == ASSUME SeedInv, NEW a \in Address, PromoteContract(a) PROVE SeedInv'
<1>1. /\ IdOf[a] \notin DOMAIN table /\ had' = had \cup {a} /\ UNCHANGED <<script, asked>>
      /\ table' = [i \in DOMAIN table \cup {IdOf[a]} |-> IF i = IdOf[a] THEN Found(a) ELSE table[i]]
  BY DEF PromoteContract
<1>2. Grows(table, table') /\ table'[IdOf[a]] = Found(a) /\ IdOf[a] \in DOMAIN table'
  BY <1>1 DEF Grows
<1>3. Found(a) \in ProjectRow /\ Found(a).contracts = {a}
  BY DEF Found, ProjectRow
<1>4. TableOK(table')
  <2>1. RowShape(IdOf[a], {a}) /\ TokenPlace(IdOf[a], {a})
    BY DEF RowShape, TokenPlace
  <2>2. IdOf[a] \in SeedId
    BY PlatformFacts
  <2> QED
    BY <1>1, <1>3, <2>1, <2>2 DEF SeedInv, TableOK
<1>5. \A n \in Places : LostOK(n, table', had', asked[n])
  <2>1. \A b \in had' \ had : \E i \in DOMAIN table' : b \in table'[i].contracts
    BY <1>1, <1>2, <1>3
  <2> QED
    BY <1>2, <2>1, GrowsKeeps, LostKept DEF SeedInv
<1> QED
  BY <1>1, <1>2, <1>4, <1>5, GrowsScript DEF SeedInv

LEMMA InsertInv == ASSUME SeedInv, InsertPlatform PROVE SeedInv'
<1> DEFINE m == script.turn
           item == script.plan[m]
<1>1. script.at = "insert" /\ asked' = asked
  BY DEF InsertPlatform
<1>2. CASE item.id \in DOMAIN table
  BY <1>2, StopsInv DEF InsertPlatform, Item
<1>3. CASE item.id \notin DOMAIN table
  <2> DEFINE made == [category |-> "launchpad", seeded |-> TRUE, contracts |-> item.contracts]
  <2>1. /\ GoesTo("retire") /\ had' = had \cup item.contracts
        /\ table' = [i \in DOMAIN table \cup {item.id} |-> IF i = item.id THEN made ELSE table[i]]
    BY <1>3 DEF InsertPlatform, Item
  <2>2. Grows(table, table') /\ item.id \in DOMAIN table' /\ table'[item.id] = made
    BY <1>3, <2>1 DEF Grows
  <2>3. m \in Places /\ item.due /\ item.new /\ ItemOK(m, item, script.coins, table) /\ m \in Nat
    BY <1>1, AtWork DEF Writing
  <2>4. item.contracts \subseteq Mine(m) /\ TokenPlace(item.id, item.contracts) /\ item.id = Platforms[m].id
    BY <2>3 DEF ItemOK
  <2>5. TableOK(table')
    <3>1. RowShape(item.id, item.contracts) /\ item.id \in SeedId /\ item.contracts \subseteq Address
      BY <2>3, <2>4, PlatformFacts DEF RowShape
    <3>2. made \in ProjectRow
      BY <3>1 DEF ProjectRow
    <3> QED
      BY <2>1, <2>4, <3>1, <3>2 DEF SeedInv, TableOK
  <2>6. \A n \in Places : LostOK(n, table', had', asked[n])
    <3>1. \A b \in had' \ had : \E i \in DOMAIN table' : b \in table'[i].contracts
      BY <2>1, <2>2
    <3> QED
      BY <2>2, <3>1, GrowsKeeps, LostKept DEF SeedInv
  <2>7. SamePlan(script, script') /\ script'.at = "retire"
    BY <2>1, GoesFacts
  <2>8. PlanOK(script', table')
    <3>1. PlanOK(script, table')
      BY <2>2, GrowsKeeps, PlanKept DEF SeedInv, ScriptOK
    <3> QED
      BY <1>1, <2>7, <3>1 DEF PlanOK, SamePlan, Planned, Writing
  <2>9. TurnOK(script', table')
    BY <2>2, <2>3, <2>7 DEF TurnOK, SamePlan, Retiring
  <2>10. ScriptOK(script', table')
    BY <2>7, <2>8, <2>9 DEF ScriptOK, ReadOK, MarksOK, SamePlan
  <2> QED
    BY <1>1, <2>5, <2>6, <2>10 DEF SeedInv
<1> QED
  BY <1>2, <1>3

-----------------------------------------------------------------------------
(* Updates of a row.                                                         *)

Rewritten(tbl, x, r) == [j \in DOMAIN tbl |-> IF j = x THEN r ELSE tbl[j]]

LEMMA UpdateCases ==
  ASSUME NEW x \in DOMAIN table, NEW r, NEW next, Update(x, r, next)
  PROVE  \/ script' = Asleep /\ table' = table /\ had' = had
         \/ script' = next /\ table' = Rewritten(table, x, r) /\ had' = had \cup r.contracts
  BY DEF Update, Rewritten

LEMMA RewrittenFacts ==
  ASSUME NEW tbl, TableOK(tbl), NEW x \in DOMAIN tbl, NEW r \in ProjectRow,
         RowShape(x, r.contracts), TokenPlace(x, r.contracts)
  PROVE  LET new == Rewritten(tbl, x, r)
         IN /\ TableOK(new) /\ DOMAIN new = DOMAIN tbl /\ new[x] = r
            /\ \A j \in DOMAIN tbl \ {x} : new[j] = tbl[j]
  BY DEF Rewritten, TableOK

\* A row may change for a platform it does not concern.
LEMMA RewrittenKeeps ==
  ASSUME NEW tbl, NEW x \in DOMAIN tbl, NEW r, NEW n \in Places,
         \/ ~Concerns(n, x, tbl[x].contracts)
         \/ r.contracts = tbl[x].contracts /\ r.seeded = tbl[x].seeded
  PROVE  RowsKept(n, tbl, Rewritten(tbl, x, r))
  BY DEF RowsKept, Rewritten

\* Nothing is lost by it.
LEMMA RewrittenLost ==
  ASSUME SeedInv, NEW x \in DOMAIN table, NEW r, NEW n \in Places,
         table' = Rewritten(table, x, r), had' = had \cup r.contracts,
         RowsKept(n, table, table')
  PROVE  LostOK(n, table', had', asked[n])
<1>1. table'[x] = r /\ x \in DOMAIN table'
  BY DEF Rewritten
<1>2. \A b \in had' \ had : \E i \in DOMAIN table' : b \in table'[i].contracts
  BY <1>1
<1> QED
  BY <1>2, LostKept DEF SeedInv

LEMMA MarkTokenInv == ASSUME SeedInv, NEW x, MarkToken(x) PROVE SeedInv'
<1> DEFINE r == [table[x] EXCEPT !.category = "launchpad"]
           next == [script EXCEPT !.at = "marked", !.id = x, !.marks = @ \ {x}]
<1>1. script.at = "mark" /\ x \in script.marks /\ asked' = asked
  BY DEF MarkToken
<1>2. x \in DOMAIN table /\ table[x].contracts \cap Listed # {}
  BY <1>1 DEF SeedInv, ScriptOK, MarksOK
<1>3. /\ table[x] \in ProjectRow /\ RowShape(x, table[x].contracts) /\ TokenPlace(x, table[x].contracts)
      /\ TableOK(table)
  BY <1>2 DEF SeedInv, TableOK
<1>4. r \in ProjectRow /\ r.contracts = table[x].contracts /\ r.seeded = table[x].seeded
  BY <1>3 DEF ProjectRow
<1>5. Update(x, r, next)
  BY <1>2 DEF MarkToken, RowOf
<1>6. CASE script' = Asleep /\ table' = table /\ had' = had
  BY <1>1, <1>6, StopsInv
<1>7. CASE script' = next /\ table' = Rewritten(table, x, r) /\ had' = had \cup r.contracts
  <2>1. /\ SamePlan(script, script') /\ script'.at = "marked" /\ script'.id = x
        /\ script'.marks = script.marks \ {x}
    BY <1>7 DEF SeedInv, ScriptOK, SamePlan, Parts
  <2> HIDE DEF r, next
  <2>2. /\ TableOK(table') /\ DOMAIN table' = DOMAIN table
        /\ \A j \in DOMAIN table : table'[j].contracts = table[j].contracts
    BY <1>2, <1>3, <1>4, <1>7, RewrittenFacts
  <2>3. \A n \in Places : RowsKept(n, table, table')
    BY <1>2, <1>4, <1>7, RewrittenKeeps
  <2>4. \A n \in Places : LostOK(n, table', had', asked[n])
    BY <1>2, <1>7, <2>3, RewrittenLost
  <2>5. PlanOK(script', table')
    <3>1. PlanOK(script, table')
      BY <2>3, PlanKept DEF SeedInv, ScriptOK
    <3> QED
      BY <1>1, <2>1, <3>1, PlanSame DEF Planned
  <2>6. MarksOK(script', table')
    <3>1. \A i \in script.marks : i \in DOMAIN table /\ table[i].contracts \cap Listed # {}
      BY <1>1 DEF SeedInv, ScriptOK, MarksOK
    <3> QED
      BY <1>1, <2>1, <2>2, <3>1 DEF MarksOK
  <2>7. ScriptOK(script', table')
    BY <2>1, <2>5, <2>6 DEF ScriptOK, ReadOK, TurnOK, Writing, Retiring, SamePlan
  <2> QED
    BY <1>1, <2>2, <2>4, <2>7 DEF SeedInv
<1> QED
  BY <1>2, <1>5, <1>6, <1>7, UpdateCases

LEMMA SeedTokenInv == ASSUME SeedInv, SeedToken PROVE SeedInv'
<1> DEFINE x == script.id
           r == [table[x] EXCEPT !.seeded = TRUE]
           next == [script EXCEPT !.at = "mark"]
<1>1. script.at = "marked" /\ asked' = asked
  BY DEF SeedToken
<1>2. x \in DOMAIN table /\ table[x].contracts \cap Listed # {}
  BY <1>1 DEF SeedInv, ScriptOK, MarksOK
<1>3. /\ table[x] \in ProjectRow /\ RowShape(x, table[x].contracts) /\ TokenPlace(x, table[x].contracts)
      /\ TableOK(table)
  BY <1>2 DEF SeedInv, TableOK
<1>4. r \in ProjectRow /\ r.contracts = table[x].contracts
  BY <1>3 DEF ProjectRow
<1>5. Update(x, r, next)
  BY <1>2 DEF SeedToken, RowOf
<1>6. CASE script' = Asleep /\ table' = table /\ had' = had
  BY <1>1, <1>6, StopsInv
<1>7. CASE script' = next /\ table' = Rewritten(table, x, r) /\ had' = had \cup r.contracts
  <2>1. SamePlan(script, script') /\ script'.at = "mark" /\ script'.marks = script.marks
    BY <1>7 DEF SeedInv, ScriptOK, SamePlan, Parts
  <2> HIDE DEF r, next
  <2>2. /\ TableOK(table') /\ DOMAIN table' = DOMAIN table
        /\ \A j \in DOMAIN table : table'[j].contracts = table[j].contracts
    BY <1>2, <1>3, <1>4, <1>7, RewrittenFacts
  <2>3. \A n \in Places : RowsKept(n, table, table')
    <3>1. \A n \in Places : ~Concerns(n, x, table[x].contracts)
      BY <1>2, <1>3, ListedApart DEF Concerns
    <3> QED
      BY <1>2, <1>7, <3>1, RewrittenKeeps
  <2>4. \A n \in Places : LostOK(n, table', had', asked[n])
    BY <1>2, <1>7, <2>3, RewrittenLost
  <2>5. PlanOK(script', table')
    <3>1. PlanOK(script, table')
      BY <2>3, PlanKept DEF SeedInv, ScriptOK
    <3> QED
      BY <1>1, <2>1, <3>1, PlanSame DEF Planned
  <2>6. MarksOK(script', table')
    <3>1. \A i \in script.marks : i \in DOMAIN table /\ table[i].contracts \cap Listed # {}
      BY <1>1 DEF SeedInv, ScriptOK, MarksOK
    <3> QED
      BY <2>1, <2>2, <3>1 DEF MarksOK
  <2>7. ScriptOK(script', table')
    BY <2>1, <2>5, <2>6 DEF ScriptOK, ReadOK, TurnOK, Writing, Retiring, SamePlan
  <2> QED
    BY <1>1, <2>2, <2>4, <2>7 DEF SeedInv
<1> QED
  BY <1>2, <1>5, <1>6, <1>7, UpdateCases

-----------------------------------------------------------------------------
(* The deletion of a stub, and the writes of the platform's own project.     *)

LEMMA DeleteStubInv == ASSUME SeedInv, DeleteStub PROVE SeedInv'
<1> DEFINE m == script.turn
           item == script.plan[m]
           j == script.id
<1>1. script.at = "delete" /\ had' = had
  BY DEF DeleteStub
<1>2. /\ m \in Places /\ m \in Nat /\ item.due /\ ItemOK(m, item, script.coins, table)
      /\ StubNow(m, table, j) /\ j # item.id /\ j \notin item.retire
      /\ item.new => /\ item.id \in DOMAIN table /\ table[item.id].contracts = item.contracts
                     /\ table[item.id].seeded
  <2>1. TurnOK(script, table)
    BY DEF SeedInv, ScriptOK
  <2> QED
    BY <1>1, <2>1, AtWork DEF TurnOK, Writing, Retiring
<1>3. CASE script' = Asleep /\ UNCHANGED <<table, asked>>
  BY <1>1, <1>3, StopsInv
<1>4. CASE /\ GoesTo("retire") /\ table' = [i \in DOMAIN table \ {j} |-> table[i]]
           /\ asked' = [asked EXCEPT ![m] = script.coins]
  <2>1. SamePlan(script, script') /\ script'.at = "retire"
    BY <1>4, GoesFacts
  <2>2. TableOK(table')
    BY <1>4 DEF SeedInv, TableOK
  <2>3. /\ asked' = [n \in Places |-> asked'[n]] /\ asked'[m] = script.coins
        /\ \A n \in Places \ {m} : asked'[n] = asked[n]
    BY <1>2, <1>4 DEF SeedInv
  <2>4. /\ DOMAIN table' = DOMAIN table \ {j} /\ \A i \in DOMAIN table \ {j} : table'[i] = table[i]
    BY <1>4
  <2>5. \A n \in Places \ {m} : RowsKept(n, table, table')
    <3>1. \A n \in Places \ {m} : ~Concerns(n, j, table[j].contracts)
      BY <1>2, StubApart DEF Concerns, SeedInv
    <3> QED
      BY <2>4, <3>1 DEF RowsKept
  <2> HIDE DEF m, item, j
  <2>6. ItemOK(m, item, script.coins, table')
    <3>1. ~item.new => IsMain(m, script.coins, table', item.id) /\ ~table'[item.id].seeded
      BY <1>2, <2>4 DEF ItemOK, IsMain
    <3>2. \A i \in item.retire : StubNow(m, table', i)
      BY <1>2, <2>4 DEF ItemOK, StubNow
    <3>3. \A i \in DOMAIN table : \A a : KeptBy(m, table, i, a) => i \in DOMAIN table' /\ KeptBy(m, table', i, a)
      BY <1>2, <2>4 DEF KeptBy, StubNow
    <3> QED
      BY <1>2, <3>1, <3>2, <3>3 DEF ItemOK
  <2>7. PlanOK(script', table')
    <3>1. PlanOK(script, table) /\ script.at \in Planned
      BY <1>1 DEF SeedInv, ScriptOK, Planned, Writing, Retiring
    <3>2. \A n \in Places : n >= script.turn => ItemOK(n, script.plan[n], script.coins, table')
      <4> SUFFICES ASSUME NEW n \in Places, n >= script.turn
                   PROVE  ItemOK(n, script.plan[n], script.coins, table')
        OBVIOUS
      <4>1. CASE n = m
        BY <2>6, <4>1 DEF m, item
      <4>2. CASE n # m
        <5>1. ItemOK(n, script.plan[n], script.coins, table) /\ RowsKept(n, table, table')
          BY <2>5, <3>1, <4>2 DEF PlanOK
        <5> QED
          BY <5>1, ItemKept
      <4> QED
        BY <4>1, <4>2
    <3>3. PlanOK(script, table')
      BY <3>1, <3>2 DEF PlanOK
    <3> QED
      BY <2>1, <3>1, <3>3, PlanSame
  <2>8. TurnOK(script', table')
    BY <1>2, <2>1, <2>4 DEF TurnOK, SamePlan, Retiring, m, item, j
  <2>9. ScriptOK(script', table')
    BY <2>1, <2>7, <2>8 DEF ScriptOK, ReadOK, MarksOK, SamePlan
  <2>10. LostOK(m, table', had', script.coins)
    <3> SUFFICES ASSUME NEW a \in Platforms[m].own, \A i \in DOMAIN table' : a \notin table'[i].contracts
                 PROVE  \E i \in DOMAIN table' : IsMain(m, script.coins, table', i) /\ ~table'[i].seeded
      BY DEF LostOK
    <3>1. a \in item.contracts
      <4> SUFFICES ASSUME a \notin item.contracts PROVE FALSE
        OBVIOUS
      <4>1. PICK i \in DOMAIN table' : KeptBy(m, table', i, a)
        BY <1>2, <2>6 DEF ItemOK
      <4> QED
        BY <4>1 DEF KeptBy
    <3>2. ~item.new
      BY <1>2, <2>4, <3>1
    <3> QED
      BY <1>2, <2>6, <3>2 DEF ItemOK, IsMain
  <2>11. \A n \in Places : LostOK(n, table', had', asked'[n])
    <3> SUFFICES ASSUME NEW n \in Places, n # m PROVE LostOK(n, table', had', asked[n])
      BY <2>3, <2>10
    <3>1. LostOK(n, table, had, asked[n]) /\ RowsKept(n, table, table')
      BY <2>5 DEF SeedInv
    <3> QED
      BY <1>1, <3>1, LostKept
  <2> QED
    BY <2>2, <2>3, <2>9, <2>11 DEF SeedInv
<1> QED
  BY <1>3, <1>4 DEF DeleteStub

\* The project of the platform the script writes to last.
LEMMA WorkRow ==
  ASSUME SeedInv, script.at \in {"update", "seed"}
  PROVE  LET m == script.turn
             item == script.plan[m]
             x == item.id
         IN /\ x \in DOMAIN table /\ table[x] \in ProjectRow
            /\ ItemOK(m, item, script.coins, table) /\ IsMain(m, script.coins, table, x)
            /\ ~table[x].seeded
            /\ item.contracts \subseteq Address
            /\ RowShape(x, item.contracts) /\ TokenPlace(x, item.contracts)
            /\ \A n \in Places \ {m} : ~Concerns(n, x, table[x].contracts)
<1> DEFINE m == script.turn
           item == script.plan[m]
           x == item.id
<1>1. m \in Places /\ item.due /\ ItemOK(m, item, script.coins, table) /\ ~item.new
  BY AtWork DEF Writing
<1>2. /\ IsMain(m, script.coins, table, x) /\ ~table[x].seeded
      /\ item.contracts \subseteq Mine(m) /\ TokenPlace(x, item.contracts)
  BY <1>1 DEF ItemOK
<1>3. TableOK(table)
  BY DEF SeedInv
<1>4. x \in DOMAIN table /\ table[x] \in ProjectRow
  BY <1>2, <1>3 DEF IsMain, TableOK
<1>5. x = Platforms[m].id \/ \E t \in TokensOf(Platforms[m]) : x = IdOf[t]
  BY <1>1, <1>2, TokenFacts DEF IsMain
<1>6. RowShape(x, item.contracts) /\ item.contracts \subseteq Address
  BY <1>1, <1>2, <1>5, PlatformFacts DEF RowShape
<1>7. \A n \in Places \ {m} : ~Concerns(n, x, table[x].contracts)
  BY <1>1, <1>2, <1>3, MainApart DEF Concerns
<1> QED
  BY <1>1, <1>2, <1>4, <1>6, <1>7

LEMMA UpdatePlatformInv == ASSUME SeedInv, UpdatePlatform PROVE SeedInv'
<1> DEFINE m == script.turn
           item == script.plan[m]
           x == item.id
           r == [table[x] EXCEPT !.category = "launchpad", !.contracts = item.contracts]
           next == [script EXCEPT !.at = "seed"]
<1>1. script.at = "update" /\ asked' = asked
  BY DEF UpdatePlatform
<1>2. m \in Places /\ m \in Nat /\ item.due /\ ~item.new /\ item.retire = {}
  BY <1>1, AtWork DEF Writing
<1>3. /\ x \in DOMAIN table /\ table[x] \in ProjectRow
      /\ ItemOK(m, item, script.coins, table) /\ IsMain(m, script.coins, table, x) /\ ~table[x].seeded
      /\ item.contracts \subseteq Address /\ RowShape(x, item.contracts) /\ TokenPlace(x, item.contracts)
      /\ \A n \in Places \ {m} : ~Concerns(n, x, table[x].contracts)
  BY <1>1, WorkRow
<1>4. r \in ProjectRow /\ r.contracts = item.contracts /\ r.seeded = table[x].seeded
  BY <1>3 DEF ProjectRow
<1>5. Update(x, r, next)
  BY <1>3 DEF UpdatePlatform, RowOf, Item
<1>6. CASE script' = Asleep /\ table' = table /\ had' = had
  BY <1>1, <1>6, StopsInv
<1>7. CASE script' = next /\ table' = Rewritten(table, x, r) /\ had' = had \cup r.contracts
  <2>1. SamePlan(script, script') /\ script'.at = "seed"
    BY <1>7 DEF SeedInv, ScriptOK, SamePlan, Parts
  <2> HIDE DEF r, next
  <2>2. /\ TableOK(table') /\ DOMAIN table' = DOMAIN table /\ table'[x] = r
        /\ \A j \in DOMAIN table \ {x} : table'[j] = table[j]
    BY <1>3, <1>4, <1>7, RewrittenFacts DEF SeedInv
  <2>3. \A n \in Places \ {m} : RowsKept(n, table, table')
    BY <1>3, <1>7, RewrittenKeeps
  <2> HIDE DEF m, item, x
  <2>4. \A a \in Platforms[m].own :
          a \in item.contracts \/ \E i \in DOMAIN table' : KeptBy(m, table', i, a) /\ i # x
    <3>1. \A a \in Platforms[m].own :
            a \in item.contracts \/ \E i \in DOMAIN table : KeptBy(m, table, i, a) /\ i # x
      BY <1>2, <1>3 DEF ItemOK, x
    <3>2. \A a : \A i \in DOMAIN table \ {x} : KeptBy(m, table, i, a) => KeptBy(m, table', i, a)
      BY <2>2 DEF KeptBy
    <3> QED
      BY <2>2, <3>1, <3>2
  <2>5. ItemOK(m, item, script.coins, table')
    <3>1. IsMain(m, script.coins, table', x) /\ ~table'[x].seeded
      BY <1>2, <1>3, <1>4, <2>2 DEF ItemOK, IsMain
    <3> QED
      BY <1>2, <1>3, <2>4, <3>1 DEF ItemOK, x
  <2>6. PlanOK(script', table')
    <3>1. PlanOK(script, table) /\ script.at \in Planned
      BY <1>1 DEF SeedInv, ScriptOK, Planned, Writing
    <3>2. \A n \in Places : n >= script.turn => ItemOK(n, script.plan[n], script.coins, table')
      <4> SUFFICES ASSUME NEW n \in Places, n >= script.turn
                   PROVE  ItemOK(n, script.plan[n], script.coins, table')
        OBVIOUS
      <4>1. CASE n = m
        BY <2>5, <4>1 DEF m, item
      <4>2. CASE n # m
        <5>1. ItemOK(n, script.plan[n], script.coins, table) /\ RowsKept(n, table, table')
          BY <2>3, <3>1, <4>2 DEF PlanOK
        <5> QED
          BY <5>1, ItemKept
      <4> QED
        BY <4>1, <4>2
    <3>3. PlanOK(script, table')
      BY <3>1, <3>2 DEF PlanOK
    <3> QED
      BY <2>1, <3>1, <3>3, PlanSame
  <2>7. TurnOK(script', table')
    BY <1>2, <1>3, <1>4, <2>1, <2>2 DEF TurnOK, SamePlan, Retiring, m, item, x
  <2>8. ScriptOK(script', table')
    BY <2>1, <2>6, <2>7 DEF ScriptOK, ReadOK, MarksOK, SamePlan
  <2>9. \A n \in Places : LostOK(n, table', had', asked[n])
    <3> SUFFICES ASSUME NEW n \in Places PROVE LostOK(n, table', had', asked[n])
      OBVIOUS
    <3>1. CASE n = m
      <4>1. \A a \in Platforms[m].own : \E i \in DOMAIN table' : a \in table'[i].contracts
        BY <1>3, <1>4, <2>2, <2>4 DEF KeptBy
      <4> QED
        BY <3>1, <4>1 DEF LostOK
    <3>2. CASE n # m
      BY <1>3, <1>7, <2>3, <3>2, RewrittenLost
    <3> QED
      BY <3>1, <3>2
  <2> QED
    BY <1>1, <2>2, <2>8, <2>9 DEF SeedInv
<1> QED
  BY <1>3, <1>5, <1>6, <1>7, UpdateCases

LEMMA SeedPlatformInv == ASSUME SeedInv, SeedPlatform PROVE SeedInv'
<1> DEFINE m == script.turn
           item == script.plan[m]
           x == item.id
           r == [table[x] EXCEPT !.seeded = TRUE]
           next == [script EXCEPT !.at = "platform", !.turn = @ + 1]
<1>1. script.at = "seed" /\ asked' = asked
  BY DEF SeedPlatform
<1>2. m \in Places /\ m \in Nat /\ item.due /\ ~item.new
  BY <1>1, AtWork DEF Writing
<1>3. /\ x \in DOMAIN table /\ table[x] \in ProjectRow
      /\ ItemOK(m, item, script.coins, table)
      /\ RowShape(x, item.contracts) /\ TokenPlace(x, item.contracts)
      /\ \A n \in Places \ {m} : ~Concerns(n, x, table[x].contracts)
  BY <1>1, WorkRow
<1>4. table[x].contracts = item.contracts
  BY <1>1 DEF SeedInv, ScriptOK, TurnOK, Writing
<1>5. r \in ProjectRow /\ r.contracts = table[x].contracts
  BY <1>3 DEF ProjectRow
<1>6. Update(x, r, next)
  BY <1>3 DEF SeedPlatform, RowOf, Item
<1>7. CASE script' = Asleep /\ table' = table /\ had' = had
  BY <1>1, <1>7, StopsInv
<1>8. CASE script' = next /\ table' = Rewritten(table, x, r) /\ had' = had \cup r.contracts
  <2>1. /\ script' = [f \in Parts |-> script'[f]] /\ script'.at = "platform" /\ script'.turn = script.turn + 1
        /\ script'.plan = script.plan /\ script'.coins = script.coins
    BY <1>8 DEF SeedInv, ScriptOK, Parts
  <2> HIDE DEF r, next
  <2>2. /\ TableOK(table') /\ DOMAIN table' = DOMAIN table /\ table'[x] = r
        /\ \A j \in DOMAIN table \ {x} : table'[j] = table[j]
    BY <1>3, <1>4, <1>5, <1>8, RewrittenFacts DEF SeedInv
  <2>3. \A n \in Places \ {m} : RowsKept(n, table, table')
    BY <1>3, <1>8, RewrittenKeeps
  <2> HIDE DEF m, item, x
  <2>4. \A n \in Places : LostOK(n, table', had', asked[n])
    <3> SUFFICES ASSUME NEW n \in Places PROVE LostOK(n, table', had', asked[n])
      OBVIOUS
    <3>1. CASE n = m
      <4>1. \A a \in Platforms[m].own :
              a \in table[x].contracts \/ \E i \in DOMAIN table : a \in table[i].contracts /\ i # x
        BY <1>2, <1>3, <1>4 DEF ItemOK, KeptBy, x
      <4>2. \A a \in Platforms[m].own : \E i \in DOMAIN table' : a \in table'[i].contracts
        BY <1>3, <1>5, <2>2, <4>1
      <4> QED
        BY <3>1, <4>2 DEF LostOK
    <3>2. CASE n # m
      BY <1>3, <1>8, <2>3, <3>2, RewrittenLost
    <3> QED
      BY <3>1, <3>2
  <2>5. PlanOK(script', table')
    <3>1. PlanOK(script, table)
      BY DEF SeedInv, ScriptOK
    <3>2. script.at \in Planned
      BY <1>1 DEF Planned, Writing
    <3>3. PlanOK(script', table)
      BY <2>1, <3>1, <3>2, TurnMoves
    <3>4. \A n \in Places : n >= script'.turn => n # m
      <4>1. Places \subseteq Nat
        BY SeedAssumption DEF Places
      <4>2. \A k \in Nat : \A n \in Nat : n >= k + 1 => n # k
        OBVIOUS
      <4> QED
        BY <1>2, <2>1, <4>1, <4>2 DEF m
    <3> QED
      BY <2>3, <3>3, <3>4, PlanKept
  <2>6. ScriptOK(script', table')
    BY <2>1, <2>5 DEF ScriptOK, ReadOK, MarksOK, TurnOK, Writing, Retiring
  <2> QED
    BY <1>1, <2>2, <2>4, <2>6 DEF SeedInv
<1> QED
  BY <1>3, <1>6, <1>7, <1>8, UpdateCases

-----------------------------------------------------------------------------
(* The invariant of the script.                                              *)

LEMMA InitSeedInv == ASSUME SeedInit PROVE SeedInv
<1>1. PICK curated \in SUBSET promoted :
        table = [i \in {IdOf[a] : a \in promoted} |->
                  LET a == CHOOSE b \in promoted : IdOf[b] = i
                  IN [Found(a) EXCEPT !.seeded = a \in curated]]
  BY DEF SeedInit
<1>2. promoted \subseteq Address /\ had = promoted
  BY DEF SeedInit
<1>3. \A a \in promoted : /\ IdOf[a] \in DOMAIN table
                          /\ table[IdOf[a]] = [Found(a) EXCEPT !.seeded = a \in curated]
  <2> SUFFICES ASSUME NEW a \in promoted
               PROVE  /\ IdOf[a] \in DOMAIN table
                      /\ table[IdOf[a]] = [Found(a) EXCEPT !.seeded = a \in curated]
    OBVIOUS
  <2> DEFINE c == CHOOSE b \in promoted : IdOf[b] = IdOf[a]
  <2>1. c \in promoted /\ IdOf[c] = IdOf[a]
    OBVIOUS
  <2>2. c = a
    BY <1>2, <2>1, SeedAssumption
  <2> QED
    BY <1>1, <2>2
<1>4. DOMAIN table = {IdOf[a] : a \in promoted} /\ table = [i \in DOMAIN table |-> table[i]]
  BY <1>1
<1>5. TableOK(table)
  <2>1. DOMAIN table \subseteq SeedId
    BY <1>2, <1>4, PlatformFacts
  <2> SUFFICES ASSUME NEW i \in DOMAIN table
               PROVE  table[i] \in ProjectRow /\ RowShape(i, table[i].contracts) /\ TokenPlace(i, table[i].contracts)
    BY <1>4, <2>1 DEF TableOK
  <2>2. PICK a \in promoted : i = IdOf[a] /\ table[i] = [Found(a) EXCEPT !.seeded = a \in curated]
    BY <1>3, <1>4
  <2>3. table[i] \in ProjectRow /\ table[i].contracts = {a}
    <3>1. Found(a) = [category |-> "other", seeded |-> FALSE, contracts |-> {a}]
      BY DEF Found
    <3>2. table[i] = [category |-> "other", seeded |-> (a \in curated), contracts |-> {a}]
      BY <2>2, <3>1
    <3>3. (a \in curated) \in BOOLEAN
      OBVIOUS
    <3> QED
      BY <1>2, <3>2, <3>3 DEF ProjectRow
  <2> QED
    BY <1>2, <2>2, <2>3 DEF RowShape, TokenPlace
<1>6. \A n \in Places : LostOK(n, table, had, asked[n])
  <2>1. \A a \in had : \E i \in DOMAIN table : a \in table[i].contracts
    BY <1>2, <1>3 DEF Found
  <2> QED
    BY <2>1 DEF LostOK
<1>7. script = Asleep /\ asked = [n \in Places |-> asked[n]]
  BY DEF SeedInit, Places
<1> QED
  BY <1>5, <1>6, <1>7, AsleepOK DEF SeedInv

LEMMA NextSeedInv == ASSUME SeedInv, [SeedNext]_lvars PROVE SeedInv'
<1>1. ASSUME NEW a \in Address, PromoteContract(a) PROVE SeedInv'
  BY <1>1, PromoteInv
<1>2. ASSUME NEW i \in SeedId, ScoreProject(i) PROVE SeedInv'
  BY <1>2 DEF ScoreProject, SeedInv
<1>3. ASSUME NEW i \in SeedId, MarkToken(i) \/ RepointLedger(i) PROVE SeedInv'
  BY <1>3, MarkTokenInv, RepointLedgerInv
<1>4. CASE \/ StartSeeding \/ ReadProjectPage \/ BuildPlan \/ SeedToken \/ TokensMarked \/ NextPlatform
           \/ InsertPlatform \/ RepointEvents \/ DropScores \/ DeleteStub \/ StubsRetired
           \/ UpdatePlatform \/ SeedPlatform
  BY <1>4, StartInv, ReadPageInv, PlanInv, SeedTokenInv, MarkedInv, NextPlatformInv, InsertInv,
     RepointedInv, DeleteStubInv, StubsRetiredInv, UpdatePlatformInv, SeedPlatformInv
<1>5. CASE SeedingStops
  BY <1>5, StopsInv DEF SeedingStops, allButScript
<1>6. CASE UNCHANGED lvars
  BY <1>6 DEF lvars, SeedInv
<1> QED
  BY <1>1, <1>2, <1>3, <1>4, <1>5, <1>6 DEF SeedNext

\* What the script has planned holds of the table until it is written, and every contract
\* without a project is one its platform's project, not seeded yet, is to get.
THEOREM SeedInvariance == SeedSpec => []SeedInv
<1>1. SeedInit => SeedInv
  BY InitSeedInv
<1>2. SeedInv /\ [SeedNext]_lvars => SeedInv'
  BY NextSeedInv
<1> QED
  BY <1>1, <1>2, PTL DEF SeedSpec

\* No stop of the script between two writes loses a contract: the next run gives it to the
\* platform's project.
THEOREM NothingIsLost == SeedSpec => []NothingLost
<1>1. SeedInv => NothingLost
  BY LostIsPlanned DEF SeedInv
<1> QED
  BY <1>1, SeedInvariance, PTL

=============================================================================
