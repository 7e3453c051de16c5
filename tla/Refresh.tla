------------------------------ MODULE Refresh ------------------------------
(***************************************************************************)
(* The bounded third-party passes at the end of an ingestion job: holder   *)
(* counts (ingestion/holders.py), social links (socials.py) and the 7-day  *)
(* volume after the price refresh (market_data.py).  Each run calls for at *)
(* most Cap targets, those never fetched first, then the oldest ones.      *)
(* Only the order of the stamps matters: "line" is that order.             *)
(***************************************************************************)
EXTENDS Integers, Sequences, FiniteSets, SequencesExt, FiniteSetsExt, Functions

CONSTANTS
  Target,       \* token contracts, numbered in the order of their addresses; of the volume
                \* pass those the source has a price for: it never queues another
  Cap,          \* MAX_CALLS_PER_RUN
  Slow,         \* calls that time out before the time budget is used up
  BatchSize,    \* targets of one price call
  MaxFaults     \* bound: 429s, other failures of a healthy source, passes out of time

ASSUME RefreshAssumption ==
  /\ Target = 1..Cardinality(Target) /\ Target # {}
  /\ Cap \in Nat \ {0} /\ Slow \in Nat \ {0} /\ BatchSize \in Nat \ {0} /\ MaxFaults \in Nat

VARIABLES
  source,     \* the pass at work: volume, holders or socials
  reply,      \* what the source says of each target when it works
  line,       \* targets with a stamp, oldest stamp first
  due,        \* how many of them are older than REFRESH_AFTER
  pass,       \* idle, price or call
  batch,      \* the price batch to ask for next
  priced,     \* targets that got a price in this run
  queue,      \* candidates of the pass
  timeouts,   \* calls of the pass that timed out
  troubles    \* failures so far, at most MaxFaults

rvars == <<source, reply, line, due, pass, batch, priced, queue, timeouts, troubles>>

RefreshTypeOK ==
  /\ source \in {"volume", "holders", "socials"}
  /\ reply \in [Target -> {"found", "unknown", "error", "timeout"}]
  /\ line \in Seq(Target) /\ IsInjective(line) /\ due \in 0..Len(line)
  /\ pass \in {"idle", "price", "call"} /\ batch \in Nat /\ priced \subseteq Target
  /\ queue \in Seq(Target) /\ timeouts \in 0..Slow /\ troubles \in 0..MaxFaults

\* Targets that never get a stamp: no 404 is stored for a volume.
Mute == {t \in Target : \/ reply[t] \in {"error", "timeout"}
                        \/ source = "volume" /\ reply[t] = "unknown"}

RefreshInit ==
  /\ source \in {"volume", "holders", "socials"}
  /\ reply \in [Target -> {"found", "unknown", "error", "timeout"}]
  /\ Cardinality(Mute) < Cap /\ Cardinality({t \in Target : reply[t] = "timeout"}) < Slow
  /\ line = <<>> /\ due = 0 /\ pass = "idle" /\ batch = 1 /\ priced = {}
  /\ queue = <<>> /\ timeouts = 0 /\ troubles = 0

\* REFRESH_AFTER has passed for the oldest fresh stamp.
Age ==
  /\ due < Len(line)
  /\ due' = due + 1
  /\ UNCHANGED <<source, reply, line, pass, batch, priced, queue, timeouts, troubles>>

Trouble == troubles < MaxFaults /\ troubles' = troubles + 1

-----------------------------------------------------------------------------
(* pick_due, pick_volume_candidates.                                         *)

IsDue(t) == t \notin Range(line) \/ \E i \in 1..due : line[i] = t

First(q) == SubSeq(q, 1, Min({Cap, Len(q)}))

\* Mutant: the candidates are taken in the order of their addresses.
PickByAddress(eligible) == First(SetToSortSeq({t \in eligible : IsDue(t)}, <))

PickDue(eligible) ==
  First(SetToSortSeq(eligible \ Range(line), <)
        \o SelectSeq(SubSeq(line, 1, due), LAMBDA t : t \in eligible))

-----------------------------------------------------------------------------
(* refresh_market_data: prices in batches; a batch that fails is skipped.    *)

BatchTargets(b) == {t \in Target : (t - 1) \div BatchSize = b - 1}
Batches == ((Cardinality(Target) - 1) \div BatchSize) + 1

StartPass ==
  /\ pass = "idle"
  /\ timeouts' = 0
  /\ IF source = "volume"
     THEN pass' = "price" /\ batch' = 1 /\ priced' = {} /\ UNCHANGED queue
     ELSE pass' = "call" /\ queue' = PickDue(Target) /\ UNCHANGED <<batch, priced>>
  /\ UNCHANGED <<source, reply, line, due, troubles>>

PriceBatch ==
  /\ pass = "price" /\ batch <= Batches
  /\ batch' = batch + 1
  /\ \/ priced' = priced \cup BatchTargets(batch) /\ UNCHANGED troubles
     \/ Trouble /\ UNCHANGED priced
  /\ UNCHANGED <<source, reply, line, due, pass, queue, timeouts>>

\* A 429 ends the run; after the time budget the volume pass still gets its turn,
\* and ends at its first look at the clock.
PriceStops ==
  /\ pass = "price" /\ batch <= Batches
  /\ Trouble
  /\ pass' = "idle" /\ priced' = {}
  /\ UNCHANGED <<source, reply, line, due, batch, queue, timeouts>>

PriceEnds ==
  /\ pass = "price" /\ batch > Batches
  /\ pass' = "call" /\ queue' = PickDue(priced) /\ priced' = {}
  /\ UNCHANGED <<source, reply, line, due, batch, timeouts, troubles>>

-----------------------------------------------------------------------------
(* refresh_holders, refresh_socials, refresh_volume_7d: one call each.       *)

Stores(r) == r = "found" \/ (r = "unknown" /\ source # "volume")

Stamped(t) ==
  /\ line' = Append(Remove(line, t), t)
  /\ due' = IF \E i \in 1..due : line[i] = t THEN due - 1 ELSE due

InTime == pass = "call" /\ queue # <<>> /\ timeouts < Slow

CallTarget ==
  /\ InTime
  /\ queue' = Tail(queue)
  /\ LET t == Head(queue)
     IN \/ /\ IF Stores(reply[t]) THEN Stamped(t) ELSE UNCHANGED <<line, due>>
           /\ timeouts' = timeouts + (IF reply[t] = "timeout" THEN 1 ELSE 0)
           /\ UNCHANGED troubles
        \/ Trouble /\ UNCHANGED <<line, due, timeouts>>
  /\ UNCHANGED <<source, reply, pass, batch, priced>>

\* A 429, the time budget or a failing database ends the pass.
CallsStop ==
  /\ InTime
  /\ Trouble
  /\ pass' = "idle" /\ queue' = <<>>
  /\ UNCHANGED <<source, reply, line, due, batch, priced, timeouts>>

PassEnds ==
  /\ pass = "call" /\ (queue = <<>> \/ timeouts = Slow)
  /\ pass' = "idle" /\ queue' = <<>>
  /\ UNCHANGED <<source, reply, line, due, batch, priced, timeouts, troubles>>

RefreshStep == StartPass \/ PriceBatch \/ PriceEnds \/ CallTarget \/ PassEnds

RefreshNext == Age \/ RefreshStep \/ PriceStops \/ CallsStop

\* Jobs keep running, and each runs its passes to their end.
RefreshSpec == RefreshInit /\ [][RefreshNext]_rvars /\ WF_rvars(RefreshStep)

-----------------------------------------------------------------------------
(* Properties.                                                              *)

\* Every target that is due gets its turn, whatever the others do, as long as
\* fewer targets than a pass has room for never get a stamp: those stay in front.
EveryTurnComes ==
  \A t \in Target : (t \notin Mute /\ IsDue(t)) ~> (t \in Mute \/ ~IsDue(t))

=============================================================================
