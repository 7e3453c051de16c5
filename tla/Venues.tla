------------------------------- MODULE Venues -------------------------------
(***************************************************************************)
(* ingestion/venues.py: one scan of the pools of every venue, page by page *)
(* while trades move the listings, and the rows it writes at its end.      *)
(***************************************************************************)
EXTENDS Integers, FiniteSets

CONSTANTS
  Venue,        \* venues, numbered in the order of their ids
  Pool,         \* pools, numbered; VenueOf says where each trades
  VenueOf,
  Sound,        \* pools with enough traders and reserves for their volume
  Uncounted,    \* pools without transaction counts
  PageSize,     \* pools on a page
  MaxPages,     \* MAX_PAGES_PER_VENUE
  TopVolume,    \* bound: volumes are 0..TopVolume
  MaxTrades     \* bound: changes of a pool's volume

ASSUME VenueAssumption ==
  /\ IsFiniteSet(Venue) /\ Venue = 1..Cardinality(Venue) /\ VenueOf \in [Pool -> Venue]
  /\ IsFiniteSet(Pool) /\ Pool \subseteq Nat
  /\ PageSize \in Nat \ {0} /\ MaxPages \in Nat \ {0} /\ TopVolume \in Nat /\ MaxTrades \in Nat
  /\ Sound \subseteq Pool /\ Uncounted \subseteq Pool \ Sound

VARIABLES
  volume,     \* 24h volume of each pool
  trades,     \* changes of a volume so far
  scan,       \* the venue being read, 0 between scans
  page,       \* the page to read next
  sorted,     \* the API accepts the sort parameter for this venue
  read,       \* pools read of this venue: page, pool and volume
  finished,   \* rows of the venues whose scan finished
  venueRow,   \* venue_market_data
  steady      \* history: no volume of the venue changed since its scan began

nvars == <<volume, trades, scan, page, sorted, read, finished, venueRow, steady>>

PoolRead == [page: 1..MaxPages, pool: Pool, volume: 0..TopVolume]
RowNumbers == [kept: Nat, excluded: Nat, truncated: BOOLEAN, exact: BOOLEAN]
NoRow == [kept |-> 0, excluded |-> 0, truncated |-> FALSE, exact |-> TRUE]

VenuesTypeOK ==
  /\ volume \in [Pool -> 0..TopVolume] /\ trades \in 0..MaxTrades
  /\ scan \in Venue \cup {0} /\ page \in 1..MaxPages /\ sorted \in BOOLEAN
  /\ read \subseteq PoolRead /\ DOMAIN finished \subseteq Venue
  /\ \A v \in DOMAIN finished : finished[v] \in RowNumbers
  /\ venueRow \in [Venue -> RowNumbers] /\ steady \in BOOLEAN

VenuesInit ==
  /\ volume \in [Pool -> 0..TopVolume] /\ trades = 0
  /\ scan = 0 /\ page = 1 /\ sorted = TRUE /\ read = {}
  /\ finished = [v \in {} |-> NoRow] /\ venueRow = [v \in Venue |-> NoRow] /\ steady = TRUE

-----------------------------------------------------------------------------
(* GeckoTerminal: the listing of a venue, busiest first or in no order that  *)
(* has to do with volume.                                                    *)

Mine(v) == {p \in Pool : VenueOf[p] = v}
Before(p, q) == IF sorted /\ volume[p] # volume[q] THEN volume[p] > volume[q] ELSE p < q

\* How many pools of its venue are listed before a pool: the pages follow that number.
Ahead(p) == Cardinality({q \in Mine(VenueOf[p]) : Before(q, p)})
OnPage(p) == (page - 1) * PageSize <= Ahead(p) /\ Ahead(p) < page * PageSize

PageRead == {[page |-> page, pool |-> p, volume |-> volume[p]] : p \in {q \in Mine(scan) : OnPage(q)}}
LastOf(items) == CHOOSE x \in items : \A y \in items : y # x => Before(y.pool, x.pool)

Trade ==
  /\ trades < MaxTrades /\ trades' = trades + 1
  /\ \E p \in Pool, x \in 0..TopVolume :
       /\ x # volume[p]
       /\ volume' = [volume EXCEPT ![p] = x]
       /\ steady' = (steady /\ VenueOf[p] # scan)
  /\ UNCHANGED <<scan, page, sorted, read, finished, venueRow>>

-----------------------------------------------------------------------------
(* scan_venue, refresh_venues.                                               *)

\* Volumes are whole units here, and what pools trade together is the number of their units.
VolumeRead(q) == Cardinality({u \in q \X (1..TopVolume) : u[2] <= u[1].volume})
VolumeOf(pools) == Cardinality({u \in pools \X (1..TopVolume) : u[2] <= volume[u[1]]})

Kept(q) == VolumeRead({x \in q : x.pool \in Sound})
Excluded(q) == VolumeRead({x \in q : x.pool \notin Sound})

\* No transaction counts on any pool with volume: refused.
Unfiltered(q) ==
  LET busy == {x \in q : x.volume > 0}
  IN busy # {} /\ \A x \in busy : x.pool \in Uncounted

\* The next venue in the order of ids, sorted or not as its first page will tell; after
\* the last one the rows are written.
NextVenue(rows) ==
  /\ finished' = rows
  /\ scan' = IF scan + 1 \in Venue THEN scan + 1 ELSE 0
  /\ page' = 1 /\ read' = {} /\ steady' = TRUE /\ sorted' \in BOOLEAN
  /\ venueRow' = IF scan + 1 \in Venue THEN venueRow
                 ELSE [v \in Venue |-> IF v \in DOMAIN rows THEN rows[v] ELSE venueRow[v]]

Row(q, truncated) ==
  [kept |-> Kept(q), excluded |-> Excluded(q), truncated |-> truncated,
   exact |-> ~steady \/ /\ Kept(q) = VolumeOf(Mine(scan) \cap Sound)
                        /\ Excluded(q) = VolumeOf(Mine(scan) \ Sound)]

VenueDone(q, truncated) ==
  NextVenue(IF Unfiltered(q) THEN finished
            ELSE [v \in DOMAIN finished \cup {scan} |->
                    IF v = scan THEN Row(q, truncated) ELSE finished[v]])

\* fetch_dex_names: the list of venues, or nothing is done.
StartScan ==
  /\ scan = 0 /\ Venue # {}
  /\ scan' = 1 /\ page' = 1 /\ read' = {} /\ finished' = [v \in {} |-> NoRow] /\ steady' = TRUE
  /\ sorted' \in BOOLEAN
  /\ UNCHANGED <<volume, trades, venueRow>>

\* Mutant: a page that ends in dust ends the scan of an unsorted listing too.
DustAnywhere(items) == items # {} /\ LastOf(items).volume = 0

\* Sorted by volume: everything after a pool without volume is dust.
OnlyDustFollows(items) == sorted /\ items # {} /\ LastOf(items).volume = 0

CutAt(items) == ~sorted \/ LastOf(items).volume > 0

ReadPage ==
  /\ scan # 0
  /\ LET items == PageRead
         q == read \cup items
         over == items = {} \/ OnlyDustFollows(items)
     IN \/ over /\ VenueDone(q, FALSE)
        \/ ~over /\ page = MaxPages /\ VenueDone(q, CutAt(items))
        \/ /\ ~over /\ page < MaxPages
           /\ page' = page + 1 /\ read' = q
           /\ UNCHANGED <<scan, finished, venueRow, steady, sorted>>
  /\ UNCHANGED <<volume, trades>>

\* An error: the venue keeps its row and waits for the next run.
PageFails ==
  /\ scan # 0
  /\ NextVenue(finished)
  /\ UNCHANGED <<volume, trades>>

\* A 429, or the time budget between two venues: what finished is written.
StopScan ==
  /\ scan # 0
  /\ scan' = 0 /\ page' = 1 /\ read' = {} /\ steady' = TRUE
  /\ venueRow' = [v \in Venue |-> IF v \in DOMAIN finished THEN finished[v] ELSE venueRow[v]]
  /\ UNCHANGED <<volume, trades, sorted, finished>>

VenuesNext == Trade \/ StartScan \/ ReadPage \/ PageFails \/ StopScan

VenuesSpec == VenuesInit /\ [][VenuesNext]_nvars

-----------------------------------------------------------------------------
(* Properties.                                                              *)

\* A row that is not flagged truncated adds up all of the venue's volume, kept and
\* excluded, unless trades moved pools between its pages while it was scanned.
VenueRowWhole == \A v \in Venue : ~venueRow[v].truncated => venueRow[v].exact

=============================================================================
