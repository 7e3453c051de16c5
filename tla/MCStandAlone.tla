---------------------------- MODULE MCStandAlone ----------------------------
(***************************************************************************)
(* Three parts that do not call or wait for each other, in one run: the    *)
(* discovery of projects, Discovery; the snapshot cache inside the API,    *)
(* SnapshotCache; and the script somebody starts by hand, LaunchpadSeed.   *)
(* The models share no state: "part" says which of them is at work and the *)
(* others stay as they began.                                              *)
(***************************************************************************)
EXTENDS MCDiscovery, SnapshotCache, LaunchpadSeed, TLC

CONSTANTS k1, k2

VARIABLE part

threeVars == <<part, vars, cvars, lvars>>

StandAloneInit ==
  /\ part \in {"discovery", "cache", "launchpads"} /\ Init /\ CacheInit /\ SeedInit
  /\ part # "discovery" => row = [c \in Contract |-> NoRow]
  /\ part # "launchpads" => promoted = {}

StandAloneNext ==
  \/ part = "discovery" /\ Next /\ UNCHANGED <<part, cvars, lvars>>
  \/ part = "cache" /\ CacheNext /\ UNCHANGED <<part, vars, lvars>>
  \/ part = "launchpads" /\ SeedNext /\ UNCHANGED <<part, vars, cvars>>

StandAloneSpec == StandAloneInit /\ [][StandAloneNext]_threeVars

-----------------------------------------------------------------------------
(* Values of the constants.                                                  *)

Symmetry == Permutations(Caller) \cup Permutations(Refresher) \cup Permutations(Key)

\* Contracts are their ids.  4 and 5 are the platform's own contracts, 2 may claim its coin
\* id, and 6 is a token of the list.
SameId == [a \in Address |-> a]
OnePlatform == <<[id |-> 1, token |-> NoAddress, claimants |-> {2}, own |-> {4, 5}]>>

=============================================================================
