----------------------------- MODULE MCServices -----------------------------
(***************************************************************************)
(* The two services of the API that count requests, RateLimit and          *)
(* KeyAccess, and the apply procedures statement by statement, ApplyTx, in *)
(* one run.  They share no state, so their product would only repeat the   *)
(* states of each: "part" says which of them is at work and the others     *)
(* stay as they began.                                                     *)
(***************************************************************************)
EXTENDS RateLimit, KeyAccess, ApplyTx, TLC

VARIABLE part

allVars == <<part, vars, kvars, txVars>>

\* The gap 1..3 and the live blocks after it meet on day 1.  Blocks 2 and 4, one of
\* each job, have neither a contract nor a sender in common; 3 and 5 have both.
TxDays == [b \in Blocks |-> IF b = 1 THEN 0 ELSE 1]
TxRows == [b \in Blocks |-> CASE b = 2 -> {1} [] b = 4 -> {2} [] OTHER -> {1, 2}]

ServicesInit == part \in {"limits", "keys", "apply"} /\ Init /\ KeyInit /\ TxInit

ServicesNext ==
  /\ \/ part = "limits" /\ Next /\ UNCHANGED <<kvars, txVars>>
     \/ part = "keys" /\ KeyNext /\ UNCHANGED <<vars, txVars>>
     \/ part = "apply" /\ TxNext /\ UNCHANGED <<vars, kvars>>
  /\ UNCHANGED part

ServicesSpec == ServicesInit /\ [][ServicesNext]_allVars

Symmetry == Permutations(Client) \cup Permutations(Request) \cup Permutations(Key)
=============================================================================
