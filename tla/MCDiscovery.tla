----------------------------- MODULE MCDiscovery -----------------------------
(* Small instances of Discovery for TLC.                                     *)
EXTENDS Discovery

CONSTANTS c1, c2, s1, u1, stable, token

Named(k, s, f) == [category |-> k, symbol |-> s, name |-> None, fake |-> f]

\* A token of symbol s1, and a wallet that some source mistakes for it.
TokenAndWallet == [c \in Contract |-> {Named(token, s1, FALSE)}]
NothingCurated == [i \in {} |-> NoProject]

\* One contract, of a hand-seeded project, that sources take for a look-alike.
LookAlike == [c \in Contract |-> {Named(token, None, TRUE)}]
SeededS1 == [i \in {s1} |-> [contracts |-> {c2}, category |-> stable, seeded |-> TRUE]]
OfC2 == [s \in Sub |-> c2]

\* One new token.
NewToken == [c \in Contract |-> {Named(token, None, FALSE)}]
=============================================================================
