------------------------------- MODULE MCFetch -------------------------------
(* A small instance of BlockFetch alone for TLC: blocks without transactions. *)
EXTENDS BlockFetch

NoTxs == [b \in Job |-> <<>>]
OneDay == [b \in Job |-> 0]

=============================================================================
