--------------------------- MODULE MCKeyValueChain ---------------------------
(* Three names in one chain and one in the chain of another worker, for TLC. *)
EXTENDS KeyValueChain

FourNames == [a |-> "x", b |-> "x", c |-> "x", d |-> "y"]
TwoNames  == [a |-> "x", d |-> "y"]
TwoChains == [x |-> 1, y |-> 2]
=============================================================================
