-------------------------- MODULE MCBlockWorkerPool --------------------------
(* Files of one to three blocks on two servers, for TLC. *)
EXTENDS BlockWorkerPool

TwoFiles   == <<<<"s1", "s2">>, <<"s2", "s1">>>>
TwoServers == {"s1", "s2"}
ThreeFiles == <<<<"s1", "s2">>, <<"s2">>, <<"s1">>>>
WideFile   == <<<<"s1", "s2", "s1">>>>
=============================================================================
