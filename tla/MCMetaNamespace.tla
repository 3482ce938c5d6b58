-------------------------- MODULE MCMetaNamespace --------------------------
(* Who works on which files and how long, for TLC. *)
EXTENDS MetaNamespace
CONSTANTS s1, s2, a, b

OneFileEach == s1 :> {a} @@ s2 :> {b}
SharedFile  == s1 :> {a} @@ s2 :> {a}

Three == s1 :> 3 @@ s2 :> 3
Four  == s1 :> 4 @@ s2 :> 4
=============================================================================
