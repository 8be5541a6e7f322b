-------------------------- MODULE MCConnectionEnv --------------------------
(* ConnectionEnv with one kind of chunk and a window of 2 modulo 3.        *)
EXTENDS ConnectionEnv
=============================================================================
