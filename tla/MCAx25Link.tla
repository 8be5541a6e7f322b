----------------------------- MODULE MCAx25Link -----------------------------
(* Two stations; the roles, the bounds and the modulus come from the cfg.  *)
EXTENDS Ax25Link

CONSTANTS
    s1,     \* one station
    s2      \* and the other
=============================================================================
