-------------------------- MODULE MCRealtimeSession -------------------------
(***************************************************************************)
(* Instances of RealtimeSession for TLC: sessions one after the other.     *)
(***************************************************************************)
EXTENDS RealtimeSession

CONSTANTS s1, s2, s3

=============================================================================
