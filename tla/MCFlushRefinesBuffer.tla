------------------------ MODULE MCFlushRefinesBuffer ------------------------
(* Instance of FlushRefinesBuffer for TLC. *)
EXTENDS FlushRefinesBuffer, TLC
=============================================================================
