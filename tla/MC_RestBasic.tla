---------------------------- MODULE MC_RestBasic ----------------------------
(* Two keys, one value and two concurrent requests: enough for two writes  *)
(* to one key to race, and for a read or a delete to fall between them.    *)
EXTENDS RestBasicProofs

=============================================================================
