---------------------------- MODULE MC_KarlRender ----------------------------
(* Two machines and three services, each on either machine or on none,   *)
(* with any dependencies among themselves and on one unreported service.  *)
EXTENDS KarlRenderProofs

=============================================================================
