----------------------------- MODULE MC_Thttpd -----------------------------
(***************************************************************************)
(* thttpd's connections with a table of two slots.                         *)
(***************************************************************************)
EXTENDS Thttpd
=============================================================================
