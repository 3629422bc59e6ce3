---------------------------- MODULE MC_DdzTable ----------------------------
(* DdzTable for TLC: the constants are given by ddz_table.cfg.              *)
EXTENDS DdzTable
=============================================================================
