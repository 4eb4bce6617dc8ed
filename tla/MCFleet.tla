------------------------------ MODULE MCFleet ------------------------------
(* Fleet for TLC; the constants are given by the cfg files.                *)
EXTENDS Fleet
=============================================================================
