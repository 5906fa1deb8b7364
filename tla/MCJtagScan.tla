----------------------------- MODULE MCJtagScan -----------------------------
(***************************************************************************)
(* JtagScan on two scan chains.                                            *)
(***************************************************************************)
EXTENDS JtagScan
=============================================================================
