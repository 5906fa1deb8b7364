------------------------------- MODULE MCAuthPam ------------------------------
(* A small instance of AuthPam for TLC.                                    *)
EXTENDS AuthPam
===============================================================================
