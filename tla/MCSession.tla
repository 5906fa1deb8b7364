------------------------------- MODULE MCSession ------------------------------
(* A small instance of Session for TLC.                                    *)
EXTENDS Session

CONSTANTS f1, f2, f3

MCFd == {f1, f2, f3}
===============================================================================
