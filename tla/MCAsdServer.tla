------------------------------ MODULE MCAsdServer -----------------------------
(* Small instances of AsdServer for TLC.                                   *)
EXTENDS AsdServer, TLC

CONSTANTS f1, f2, f3

MCFd == {f1, f2, f3}
MCFd2 == {f1, f2}

\* For liveness: an AGENT_CONTROL message is read like any other.
Few == {<<"login">>, <<"cmd">>, <<"junk">>}
Single == {<<"login">>, <<"ctl">>, <<"cmd">>, <<"junk">>}
Coalesced == Single \cup {<<"cmd", "ctl">>}

\* The -u mode is checked with a context that may fail to be freed.
Tls == {{}}
TlsAndTcp == {{}, {"unsecure", "free_can_fail"}}

\* Descriptors are interchangeable: the server only compares them.
DescriptorSymmetry == Permutations(MCFd)
===============================================================================
