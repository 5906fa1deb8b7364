----------------------------- MODULE MCAsdMsgRead -----------------------------
(* Small instances of AsdMsgRead for TLC.                                  *)
EXTENDS AsdMsgRead

\* A message without a body, two with one, and two that are too long, by the low
\* and by the high byte of the size; tags in the high bits.
MCMessage == {<<1, 0, 32, 3>>, <<2, 1, 64, 5, 6>>, <<3, 3, 0, 6, 7, 8, 9>>,
              <<1, MAX_DATA_SIZE + 1, 32, 3>>, <<1, 0, 33, 3>>}
===============================================================================
