--------------------------- MODULE MCJtagMessage ---------------------------
(***************************************************************************)
(* JtagMessage for all packets of up to three of the commands below, the   *)
(* last of which may be cut short, one packet after another: every kind of *)
(* command, with operands that have the values of IR_PREFIX and of         *)
(* TAP_STATE Pause-DR, and both chains.                                    *)
(***************************************************************************)
EXTENDS JtagMessage

MCCommands == { <<33>>, <<36>>, <<38>>,             \* TAP_STATE RTI, ShDR, PauDR
                <<20>>,                             \* TAP_RESET
                <<65, 0>>, <<201, 0, 0>>, <<128>>,  \* scans of 1, 9 and 64 bits
                <<16, 4>>, <<16, 38>>,              \* WAIT_CYCLES
                <<4, 0, 0>>,                        \* IR_PREFIX
                <<8, 0>>,                           \* READ_STATUS
                <<7, 64>>, <<7, 193>>,              \* WRITE_PINS: chain 0, chain 1
                <<7, 2>>,                           \* WRITE_PINS: a pin
                <<48>> }                            \* no command
=============================================================================
