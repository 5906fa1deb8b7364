------------------------------ MODULE MCAsdI2c ------------------------------
(***************************************************************************)
(* AsdI2c on boards whose buses are all I2C or all I3C.                    *)
(***************************************************************************)
EXTENDS AsdI2c

Uniform == {[b \in Buses |-> t] : t \in HandlerTypes}
=============================================================================
