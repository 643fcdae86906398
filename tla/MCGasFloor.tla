------------------------------ MODULE MCGasFloor ------------------------------
(***************************************************************************)
(* Instances of GasFloor for TLC.  Limits go from the outbox's floor of    *)
(* 50000 across each residue near a multiple of 63.                        *)
(***************************************************************************)
EXTENDS GasFloor

SmallLimits == 50000 .. 50130 \cup {300000, 999999, 1000000, 1500000}
SpareGas == {-1, 0, 1, 63}
WholeReserve == {0, 39999, 40000}
CloneWork == {0, 2700}
CodeWork == {0, 10000}
===============================================================================
