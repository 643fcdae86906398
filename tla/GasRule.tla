-------------------------------- MODULE GasRule --------------------------------
(***************************************************************************)
(* The gas the gateway must have left before it calls a target:            *)
(* SolanaGateway._gasFloor.  GasFloor shows what the rule is worth;        *)
(* Adapters uses it to tell which deliveries revert.                       *)
(***************************************************************************)
EXTENDS Integers

GAS_RESERVE == 40000
ACCOUNT_FRAME_OVERHEAD == 40000
MODE_DIRECT == 0
MODE_ACCOUNT == 1

\* The 64/63 inflation of one frame.
Inflate(g) == (g * 64) \div 63

\* No inflation: the limit and the reserve.
BadGasFloor(limit, m) ==
  limit + (IF m = MODE_ACCOUNT THEN ACCOUNT_FRAME_OVERHEAD ELSE 0) + GAS_RESERVE

GasFloorOf(limit, m) ==
  IF m = MODE_ACCOUNT
  THEN Inflate(Inflate(limit) + ACCOUNT_FRAME_OVERHEAD) + GAS_RESERVE
  ELSE Inflate(limit) + GAS_RESERVE
===============================================================================
