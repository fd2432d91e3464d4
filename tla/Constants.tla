------------------------------ MODULE Constants ------------------------------
(***************************************************************************)
(* Constants.sol: the denominator of fees, thresholds and inflation, which *)
(* the mints, the stability modules and the stabilizer share.              *)
(***************************************************************************)
CONSTANT BASIS_POINTS_GRANULARITY    \* 10000 in the code
=============================================================================
