--------------------------- MODULE MCConfidential ---------------------------
(* A small instance of Confidential: one client and the miner, two          *)
(* contracts, counters that wrap after four.                                *)
EXTENDS Confidential

CONSTANTS a, b, alice, miner
=============================================================================
