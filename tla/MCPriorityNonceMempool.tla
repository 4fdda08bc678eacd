----------------------- MODULE MCPriorityNonceMempool -----------------------
(***************************************************************************)
(* Instances of the lane mempool for TLC.                                  *)
(***************************************************************************)
EXTENDS PriorityNonceMempool

CONSTANTS noSigner

MCUnsigned == {noSigner}
=============================================================================
