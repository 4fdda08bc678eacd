----------------------- MODULE MCPriorityNonceIterator -----------------------
(***************************************************************************)
(* Instances of the lane mempool with its iterator for TLC.                *)
(***************************************************************************)
EXTENDS PriorityNonceIterator

CONSTANTS noSigner

MCUnsigned == {noSigner}
=============================================================================
