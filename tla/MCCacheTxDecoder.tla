-------------------------- MODULE MCCacheTxDecoder --------------------------
(***************************************************************************)
(* Five decodable transactions and an undecodable one in a cache of three: *)
(* the ring wraps, and an evicted transaction comes back.                  *)
(***************************************************************************)
EXTENDS CacheTxDecoder

CONSTANTS h1, h2, h3, h4, h5, h6

MCHash == {h1, h2, h3, h4, h5, h6}
MCUndecodable == {h6}
=============================================================================
