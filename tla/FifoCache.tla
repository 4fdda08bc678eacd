------------------------------ MODULE FifoCache ------------------------------
(***************************************************************************)
(* What a bounded decoder cache promises its callers: it remembers the     *)
(* last MaxSize distinct transactions decoded, and makes room by           *)
(* forgetting the one it has held the longest.                             *)
(***************************************************************************)
EXTENDS Naturals, Sequences, SequencesExt

CONSTANTS Hash, MaxSize

VARIABLE queue   \* the cached hashes, oldest first

Init == queue = <<>>

Remember(h) ==
  /\ h \notin ToSet(queue)
  /\ queue' = Append(IF Len(queue) = MaxSize THEN Tail(queue) ELSE queue, h)

Next == \E h \in Hash : Remember(h)

Spec == Init /\ [][Next]_queue
=============================================================================
