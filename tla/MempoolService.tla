--------------------------- MODULE MempoolService ---------------------------
(***************************************************************************)
(* The mempool's query service: its answer, a map from the names of the    *)
(* lanes to numbers of transactions (block/service/types/query.pb.go), for *)
(* the mempool of LaneRegistry.                                            *)
(***************************************************************************)
EXTENDS LaneRegistry, Wire, Bitwise

\* An entry of the map is a message of two fields, which are always written.
EntryFields(k, v) == <<Delimited(1, k), Varint(2, v)>>

\* The entries are written in the order in which Go ranges over the map, which is any.
GetTxDistributionResponseMarshals(d) ==
  {[i \in DOMAIN keys |-> Embedded(1, EntryFields(keys[i], d[keys[i]]))]
     : keys \in SetToSeqs(DOMAIN d)}

GetTxDistributionResponseSize(d) ==
  MapThenSumSet(LAMBDA k : DelimitedSize(1 + Len(k) + sov[Len(k)] + 1 + sov[d[k]]), DOMAIN d)

\* The loop over an entry.  It does not test the number of a field, and adds the bits of
\* a value to those of a value before it.  Nor does it test the wire type of a key or a
\* value: one that is wrong, which no encoder writes, would be read as if it were right.
EntryUnmarshal(w) ==
  LET step(s, f) ==
        IF ~s.ok \/ f.wt = NONE THEN [s EXCEPT !.ok = FALSE]
        ELSE IF s.depth = 0 /\ f.num = 1 THEN [s EXCEPT !.msg.key = f.val]
        ELSE IF s.depth = 0 /\ f.num = 2 THEN [s EXCEPT !.msg.value = @ | f.val]
        ELSE IF s.depth = 0 /\ f.wt = EGROUP THEN [s EXCEPT !.ok = FALSE]
        ELSE skip(s, f)
      end == FoldLeft(step, [ok |-> TRUE, depth |-> 0, msg |-> [key |-> <<>>, value |-> 0],
                             unknown |-> <<>>], w)
  IN  [end EXCEPT !.ok = @ /\ end.depth = 0]

\* The last entry of a key counts.
GetTxDistributionResponseUnmarshal(w) ==
  LET field(d, f) ==
        IF f.wt # BYTES THEN [ok |-> FALSE, msg |-> d]
        ELSE LET e == EntryUnmarshal(f.val)
             IN  [ok |-> e.ok, msg |-> (e.msg.key :> e.msg.value) @@ d]
  IN  Unmarshal(<<>>, w, {1}, field)

-----------------------------------------------------------------------------
\* The transactions a client of the query service is told of are those the mempool
\* counts, in whatever order the map is written (service.go:37, mempool.go:61-81), and
\* the bytes are as many as computed for the map.
DistributionComplete ==
  built => \A bytes \in GetTxDistributionResponseMarshals(GetTxDistribution) :
             LET r == GetTxDistributionResponseUnmarshal(bytes)
             IN  /\ r.ok /\ WireLen(bytes) = GetTxDistributionResponseSize(GetTxDistribution)
                 /\ MapThenSumSet(LAMBDA n : r.msg[n], DOMAIN r.msg) = CountTx
=============================================================================
