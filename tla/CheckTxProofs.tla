---------------------------- MODULE CheckTxProofs ----------------------------
(***************************************************************************)
(* The safety of the two mempools that MempoolParityCheckTx keeps in step, *)
(* for every set of transactions, lanes and blocks: what the application   *)
(* alone holds has been executed, what the consensus engine holds the      *)
(* application holds, and the bids held could win the next block.          *)
(***************************************************************************)
EXTENDS CheckTx, LaneHandlersProofs

\* The folds' steps, in the form FoldTheorems takes them.
WithoutStep(gone, s, t) == IF t \in gone THEN s ELSE Append(s, t)
RemoveStep(par, ps, t) == LanedRemove(ps, t)
PrepareStep(par, runs, l) ==
  UNION {{PrepareLane(run, l, order) : order \in Select(Range(run.pools[l]))} : run \in runs}

WithoutFold == INSTANCE FoldTheorems WITH Step <- WithoutStep
RemoveFold == INSTANCE FoldTheorems WITH Step <- RemoveStep
PrepareFold == INSTANCE FoldTheorems WITH Step <- PrepareStep

-----------------------------------------------------------------------------
(* The consensus engine's mempool *)

\* Without removes exactly the given transactions.
LEMMA WithoutOk ==
  ASSUME NEW gone, NEW txs \in Seq(Tx)
  PROVE  Without(txs, gone) \in Seq(Tx) /\ ToSet(Without(txs, gone)) = ToSet(txs) \ gone
<1> DEFINE W(s) == Without(s, gone)
           S == {s \in Seq(Tx) : W(s) \in Seq(Tx) /\ ToSet(W(s)) = ToSet(s) \ gone}
<1>1. \A s : W(s) = WithoutFold!Fold(gone, <<>>, s)
  BY DEF Without, WithoutFold!Fold, FoldLeft, MapThenFoldSet, Max, WithoutStep,
         WithoutFold!FoldLeft, WithoutFold!MapThenFoldSet, WithoutFold!Max
<1> HIDE DEF W
<1>2. W(<<>>) = <<>>
  BY <1>1, WithoutFold!FoldEmpty
<1>3. ASSUME NEW s \in Seq(Tx), NEW t \in Tx
      PROVE  W(Append(s, t)) = IF t \in gone THEN W(s) ELSE Append(W(s), t)
  BY <1>1, WithoutFold!FoldAppend DEF WithoutStep
<1>4. <<>> \in S
  <2>1. \A e : e = <<>> => e \in Seq(Tx) /\ ToSet(e) = {}
    BY DEF ToSet
  <2>2. W(<<>>) \in Seq(Tx) /\ ToSet(W(<<>>)) = {} /\ ToSet(<<>>) = {}
    BY <1>2, <2>1
  <2> QED BY <2>2
<1>5. ASSUME NEW s \in Seq(Tx), NEW t \in Tx, s \in S
      PROVE  Append(s, t) \in S
  <2>1. ToSet(Append(s, t)) = ToSet(s) \cup {t}
    BY ToSetAppend
  <2>2. W(s) \in Seq(Tx) /\ ToSet(W(s)) = ToSet(s) \ gone
    BY <1>5
  <2>3. CASE t \in gone
    <3>1. W(Append(s, t)) = W(s)
      BY <1>3, <2>3
    <3> QED BY <2>1, <2>2, <2>3, <3>1
  <2>4. CASE t \notin gone
    <3>1. W(Append(s, t)) = Append(W(s), t)
      BY <1>3, <2>4
    <3>2. ToSet(Append(W(s), t)) = ToSet(W(s)) \cup {t}
      BY <2>2, ToSetAppend
    <3>3. W(Append(s, t)) \in Seq(Tx) /\ Append(s, t) \in Seq(Tx)
      BY <2>2, <3>1
    <3>4. ToSet(W(Append(s, t))) = ToSet(Append(s, t)) \ gone
      BY <2>1, <2>2, <2>4, <3>1, <3>2
    <3> QED BY <3>3, <3>4
  <2> QED BY <2>3, <2>4
<1> HIDE DEF S
<1>6. txs \in S
  BY <1>4, <1>5, SeqInduction
<1> QED BY <1>6 DEF S, W

-----------------------------------------------------------------------------
(* The application's mempool *)

\* Where a transaction is put: bids in the auction lane, others in the first lane
\* that matches.
Home(t) == IF t \in Match[MEVLane] THEN {MEVLane} ELSE FirstMatch(t)

\* The transactions that can be in a lane's mempool.
Poolable == {t \in Tx \ (Malformed \cup Undecodable) : FirstMatch(t) # {}}

\* Tables of the lanes that hold poolable transactions, at their slots and in their lane.
PoolsOk(ps) ==
  /\ DOMAIN ps = ToSet(Lanes)
  /\ \A l \in ToSet(Lanes) : \A s \in DOMAIN ps[l] :
       ps[l][s] \in Poolable /\ Slot(ps[l][s]) = s /\ l \in Home(ps[l][s])

\* qs is ps with some slots emptied.
Shrunk(ps, qs) ==
  /\ DOMAIN qs = ToSet(Lanes)
  /\ \A l \in ToSet(Lanes) : \A s \in DOMAIN qs[l] : s \in DOMAIN ps[l] /\ qs[l][s] = ps[l][s]

\* No lane has lost a slot other than those of the transactions txs.
LostOnly(ps, qs, txs) ==
  \A l \in ToSet(Lanes) : \A s \in DOMAIN ps[l] :
    s \in DOMAIN qs[l] \/ \E t \in txs : s = Slot(t)

\* Lanes are finitely many and have names.
LEMMA LaneTypes ==
  /\ Len(Lanes) \in Nat /\ DOMAIN Lanes = 1 .. Len(Lanes) /\ Lanes \in Seq(ToSet(Lanes))
  /\ \A i \in 1 .. Len(Lanes) : Lanes[i] \in ToSet(Lanes)
  /\ MEVLane \in ToSet(Lanes) /\ MEVLane \in DOMAIN Match
<1>1. Lanes \in Seq(DOMAIN Match)
  BY LaneAssumptions
<1>2. Len(Lanes) \in Nat /\ DOMAIN Lanes = 1 .. Len(Lanes)
  BY <1>1
<1>3. \A i \in 1 .. Len(Lanes) : Lanes[i] \in ToSet(Lanes)
  BY <1>2 DEF ToSet
<1> QED BY <1>1, <1>2, <1>3, LanedMempoolAssumptions, CheckTxAssumptions

\* The first lane that matches is one that does, or there is none.
LEMMA FirstMatchOk ==
  ASSUME NEW t
  PROVE  /\ FirstMatch(t) = {} => \A l \in ToSet(Lanes) : t \notin Match[l]
         /\ FirstMatch(t) # {} =>
              \E l \in ToSet(Lanes) : FirstMatch(t) = {l} /\ t \in Match[l]
<1> DEFINE I == {i \in 1 .. Len(Lanes) : t \in Match[Lanes[i]]}
           i == SelectInSeq(Lanes, LAMBDA l : t \in Match[l])
<1>1. FirstMatch(t) = IF i = 0 THEN {} ELSE {Lanes[i]}
  BY DEF FirstMatch
<1>2. i = IF I # {} THEN Min(I) ELSE 0
  BY DEF SelectInSeq
<1>3. I \in SUBSET Nat /\ 0 \notin I
  BY LaneTypes
<1>4. I = {} => \A l \in ToSet(Lanes) : t \notin Match[l]
  BY LaneTypes DEF ToSet
<1>5. \A k \in I : Lanes[k] \in ToSet(Lanes) /\ t \in Match[Lanes[k]]
  BY LaneTypes
<1> HIDE DEF I, i
<1>6. I # {} => i \in I
  BY <1>2, <1>3, MinIn
<1> QED BY <1>1, <1>2, <1>3, <1>4, <1>5, <1>6

\* A transaction has at most one home, a lane.
LEMMA HomeOk ==
  ASSUME NEW t \in Tx
  PROVE  /\ \A l \in Home(t) : l \in ToSet(Lanes) /\ Home(t) = {l} /\ t \in Match[l]
         /\ Home(t) # {} => FirstMatch(t) # {}
BY FirstMatchOk, LaneTypes DEF Home

\* Emptying slots twice is emptying slots.
LEMMA ShrunkTwice ==
  ASSUME NEW ps, NEW qs, NEW rs, Shrunk(ps, qs), Shrunk(qs, rs)
  PROVE  Shrunk(ps, rs)
BY DEF Shrunk

\* A lane's Remove empties the slot of the transaction.
LEMMA LaneRemoveOk ==
  ASSUME NEW ps, DOMAIN ps = ToSet(Lanes), NEW l \in ToSet(Lanes), NEW t,
         NEW qs, qs = LaneRemove(ps, l, t)
  PROVE  /\ Shrunk(ps, qs) /\ LostOnly(ps, qs, {t})
         /\ Slot(t) \notin DOMAIN qs[l]
         /\ \A k \in ToSet(Lanes) : k # l => qs[k] = ps[k]
<1> DEFINE table == Restrict(ps[l], DOMAIN ps[l] \ {Slot(t)})
<1>1. qs = [ps EXCEPT ![l] = table]
  BY DEF LaneRemove
<1>2. DOMAIN table = DOMAIN ps[l] \ {Slot(t)} /\ \A s \in DOMAIN table : table[s] = ps[l][s]
  BY DEF Restrict
<1> HIDE DEF table
<1>3. DOMAIN qs = ToSet(Lanes) /\ qs[l] = table /\ \A k \in ToSet(Lanes) : k # l => qs[k] = ps[k]
  BY <1>1
<1> QED BY <1>2, <1>3 DEF Shrunk, LostOnly

\* No slot is in two lanes.
UniqueSlots(ps) ==
  \A k, l \in ToSet(Lanes) : \A s \in DOMAIN ps[k] : s \in DOMAIN ps[l] => k = l

\* Remove empties the slot of the transaction in the first lane that has it, which is
\* every lane if slots are unique.
LEMMA LanedRemoveOk ==
  ASSUME NEW ps, DOMAIN ps = ToSet(Lanes), NEW t, NEW qs, qs = LanedRemove(ps, t)
  PROVE  /\ Shrunk(ps, qs) /\ LostOnly(ps, qs, {t})
         /\ UniqueSlots(ps) /\ t \notin Malformed =>
              \A l \in ToSet(Lanes) : Slot(t) \notin DOMAIN qs[l]
<1> DEFINE I == {i \in 1 .. Len(Lanes) : LaneContains(ps, Lanes[i], t)}
           i == SelectInSeq(Lanes, LAMBDA l : LaneContains(ps, l, t))
<1>1. qs = IF i = 0 THEN ps ELSE LaneRemove(ps, Lanes[i], t)
  BY DEF LanedRemove
<1>2. i = IF I # {} THEN Min(I) ELSE 0
  BY DEF SelectInSeq
<1>3. I \in SUBSET Nat /\ 0 \notin I
  BY LaneTypes
<1>4. I = {} => \A l \in ToSet(Lanes) : ~LaneContains(ps, l, t)
  BY LaneTypes DEF ToSet
<1>5. \A k \in I : Lanes[k] \in ToSet(Lanes) /\ LaneContains(ps, Lanes[k], t)
  BY LaneTypes
<1> HIDE DEF I, i
<1>6. I # {} => i \in I
  BY <1>2, <1>3, MinIn
<1>7. CASE I = {}
  <2>1. qs = ps
    BY <1>1, <1>2, <1>7
  <2> QED BY <1>4, <1>7, <2>1 DEF Shrunk, LostOnly, LaneContains
<1>8. CASE I # {}
  <2> DEFINE l == Lanes[i]
  <2>1. l \in ToSet(Lanes) /\ qs = LaneRemove(ps, l, t) /\ Slot(t) \in DOMAIN ps[l]
    BY <1>1, <1>3, <1>5, <1>6, <1>8 DEF LaneContains
  <2> HIDE DEF l
  <2>2. /\ Shrunk(ps, qs) /\ LostOnly(ps, qs, {t}) /\ Slot(t) \notin DOMAIN qs[l]
        /\ \A k \in ToSet(Lanes) : k # l => qs[k] = ps[k]
    <3>1. DOMAIN ps = ToSet(Lanes)
      OBVIOUS
    <3> QED BY ONLY <2>1, <3>1, LaneRemoveOk
  <2> QED BY <2>1, <2>2 DEF UniqueSlots
<1> QED BY <1>7, <1>8

\* FinalizeBlock's removals empty the slots of the block's transactions, one by one.
LEMMA RemoveAllOk ==
  ASSUME NEW ps, DOMAIN ps = ToSet(Lanes), NEW txs \in Seq(Tx)
  PROVE  LET qs == FoldLeft(LanedRemove, ps, txs)
         IN  /\ Shrunk(ps, qs) /\ LostOnly(ps, qs, ToSet(txs))
             /\ UniqueSlots(ps) =>
                  \A t \in ToSet(txs) \ Malformed : \A l \in ToSet(Lanes) : Slot(t) \notin DOMAIN qs[l]
<1> DEFINE R(s) == FoldLeft(LanedRemove, ps, s)
           Gone(s) == \A t \in ToSet(s) \ Malformed : \A l \in ToSet(Lanes) :
                        Slot(t) \notin DOMAIN R(s)[l]
           Good(s) == /\ Shrunk(ps, R(s)) /\ LostOnly(ps, R(s), ToSet(s))
                      /\ UniqueSlots(ps) => Gone(s)
           S == {s \in Seq(Tx) : Good(s)}
<1>1. \A s : R(s) = RemoveFold!Fold(0, ps, s)
  BY DEF RemoveFold!Fold, FoldLeft, MapThenFoldSet, Max, RemoveStep,
         RemoveFold!FoldLeft, RemoveFold!MapThenFoldSet, RemoveFold!Max
<1> HIDE DEF R
<1>2. R(<<>>) = ps
  BY <1>1, RemoveFold!FoldEmpty
<1>3. ASSUME NEW s \in Seq(Tx), NEW t \in Tx
      PROVE  R(Append(s, t)) = LanedRemove(R(s), t)
  BY <1>1, RemoveFold!FoldAppend DEF RemoveStep
<1>4. Good(<<>>)
  <2>1. ToSet(<<>>) = {}
    BY DEF ToSet
  <2> QED BY <1>2, <2>1 DEF Shrunk, LostOnly
<1>5. ASSUME NEW s \in Seq(Tx), NEW t \in Tx, s \in S
      PROVE  Append(s, t) \in S
  <2> DEFINE qs == R(s)
             rs == R(Append(s, t))
  <2>1. ToSet(Append(s, t)) = ToSet(s) \cup {t} /\ Append(s, t) \in Seq(Tx)
    BY ToSetAppend
  <2>2. Shrunk(ps, qs) /\ LostOnly(ps, qs, ToSet(s)) /\ (UniqueSlots(ps) => Gone(s))
    BY <1>5
  <2>3. DOMAIN qs = ToSet(Lanes) /\ rs = LanedRemove(qs, t)
    BY <1>3, <2>2 DEF Shrunk
  <2>4. /\ Shrunk(qs, rs) /\ LostOnly(qs, rs, {t})
        /\ UniqueSlots(qs) /\ t \notin Malformed =>
             \A l \in ToSet(Lanes) : Slot(t) \notin DOMAIN rs[l]
    <3> HIDE DEF qs, rs
    <3> QED BY <2>3, LanedRemoveOk
  <2>5. UniqueSlots(ps) => UniqueSlots(qs)
    BY <2>2 DEF UniqueSlots, Shrunk
  <2>6. Shrunk(ps, rs)
    BY <2>2, <2>4, ShrunkTwice
  <2>7. LostOnly(ps, rs, ToSet(s) \cup {t})
    BY <2>2, <2>4 DEF LostOnly
  <2>8. UniqueSlots(ps) => Gone(Append(s, t))
    BY <2>1, <2>2, <2>4, <2>5 DEF Shrunk
  <2> QED BY <2>1, <2>6, <2>7, <2>8
<1>6. <<>> \in S
  BY <1>4
<1> HIDE DEF S
<1>7. txs \in S
  BY <1>5, <1>6, SeqInduction
<1> QED BY <1>7 DEF S, R

\* What a lane's turn does to the mempool is a removal.
LEMMA PrepareLaneRemoves ==
  ASSUME NEW run, NEW l, NEW order
  PROVE  \E txs : PrepareLane(run, l, order).pools = RemoveTxsFromLane(run.pools, l, txs)
<1> DEFINE limit == GetLaneLimits(run.proposal, l)
           s == IF l = MEVLane
                THEN FirstBid(run.ctx, order,
                       LAMBDA b : ValidateTimeout(b) /\ BidOk(run.ctx, run.proposal, limit, b))
                ELSE DefaultPrepare(l, run.ctx, run.proposal, limit, order)
           refused == UpdateFails(run.proposal, l, s.include)
<1>1. PrepareLane(run, l, order) =
        [pools |-> RemoveTxsFromLane(run.pools, l, s.remove),
         ctx |-> IF refused THEN run.ctx ELSE s.ctx,
         proposal |-> IF refused THEN run.proposal ELSE Updated(run.proposal, l, s.include)]
  BY Zenon DEF PrepareLane
<1> HIDE DEF s, refused
<1> QED BY <1>1

\* PrepareProposal only empties slots, whatever the lanes select.
LEMMA PreparedShrinks ==
  ASSUME DOMAIN pools = ToSet(Lanes), NEW res \in Prepared
  PROVE  Shrunk(pools, res.pools)
<1> DEFINE start == {[pools |-> pools, ctx |-> committed,
                      proposal |-> NewProposal(ReqMaxTxBytes, BlockGasLimit(ConsMaxGas))]}
           P(ls) == PrepareFold!Fold(0, start, ls)
           S == {ls \in Seq(ToSet(Lanes)) : \A run \in P(ls) : Shrunk(pools, run.pools)}
<1>1. Prepared = P(Lanes)
  BY DEF Prepared, PrepareFold!Fold, FoldLeft, MapThenFoldSet, Max, PrepareStep,
         PrepareFold!FoldLeft, PrepareFold!MapThenFoldSet, PrepareFold!Max
<1>2. P(<<>>) = start
  BY PrepareFold!FoldEmpty
<1>3. ASSUME NEW ls \in Seq(ToSet(Lanes)), NEW l \in ToSet(Lanes)
      PROVE  P(Append(ls, l)) = PrepareStep(0, P(ls), l)
  <2> HIDE DEF start
  <2> QED BY PrepareFold!FoldAppend
<1> HIDE DEF P
<1>4. <<>> \in S
  BY <1>2 DEF Shrunk
<1>5. ASSUME NEW ls \in Seq(ToSet(Lanes)), NEW l \in ToSet(Lanes), ls \in S
      PROVE  Append(ls, l) \in S
  <2> SUFFICES ASSUME NEW next \in P(Append(ls, l))
               PROVE  Shrunk(pools, next.pools)
    OBVIOUS
  <2>1. PICK run \in P(ls) : \E order : next = PrepareLane(run, l, order)
    BY <1>3 DEF PrepareStep
  <2>2. Shrunk(pools, run.pools)
    BY <1>5
  <2>3. PICK txs : next.pools = RemoveTxsFromLane(run.pools, l, txs)
    BY <2>1, PrepareLaneRemoves
  <2> DEFINE table == Restrict(run.pools[l], {s \in DOMAIN run.pools[l] : run.pools[l][s] \notin txs})
  <2>4. next.pools = [run.pools EXCEPT ![l] = table]
    BY <2>3 DEF RemoveTxsFromLane
  <2>5. \A s \in DOMAIN table : s \in DOMAIN run.pools[l] /\ table[s] = run.pools[l][s]
    BY DEF Restrict
  <2> HIDE DEF table
  <2>6. Shrunk(run.pools, next.pools)
    BY <2>2, <2>4, <2>5 DEF Shrunk
  <2> QED BY <2>2, <2>6, ShrunkTwice
<1> HIDE DEF S
<1>6. Lanes \in S
  BY <1>4, <1>5, LaneTypes, SeqInduction
<1> QED BY <1>1, <1>6 DEF S

-----------------------------------------------------------------------------
(* One call of CheckTx *)

\* qs has nothing that ps has not but t, in its lane.
Admits(ps, qs, t) ==
  /\ DOMAIN qs = ToSet(Lanes)
  /\ \A l \in ToSet(Lanes) : \A s \in DOMAIN qs[l] :
       \/ s \in DOMAIN ps[l] /\ qs[l][s] = ps[l][s]
       \/ s = Slot(t) /\ qs[l][s] = t /\ t \notin Malformed /\ l \in Home(t)

\* A table from which slots are emptied still is one.
LEMMA PoolsShrink ==
  ASSUME NEW ps, NEW qs, PoolsOk(ps), Shrunk(ps, qs)
  PROVE  PoolsOk(qs) /\ PoolTxs(qs) \subseteq PoolTxs(ps)
<1>1. PoolsOk(qs)
  BY DEF PoolsOk, Shrunk
<1>2. \A l \in ToSet(Lanes) : Range(qs[l]) \subseteq Range(ps[l])
  BY DEF Shrunk, Range
<1> QED BY <1>1, <1>2 DEF PoolTxs

\* A poolable transaction put into its lane's table leaves a table.
LEMMA PoolsAdmit ==
  ASSUME NEW ps, NEW qs, NEW t \in Tx \ Undecodable, PoolsOk(ps), Admits(ps, qs, t)
  PROVE  PoolsOk(qs) /\ PoolTxs(qs) \subseteq PoolTxs(ps) \cup {t}
<1>1. \A l \in Home(t) : t \notin Malformed => t \in Poolable
  BY HomeOk DEF Poolable
<1>2. PoolsOk(qs)
  BY <1>1 DEF PoolsOk, Admits
<1>3. \A l \in ToSet(Lanes) : Range(qs[l]) \subseteq Range(ps[l]) \cup {t}
  BY DEF Admits, Range
<1> QED BY <1>2, <1>3 DEF PoolTxs

\* What the lanes hold, seen from the transactions.
LEMMA PoolTxsOk ==
  ASSUME NEW ps, PoolsOk(ps)
  PROVE  /\ PoolTxs(ps) \subseteq Poolable /\ PoolTxs(ps) \subseteq Tx
         /\ \A t \in PoolTxs(ps) : LanedContains(ps, t)
         /\ \A l \in ToSet(Lanes) : Range(ps[l]) \subseteq PoolTxs(ps)
         /\ \A l \in ToSet(Lanes) : \A t \in Range(ps[l]) : l \in Home(t)
         /\ \A t : LanedContains(ps, t) => \E u \in PoolTxs(ps) : Slot(u) = Slot(t)
<1>1. \A l \in ToSet(Lanes) : \A t \in Range(ps[l]) :
        \E s \in DOMAIN ps[l] : t = ps[l][s] /\ t \in Poolable /\ Slot(t) = s /\ l \in Home(t)
  BY DEF PoolsOk, Range
<1>2. Poolable \subseteq Tx /\ \A t \in Poolable : t \notin Malformed
  BY DEF Poolable
<1>3. \A l \in ToSet(Lanes) : Range(ps[l]) \subseteq PoolTxs(ps)
  BY DEF PoolTxs
<1>4. \A t \in PoolTxs(ps) : \E l \in ToSet(Lanes) : t \in Range(ps[l])
  BY DEF PoolTxs
<1>5. \A l \in ToSet(Lanes) : \A s \in DOMAIN ps[l] : ps[l][s] \in Range(ps[l])
  BY DEF Range
<1>6. \A t : LanedContains(ps, t) => \E u \in PoolTxs(ps) : Slot(u) = Slot(t)
  <2> SUFFICES ASSUME NEW t, LanedContains(ps, t) PROVE \E u \in PoolTxs(ps) : Slot(u) = Slot(t)
    OBVIOUS
  <2>1. PICK l \in ToSet(Lanes) : Slot(t) \in DOMAIN ps[l]
    BY DEF LanedContains, LaneContains
  <2>2. Slot(ps[l][Slot(t)]) = Slot(t)
    BY <2>1 DEF PoolsOk
  <2> QED BY <1>3, <1>5, <2>1, <2>2
<1>7. \A t \in PoolTxs(ps) : LanedContains(ps, t)
  BY <1>1, <1>2, <1>4 DEF LanedContains, LaneContains
<1> QED BY <1>1, <1>2, <1>3, <1>4, <1>6, <1>7

\* Insert into a transaction's lane: it is there, if it was not refused.
LEMMA LaneInsertOk ==
  ASSUME NEW ps, DOMAIN ps = ToSet(Lanes), NEW t, NEW l \in Home(t) \cap ToSet(Lanes),
         NEW ins, ins = LaneInsert(ps, l, t)
  PROVE  /\ ins.ok \in BOOLEAN
         /\ Admits(ps, ins.pools, t) /\ LostOnly(ps, ins.pools, {})
         /\ ~ins.ok => ins.pools = ps
         /\ ins.ok => t \notin Malformed /\ LanedContains(ins.pools, t)
<1> DEFINE full == MaxTxs[l] > 0 /\ Cardinality(DOMAIN ps[l]) >= MaxTxs[l]
           table == [s \in DOMAIN ps[l] \cup {Slot(t)} |-> IF s = Slot(t) THEN t ELSE ps[l][s]]
           more == [ps EXCEPT ![l] = table]
<1>1. ins = IF t \in Malformed \/ full
            THEN [ok |-> FALSE, pools |-> ps] ELSE [ok |-> TRUE, pools |-> more]
  BY DEF LaneInsert
<1>2. /\ DOMAIN more = ToSet(Lanes) /\ more[l] = table
      /\ \A k \in ToSet(Lanes) : k # l => more[k] = ps[k]
  OBVIOUS
<1>3. /\ DOMAIN table = DOMAIN ps[l] \cup {Slot(t)}
      /\ \A s \in DOMAIN table : IF s = Slot(t) THEN table[s] = t ELSE table[s] = ps[l][s]
  OBVIOUS
<1> HIDE DEF full, table, more
<1>4. CASE t \in Malformed \/ full
  <2>1. ins.ok = FALSE /\ ins.pools = ps
    BY <1>1, <1>4
  <2> QED BY <2>1 DEF Admits, LostOnly
<1>5. CASE ~(t \in Malformed \/ full)
  <2>1. ins.ok = TRUE /\ ins.pools = more
    BY <1>1, <1>5
  <2>2. Admits(ps, more, t)
    BY <1>2, <1>3, <1>5 DEF Admits
  <2>3. LostOnly(ps, more, {})
    BY <1>2, <1>3 DEF LostOnly
  <2>4. LanedContains(more, t)
    BY <1>2, <1>3, <1>5 DEF LanedContains, LaneContains
  <2> QED BY <1>5, <2>1, <2>2, <2>3, <2>4
<1> QED BY <1>4, <1>5

\* What is common to the outcomes of CheckTx, with and without the parity handler.
Outcome(t, top, res) ==
  /\ res.ok \in BOOLEAN
  /\ res.check \in [Accounts -> Nat] /\ \A a \in Accounts : check[a] <= res.check[a]
  /\ DOMAIN res.pools = ToSet(Lanes)
  /\ Admits(pools, res.pools, t) /\ LostOnly(pools, res.pools, {t})
  /\ res.ok => LostOnly(pools, res.pools, {})
  /\ res.ok /\ t \in Match[MEVLane] => ValidateBidTx(t, top)
  /\ res.ok /\ t \notin Match[MEVLane] =>
       Nonce[t] = check[Sender[t]] /\ res.check[Sender[t]] = Nonce[t] + 1

\* The wrapped handler: without success it admits nothing, and with success the
\* transaction is in its lane, if it has one.
Wrapped(t, top, res) ==
  /\ Outcome(t, top, res)
  /\ ~res.ok => Shrunk(pools, res.pools)
  /\ res.ok /\ FirstMatch(t) # {} => t \notin Malformed /\ LanedContains(res.pools, t)
  /\ t \notin Match[MEVLane] => LostOnly(pools, res.pools, {})

\* The base application's CheckTx.
LEMMA BaseCheckTxOk ==
  ASSUME PoolsOk(pools), check \in [Accounts -> Nat], NEW t \in Tx, NEW top,
         NEW isReCheck \in BOOLEAN, isReCheck => LanedContains(pools, t),
         t \notin Match[MEVLane], NEW res, res = BaseCheckTx(t, isReCheck)
  PROVE  Wrapped(t, top, res)
<1> DEFINE ins == IF isReCheck THEN [ok |-> TRUE, pools |-> pools] ELSE LanedInsert(pools, t)
           more == [check EXCEPT ![Sender[t]] = @ + 1]
<1>1. res = IF ~AnteOk(check, t) THEN [ok |-> FALSE, pools |-> pools, check |-> check]
            ELSE [ok |-> ins.ok, pools |-> ins.pools, check |-> more]
  BY DEF BaseCheckTx
<1>2. /\ Admits(pools, pools, t) /\ Shrunk(pools, pools) /\ DOMAIN pools = ToSet(Lanes)
      /\ LostOnly(pools, pools, {t}) /\ LostOnly(pools, pools, {})
  BY DEF Admits, Shrunk, LostOnly, PoolsOk
<1>3. /\ more \in [Accounts -> Nat] /\ more[Sender[t]] = check[Sender[t]] + 1
      /\ \A a \in Accounts : check[a] <= more[a]
  BY CheckTxAssumptions
<1>4. /\ ins.ok \in BOOLEAN /\ Admits(pools, ins.pools, t) /\ LostOnly(pools, ins.pools, {})
      /\ ~ins.ok => ins.pools = pools
      /\ ins.ok /\ FirstMatch(t) # {} => t \notin Malformed /\ LanedContains(ins.pools, t)
  <2>1. CASE isReCheck
    <3>1. ins.ok = TRUE /\ ins.pools = pools
      BY <2>1
    <3> QED BY <1>2, <2>1, <3>1 DEF LanedContains, LaneContains
  <2>2. CASE ~isReCheck /\ FirstMatch(t) = {}
    <3>1. ins.ok = TRUE /\ ins.pools = pools
      BY <2>2 DEF LanedInsert
    <3> QED BY <1>2, <2>2, <3>1
  <2>3. CASE ~isReCheck /\ FirstMatch(t) # {}
    <3>1. PICK l \in ToSet(Lanes) : FirstMatch(t) = {l}
      BY <2>3, FirstMatchOk
    <3>2. ins = LaneInsert(pools, l, t)
      BY <2>3, <3>1 DEF LanedInsert
    <3>3. l \in Home(t) \cap ToSet(Lanes)
      BY <3>1 DEF Home
    <3> HIDE DEF ins
    <3> QED BY <1>2, <3>2, <3>3, LaneInsertOk
  <2> QED BY <2>1, <2>2, <2>3
<1> HIDE DEF ins, more
<1>5. \A ps : LostOnly(pools, ps, {}) => LostOnly(pools, ps, {t})
  BY DEF LostOnly
<1>6. CASE ~AnteOk(check, t)
  <2>1. res.ok = FALSE /\ res.pools = pools /\ res.check = check
    BY <1>1, <1>6
  <2>2. \A a \in Accounts : check[a] <= check[a]
    OBVIOUS
  <2> QED BY <1>2, <2>1, <2>2 DEF Wrapped, Outcome
<1>7. CASE AnteOk(check, t)
  <2>1. res.ok = ins.ok /\ res.pools = ins.pools /\ res.check = more
    BY <1>1, <1>7
  <2>2. Nonce[t] = check[Sender[t]]
    BY <1>7 DEF AnteOk
  <2>3. DOMAIN ins.pools = ToSet(Lanes)
    BY <1>4 DEF Admits
  <2> QED BY <1>2, <1>3, <1>4, <1>5, <2>1, <2>2, <2>3 DEF Wrapped, Outcome
<1> QED BY <1>6, <1>7

\* The auction handler around it.
LEMMA MEVCheckTxOk ==
  ASSUME PoolsOk(pools), check \in [Accounts -> Nat], NEW t \in Tx, NEW top,
         NEW isReCheck \in BOOLEAN, isReCheck => LanedContains(pools, t),
         NEW res, res = MEVCheckTx(t, isReCheck, top)
  PROVE  Wrapped(t, top, res)
<1>1. CASE t \notin Match[MEVLane]
  <2>1. res = BaseCheckTx(t, isReCheck)
    BY <1>1 DEF MEVCheckTx
  <2> QED BY <1>1, <2>1, BaseCheckTxOk
<1>2. MEVLane \in ToSet(Lanes) /\ DOMAIN pools = ToSet(Lanes)
  BY LaneTypes DEF PoolsOk
<1>3. \A a \in Accounts : check[a] <= check[a]
  OBVIOUS
<1>4. \A ps : LostOnly(pools, ps, {}) => LostOnly(pools, ps, {t})
  BY DEF LostOnly
<1>5. /\ Admits(pools, pools, t) /\ Shrunk(pools, pools) /\ LostOnly(pools, pools, {t})
  BY <1>2 DEF Admits, Shrunk, LostOnly
<1>6. \A ps : Shrunk(pools, ps) => Admits(pools, ps, t) /\ DOMAIN ps = ToSet(Lanes)
  BY DEF Admits, Shrunk
<1>7. CASE t \in Match[MEVLane] /\ ValidateBidTx(t, top)
  <2> DEFINE ins == LaneInsert(pools, MEVLane, t)
  <2>1. res = [ok |-> ins.ok, pools |-> ins.pools, check |-> check]
    BY <1>7 DEF MEVCheckTx
  <2> HIDE DEF ins
  <2>2. res.ok = ins.ok /\ res.pools = ins.pools /\ res.check = check
    BY <2>1
  <2>3. MEVLane \in Home(t) \cap ToSet(Lanes)
    BY <1>2, <1>7 DEF Home
  <2>4. /\ ins.ok \in BOOLEAN /\ Admits(pools, ins.pools, t) /\ LostOnly(pools, ins.pools, {})
        /\ ~ins.ok => ins.pools = pools
        /\ ins.ok => t \notin Malformed /\ LanedContains(ins.pools, t)
    BY <1>2, <2>3, LaneInsertOk DEF ins
  <2>5. DOMAIN ins.pools = ToSet(Lanes)
    BY <2>4 DEF Admits
  <2> QED BY <1>3, <1>4, <1>5, <1>7, <2>2, <2>4, <2>5 DEF Wrapped, Outcome
<1>8. CASE t \in Match[MEVLane] /\ ~ValidateBidTx(t, top)
  <2> DEFINE qs == IF LaneContains(pools, MEVLane, t) THEN LaneRemove(pools, MEVLane, t) ELSE pools
  <2>1. res = [ok |-> FALSE, check |-> check, pools |-> qs]
    BY <1>8 DEF MEVCheckTx
  <2>2. Shrunk(pools, qs) /\ LostOnly(pools, qs, {t})
    <3>1. CASE LaneContains(pools, MEVLane, t)
      <4>1. qs = LaneRemove(pools, MEVLane, t)
        BY <3>1
      <4> HIDE DEF qs
      <4> QED BY <1>2, <4>1, LaneRemoveOk
    <3>2. CASE ~LaneContains(pools, MEVLane, t)
      BY <1>5, <3>2
    <3> QED BY <3>1, <3>2
  <2> HIDE DEF qs
  <2>3. res.ok = FALSE /\ res.pools = qs /\ res.check = check
    BY <2>1
  <2> QED BY <1>3, <1>6, <1>8, <2>2, <2>3 DEF Wrapped, Outcome
<1> QED BY <1>1, <1>7, <1>8

\* The whole of it.  With success the application holds the transaction; without, and if
\* the transaction fits, nothing is admitted and a recheck leaves nothing of it.
Checked(t, isReCheck, top, res) ==
  /\ Outcome(t, top, res) /\ PoolsOk(res.pools)
  /\ res.ok => t \in Poolable /\ LanedContains(res.pools, t)
  /\ ~isReCheck /\ t \notin Match[MEVLane] => LostOnly(pools, res.pools, {})
  /\ ~res.ok /\ MatchedAndFits(t) =>
       /\ Shrunk(pools, res.pools)
       /\ isReCheck /\ UniqueSlots(pools) => t \notin PoolTxs(res.pools)

\* The parity handler around the auction handler.
LEMMA ParityCheckTxOk ==
  ASSUME PoolsOk(pools), check \in [Accounts -> Nat], NEW t \in Tx, NEW top,
         NEW isReCheck \in BOOLEAN, NEW res, res = ParityCheckTx(t, isReCheck, top)
  PROVE  Checked(t, isReCheck, top, res)
<1> DEFINE mid == MEVCheckTx(t, isReCheck, top)
           ok == mid.ok /\ MatchedAndFits(t)
           qs == IF ~ok /\ Purges(isReCheck) THEN LanedRemove(mid.pools, t) ELSE mid.pools
<1>1. res = IF RefusedAtOnce(t, isReCheck) THEN [ok |-> FALSE, pools |-> pools, check |-> check]
            ELSE [ok |-> ok, check |-> mid.check, pools |-> qs]
  BY DEF ParityCheckTx
<1>2. /\ Admits(pools, pools, t) /\ Shrunk(pools, pools) /\ DOMAIN pools = ToSet(Lanes)
      /\ LostOnly(pools, pools, {t}) /\ LostOnly(pools, pools, {})
      /\ \A a \in Accounts : check[a] <= check[a]
  BY DEF Admits, Shrunk, LostOnly, PoolsOk
<1>3. CASE RefusedAtOnce(t, isReCheck)
  <2>1. res.ok = FALSE /\ res.pools = pools /\ res.check = check
    BY <1>1, <1>3
  <2>2. isReCheck => t \notin PoolTxs(pools)
    BY <1>3, PoolTxsOk DEF RefusedAtOnce, Poolable
  <2> QED BY <1>2, <2>1, <2>2 DEF Checked, Outcome
<1>4. CASE ~RefusedAtOnce(t, isReCheck)
  <2>1. t \notin Undecodable /\ (isReCheck => LanedContains(pools, t))
    BY <1>4 DEF RefusedAtOnce
  <2>2. Wrapped(t, top, mid)
    <3> HIDE DEF ok, qs
    <3> QED BY <2>1, MEVCheckTxOk
  <2>3. MatchedAndFits(t) => FirstMatch(t) # {}
    BY DEF MatchedAndFits
  <2>4. MatchedAndFits(t) \in BOOLEAN
    BY DEF MatchedAndFits
  <2>5. PoolsOk(mid.pools)
    BY <2>1, <2>2, PoolsAdmit DEF Wrapped, Outcome
  <2> HIDE DEF mid
  <2>6. ok \in BOOLEAN /\ res.ok = ok /\ res.pools = qs /\ res.check = mid.check
    BY <1>1, <1>4, <2>2, <2>4 DEF Wrapped, Outcome
  <2>7. ok => mid.ok /\ MatchedAndFits(t) /\ qs = mid.pools
    OBVIOUS
  <2>8. ~ok /\ isReCheck => qs = LanedRemove(mid.pools, t)
    BY DEF Purges
  <2>9. ~isReCheck => qs = mid.pools
    BY DEF Purges
  <2>10. ~ok /\ MatchedAndFits(t) => Shrunk(pools, mid.pools)
    BY <2>2, <2>4 DEF Wrapped, Outcome
  <2> HIDE DEF ok, qs
  <2>11. CASE ok \/ ~isReCheck
    <3>1. qs = mid.pools
      BY <2>7, <2>9, <2>11
    <3>2. Outcome(t, top, res)
      BY <2>2, <2>6, <2>7, <3>1 DEF Wrapped, Outcome
    <3>3. ok => t \in Poolable /\ LanedContains(qs, t)
      BY <2>1, <2>2, <2>3, <2>7, <3>1 DEF Wrapped, Poolable
    <3> QED BY <2>2, <2>5, <2>6, <2>7, <2>10, <2>11, <3>1, <3>2, <3>3 DEF Checked, Wrapped
  <2>12. CASE ~ok /\ isReCheck
    <3>1. qs = LanedRemove(mid.pools, t) /\ DOMAIN mid.pools = ToSet(Lanes)
      BY <2>2, <2>8, <2>12 DEF Wrapped, Outcome
    <3>2. /\ Shrunk(mid.pools, qs) /\ LostOnly(mid.pools, qs, {t})
          /\ UniqueSlots(mid.pools) /\ t \notin Malformed =>
               \A l \in ToSet(Lanes) : Slot(t) \notin DOMAIN qs[l]
      BY <3>1, LanedRemoveOk
    <3>3. PoolsOk(qs) /\ DOMAIN qs = ToSet(Lanes)
      BY <2>5, <3>2, PoolsShrink DEF Shrunk
    <3>4. Admits(pools, qs, t)
      BY <2>2, <3>2 DEF Wrapped, Outcome, Admits, Shrunk
    <3>5. LostOnly(pools, qs, {t})
      BY <2>2, <3>2 DEF Wrapped, Outcome, LostOnly
    <3>6. Outcome(t, top, res)
      BY <2>2, <2>6, <2>12, <3>3, <3>4, <3>5 DEF Wrapped, Outcome
    <3>7. ASSUME MatchedAndFits(t)
          PROVE  Shrunk(pools, qs) /\ (UniqueSlots(pools) => t \notin PoolTxs(qs))
      <4>1. Shrunk(pools, mid.pools)
        BY <2>10, <2>12, <3>7
      <4>2. Shrunk(pools, qs)
        BY <3>2, <4>1, ShrunkTwice
      <4>3. UniqueSlots(pools) => UniqueSlots(mid.pools)
        BY <4>1 DEF UniqueSlots, Shrunk
      <4>4. t \in PoolTxs(qs) => t \notin Malformed /\ LanedContains(qs, t)
        BY <3>3, PoolTxsOk DEF Poolable
      <4> QED BY <3>2, <4>2, <4>3, <4>4 DEF LanedContains, LaneContains
    <3> QED BY <2>6, <2>12, <3>3, <3>6, <3>7 DEF Checked
  <2> QED BY <2>6, <2>11, <2>12
<1> QED BY <1>3, <1>4

-----------------------------------------------------------------------------
(* The shape of the state, and what each action does to it *)

\* Taking the head off a sequence without repetitions.
LEMMA HeadTailOnce ==
  ASSUME NEW s \in Seq(Tx), s # <<>>
  PROVE  /\ Head(s) \in Tx /\ Tail(s) \in Seq(Tx)
         /\ ToSet(s) = {Head(s)} \cup ToSet(Tail(s))
         /\ IsInjective(s) => IsInjective(Tail(s)) /\ Head(s) \notin ToSet(Tail(s))
<1>1. /\ Len(s) \in Nat \ {0} /\ DOMAIN s = 1 .. Len(s) /\ Head(s) = s[1] /\ Head(s) \in Tx
      /\ Tail(s) \in Seq(Tx) /\ DOMAIN Tail(s) = 1 .. Len(s) - 1
      /\ \A i \in 1 .. Len(s) - 1 : Tail(s)[i] = s[i + 1]
  OBVIOUS
<1>2. ToSet(s) = {Head(s)} \cup ToSet(Tail(s))
  <2>1. \A i \in 1 .. Len(s) - 1 : Tail(s)[i] \in ToSet(s)
    BY <1>1 DEF ToSet
  <2>2. \A i \in 1 .. Len(s) : i # 1 => s[i] = Tail(s)[i - 1] /\ i - 1 \in 1 .. Len(s) - 1
    BY <1>1
  <2>3. \A i \in 1 .. Len(s) : s[i] = Head(s) \/ s[i] \in ToSet(Tail(s))
    BY <1>1, <2>2 DEF ToSet
  <2>4. Head(s) \in ToSet(s)
    BY <1>1 DEF ToSet
  <2> QED BY <1>1, <2>1, <2>3, <2>4 DEF ToSet
<1>3. IsInjective(s) => IsInjective(Tail(s)) /\ Head(s) \notin ToSet(Tail(s))
  <2> SUFFICES ASSUME IsInjective(s)
               PROVE  IsInjective(Tail(s)) /\ Head(s) \notin ToSet(Tail(s))
    OBVIOUS
  <2>1. \A i, j \in 1 .. Len(s) : s[i] = s[j] => i = j
    BY <1>1 DEF IsInjective
  <2>2. \A i, j \in 1 .. Len(s) - 1 : s[i + 1] = s[j + 1] => i = j
    BY <1>1, <2>1
  <2>3. \A i \in 1 .. Len(s) - 1 : s[i + 1] # s[1]
    BY <1>1, <2>1
  <2> QED BY <1>1, <2>2, <2>3 DEF IsInjective, ToSet
<1> QED BY <1>1, <1>2, <1>3

\* A sequence without repetitions grows by something new.
LEMMA AppendOnce ==
  ASSUME NEW s \in Seq(Tx), NEW t \in Tx
  PROVE  IsInjective(Append(s, t)) <=> IsInjective(s) /\ t \notin ToSet(s)
<1>1. /\ Len(s) \in Nat /\ DOMAIN s = 1 .. Len(s) /\ DOMAIN Append(s, t) = 1 .. Len(s) + 1
      /\ Append(s, t)[Len(s) + 1] = t /\ \A i \in 1 .. Len(s) : Append(s, t)[i] = s[i]
  OBVIOUS
<1> QED BY <1>1 DEF IsInjective, ToSet

\* Without keeps a sequence without repetitions one.
LEMMA WithoutOnce ==
  ASSUME NEW gone, NEW txs \in Seq(Tx), IsInjective(txs)
  PROVE  IsInjective(Without(txs, gone))
<1> DEFINE W(s) == Without(s, gone)
           S == {s \in Seq(Tx) : IsInjective(s) => IsInjective(W(s))}
<1>1. \A s : W(s) = WithoutFold!Fold(gone, <<>>, s)
  BY DEF Without, WithoutFold!Fold, FoldLeft, MapThenFoldSet, Max, WithoutStep,
         WithoutFold!FoldLeft, WithoutFold!MapThenFoldSet, WithoutFold!Max
<1> HIDE DEF W
<1>2. W(<<>>) = <<>>
  BY <1>1, WithoutFold!FoldEmpty
<1>3. ASSUME NEW s \in Seq(Tx), NEW t \in Tx
      PROVE  W(Append(s, t)) = IF t \in gone THEN W(s) ELSE Append(W(s), t)
  BY <1>1, WithoutFold!FoldAppend DEF WithoutStep
<1>4. <<>> \in S
  BY <1>2
<1>5. ASSUME NEW s \in Seq(Tx), NEW t \in Tx, s \in S
      PROVE  Append(s, t) \in S
  <2> SUFFICES ASSUME IsInjective(Append(s, t)) PROVE IsInjective(W(Append(s, t)))
    OBVIOUS
  <2>1. IsInjective(s) /\ t \notin ToSet(s)
    BY AppendOnce
  <2>2. W(s) \in Seq(Tx) /\ ToSet(W(s)) = ToSet(s) \ gone
    BY WithoutOk DEF W
  <2>3. IsInjective(W(s))
    BY <1>5, <2>1
  <2>4. IsInjective(Append(W(s), t))
    BY <2>1, <2>2, <2>3, AppendOnce
  <2> QED BY <1>3, <2>3, <2>4
<1> HIDE DEF S
<1>6. txs \in S
  BY <1>4, <1>5, SeqInduction
<1> QED BY <1>6 DEF S, W

\* The inductive invariant behind all the others: the pools are tables, a round of
\* rechecks goes through the engine's mempool, which has no repetitions, and a block
\* under way executes on the committed state.
Shape ==
  /\ height \in 0 .. MaxHeight
  /\ committed \in [Accounts -> Nat] /\ check \in [Accounts -> Nat]
  /\ PoolsOk(pools)
  /\ comet \in Seq(Tx) /\ pending \in Seq(Tx) /\ IsInjective(comet) /\ IsInjective(pending)
  /\ ToSet(pending) \subseteq ToSet(comet) /\ dropped \subseteq ToSet(comet)
  /\ final = <<>> \/ \E k \in Blocks : final = <<k>> /\ VerifyAll(committed, k).ok

\* What CheckNew does, in terms of the outcome of CheckTx.
LEMMA CheckNewStep ==
  ASSUME Shape, NEW t \in Tx, CheckNew(t)
  PROVE  \E top, res :
           /\ Checked(t, FALSE, top, res)
           /\ pools' = res.pools /\ check' = res.check
           /\ comet' = IF res.ok THEN Append(comet, t) ELSE comet
<1>1. PICK top \in Tops :
        LET res == ParityCheckTx(t, FALSE, top)
        IN  /\ pools' = res.pools /\ check' = res.check
            /\ comet' = IF res.ok THEN Append(comet, t) ELSE comet
  BY DEF CheckNew
<1>2. Checked(t, FALSE, top, ParityCheckTx(t, FALSE, top))
  BY ParityCheckTxOk DEF Shape
<1> QED BY <1>1, <1>2

\* What Recheck does.
LEMMA RecheckStep ==
  ASSUME Shape, Recheck
  PROVE  \E top, res :
           /\ Checked(Head(pending), TRUE, top, res)
           /\ pools' = res.pools /\ check' = res.check
           /\ comet' = IF res.ok THEN comet ELSE Without(comet, {Head(pending)})
           /\ dropped' = dropped \ {Head(pending)}
<1>1. PICK top \in Tops :
        LET res == ParityCheckTx(Head(pending), TRUE, top)
        IN  /\ pools' = res.pools /\ check' = res.check
            /\ comet' = IF res.ok THEN comet ELSE Without(comet, {Head(pending)})
            /\ dropped' = dropped \ {Head(pending)}
  BY DEF Recheck
<1>2. Head(pending) \in Tx
  BY DEF Shape, Recheck
<1>3. Checked(Head(pending), TRUE, top, ParityCheckTx(Head(pending), TRUE, top))
  BY <1>2, ParityCheckTxOk DEF Shape
<1> QED BY <1>1, <1>3

\* What FinalizeBlock does.
LEMMA FinalizeStep ==
  ASSUME Shape, NEW k \in Blocks, FinalizeBlock(k)
  PROVE  /\ k \in Seq(Tx) /\ final' = <<k>> /\ PoolsOk(pools')
         /\ Shrunk(pools, pools') /\ LostOnly(pools, pools', ToSet(k))
         /\ UniqueSlots(pools) =>
              \A t \in ToSet(k) \ Malformed : \A l \in ToSet(Lanes) : Slot(t) \notin DOMAIN pools'[l]
<1>1. k \in Seq(Tx) /\ DOMAIN pools = ToSet(Lanes) /\ PoolsOk(pools)
  BY CheckTxAssumptions DEF Shape, PoolsOk
<1>2. pools' = FoldLeft(LanedRemove, pools, k) /\ final' = <<k>>
  BY DEF FinalizeBlock
<1>3. /\ Shrunk(pools, pools') /\ LostOnly(pools, pools', ToSet(k))
      /\ UniqueSlots(pools) =>
           \A t \in ToSet(k) \ Malformed : \A l \in ToSet(Lanes) : Slot(t) \notin DOMAIN pools'[l]
  BY <1>1, <1>2, RemoveAllOk
<1> QED BY <1>1, <1>2, <1>3, PoolsShrink

\* What Commit does: sequence numbers grow beyond those of the block's transactions,
\* and the new round is about the rest of the engine's mempool.
LEMMA CommitStep ==
  ASSUME Shape, Commit
  PROVE  /\ committed' \in [Accounts -> Nat] /\ check' = committed'
         /\ \A a \in Accounts : committed[a] <= committed'[a]
         /\ \A t \in Executing : Nonce[t] < committed'[Sender[t]]
         /\ comet' \in Seq(Tx) /\ IsInjective(comet') /\ pending' = comet'
         /\ ToSet(comet') = ToSet(comet) \ Executing
         /\ pools' = pools
<1>1. PICK k \in Blocks : final = <<k>> /\ VerifyAll(committed, k).ok
  BY DEF Shape, Commit
<1>2. k \in Seq(Tx) /\ final[1] = k /\ DOMAIN final = {1}
  BY <1>1, CheckTxAssumptions
<1>3. Executing = ToSet(k)
  <2>1. ToSet(k) \subseteq Tx
    BY <1>2 DEF ToSet
  <2> QED BY <1>2, <2>1 DEF Executing
<1>4. SignedBy(Accounts) /\ committed \in Contexts(Accounts)
  BY CheckTxAssumptions DEF SignedBy, Contexts, Shape
<1>5. VerifyAll(committed, k) \in Runs(Accounts)
  BY <1>2, <1>4, VerifyAllType
<1>6. /\ \A a \in Accounts : committed[a] <= VerifyAll(committed, k).ctx[a]
      /\ \A i \in 1 .. Len(k) : Nonce[k[i]] < VerifyAll(committed, k).ctx[Sender[k[i]]]
  BY <1>1, <1>2, <1>4, VerifiedOnce
<1>7. committed' = VerifyAll(committed, k).ctx /\ check' = committed' /\ pools' = pools
  BY <1>2 DEF Commit
<1>8. comet' = Without(comet, ToSet(k)) /\ pending' = comet'
  BY <1>2 DEF Commit
<1>9. \A t \in ToSet(k) : Nonce[t] < committed'[Sender[t]]
  BY <1>2, <1>6, <1>7 DEF ToSet
<1>10. comet' \in Seq(Tx) /\ IsInjective(comet') /\ ToSet(comet') = ToSet(comet) \ ToSet(k)
  BY <1>8, WithoutOk, WithoutOnce DEF Shape
<1>11. committed' \in [Accounts -> Nat]
  BY <1>5, <1>7 DEF Runs, Contexts
<1> QED BY <1>3, <1>6, <1>7, <1>8, <1>9, <1>10, <1>11

\* What PrepareProposal does.
LEMMA PrepareProposalStep ==
  ASSUME Shape, PrepareProposal
  PROVE  PoolsOk(pools') /\ Shrunk(pools, pools')
<1>1. DOMAIN pools = ToSet(Lanes) /\ PoolsOk(pools)
  BY DEF Shape, PoolsOk
<1>2. PICK run \in Prepared : pools' = run.pools
  BY DEF PrepareProposal
<1>3. Shrunk(pools, pools')
  BY <1>1, <1>2, PreparedShrinks
<1> QED BY <1>1, <1>3, PoolsShrink

\* The initial state has the shape.
LEMMA ShapeInit == Init => Shape
<1> SUFFICES ASSUME Init PROVE Shape
  OBVIOUS
<1>1. height \in 0 .. MaxHeight
  BY CheckTxAssumptions DEF Init
<1>2. committed \in [Accounts -> Nat] /\ check \in [Accounts -> Nat]
  BY DEF Init
<1>3. PoolsOk(pools)
  BY DEF Init, PoolsOk, EmptyPools
<1>4. \A e : e = <<>> => e \in Seq(Tx) /\ IsInjective(e) /\ ToSet(e) = {}
  BY DEF IsInjective, ToSet
<1> QED BY <1>1, <1>2, <1>3, <1>4 DEF Init, Shape

\* Every action keeps it.
LEMMA ShapeNext == Shape /\ [Next]_vars => Shape'
<1> SUFFICES ASSUME Shape, [Next]_vars PROVE Shape'
  OBVIOUS
<1>1. ASSUME NEW t \in Tx, CheckNew(t) PROVE Shape'
  <2>1. PICK top, res : /\ Checked(t, FALSE, top, res)
                        /\ pools' = res.pools /\ check' = res.check
                        /\ comet' = IF res.ok THEN Append(comet, t) ELSE comet
    BY <1>1, CheckNewStep
  <2>2. PoolsOk(pools') /\ check' \in [Accounts -> Nat]
    BY <2>1 DEF Checked, Outcome
  <2>3. comet \in Seq(Tx) /\ IsInjective(comet) /\ t \notin ToSet(comet)
    BY <1>1 DEF CheckNew, Shape
  <2>4. /\ Append(comet, t) \in Seq(Tx) /\ IsInjective(Append(comet, t))
        /\ ToSet(Append(comet, t)) = ToSet(comet) \cup {t}
    BY <2>3, AppendOnce, ToSetAppend
  <2>5. comet' \in Seq(Tx) /\ IsInjective(comet') /\ ToSet(comet) \subseteq ToSet(comet')
    BY <2>1, <2>3, <2>4
  <2>6. UNCHANGED <<height, committed, pending, final, dropped>>
    BY <1>1 DEF CheckNew
  <2> QED BY <2>2, <2>5, <2>6 DEF Shape
<1>2. ASSUME Recheck PROVE Shape'
  <2> DEFINE t == Head(pending)
  <2>1. PICK top, res : /\ Checked(t, TRUE, top, res)
                        /\ pools' = res.pools /\ check' = res.check
                        /\ comet' = IF res.ok THEN comet ELSE Without(comet, {t})
                        /\ dropped' = dropped \ {t}
    BY <1>2, RecheckStep
  <2>2. PoolsOk(pools') /\ check' \in [Accounts -> Nat]
    BY <2>1 DEF Checked, Outcome
  <2>3. comet \in Seq(Tx) /\ IsInjective(comet) /\ pending \in Seq(Tx) /\ pending # <<>>
    BY <1>2 DEF Recheck, Shape
  <2>4. /\ t \in Tx /\ Tail(pending) \in Seq(Tx) /\ IsInjective(Tail(pending))
        /\ ToSet(pending) = {t} \cup ToSet(Tail(pending)) /\ t \notin ToSet(Tail(pending))
    BY <2>3, HeadTailOnce DEF Shape
  <2> HIDE DEF t
  <2>5. /\ Without(comet, {t}) \in Seq(Tx) /\ IsInjective(Without(comet, {t}))
        /\ ToSet(Without(comet, {t})) = ToSet(comet) \ {t}
    BY <2>3, WithoutOk, WithoutOnce
  <2>6. comet' \in Seq(Tx) /\ IsInjective(comet') /\ ToSet(comet) \ {t} \subseteq ToSet(comet')
    BY <2>1, <2>3, <2>5
  <2>7. pending' = Tail(pending) /\ UNCHANGED <<height, committed, final>>
    BY <1>2 DEF Recheck
  <2> QED BY <2>1, <2>2, <2>4, <2>6, <2>7 DEF Shape
<1>3. ASSUME NEW k \in Blocks, FinalizeBlock(k) PROVE Shape'
  <2>1. UNCHANGED <<height, committed, check, comet, pending, dropped>>
        /\ VerifyAll(committed, k).ok
    BY <1>3 DEF FinalizeBlock
  <2>2. PoolsOk(pools') /\ final' = <<k>>
    BY <1>3, FinalizeStep
  <2>3. VerifyAll(committed', k).ok
    BY <2>1
  <2> QED BY <2>1, <2>2, <2>3 DEF Shape
<1>4. ASSUME Commit PROVE Shape'
  <2>1. /\ committed' \in [Accounts -> Nat] /\ check' = committed'
        /\ comet' \in Seq(Tx) /\ IsInjective(comet') /\ pending' = comet' /\ pools' = pools
    BY <1>4, CommitStep
  <2>2. height' = Min({height + 1, MaxHeight}) /\ final' = <<>>
        /\ dropped' = dropped \cap ToSet(comet')
    BY <1>4 DEF Commit
  <2>3. height + 1 \in Nat /\ MaxHeight \in Nat
    BY CheckTxAssumptions DEF Shape
  <2>4. height' \in {height + 1, MaxHeight} /\ height' <= MaxHeight
    <3> DEFINE d == {height + 1, MaxHeight}
    <3>1. d \in SUBSET Nat /\ d # {} /\ MaxHeight \in d
      BY <2>3
    <3> HIDE DEF d
    <3>2. Min(d) \in d /\ Min(d) <= MaxHeight
      BY <3>1, MinIn
    <3> QED BY <2>2, <3>2 DEF d
  <2>5. height' \in 0 .. MaxHeight
    BY <2>3, <2>4
  <2>6. PoolsOk(pools')
    BY <2>1 DEF Shape
  <2> QED BY <2>1, <2>2, <2>5, <2>6 DEF Shape
<1>5. ASSUME PrepareProposal PROVE Shape'
  <2>1. PoolsOk(pools')
    BY <1>5, PrepareProposalStep
  <2>2. UNCHANGED <<height, committed, check, comet, pending, final>>
        /\ dropped' \subseteq ToSet(comet)
    BY <1>5 DEF PrepareProposal
  <2> QED BY <2>1, <2>2 DEF Shape
<1>6. ASSUME UNCHANGED vars PROVE Shape'
  BY <1>6 DEF Shape, vars
<1> QED BY <1>1, <1>2, <1>3, <1>4, <1>5, <1>6 DEF Next

\* The shape of the state never changes: the type invariant, for every instance.
THEOREM TypeThm == Spec => []TypeOK
<1>1. Shape => TypeOK
  BY DEF Shape, TypeOK, PoolsOk, Poolable
<1> QED BY <1>1, ShapeInit, ShapeNext, PTL DEF Spec

-----------------------------------------------------------------------------
(* Bids *)

\* The bids that both mempools hold and that have been (re)checked at this height
\* would win: the invariant BidsExecutable needs between two rounds of rechecks.
BidInv ==
  \A b \in Range(pools[MEVLane]) \cap (ToSet(comet) \ ToSet(pending)) :
    ValidateTimeout(b) /\ VerifyBidTx(committed, b).ok

\* Every action keeps the bids that have been checked valid.
LEMMA BidNext == Shape /\ BidInv /\ [Next]_vars => BidInv'
<1> SUFFICES ASSUME Shape, BidInv, [Next]_vars PROVE BidInv'
  OBVIOUS
<1>0. MEVLane \in ToSet(Lanes)
  BY LaneTypes
<1>1. ASSUME NEW qs, Shrunk(pools, qs)
      PROVE  Range(qs[MEVLane]) \subseteq Range(pools[MEVLane])
  BY <1>0, <1>1 DEF Shrunk, Range
<1>2. ASSUME NEW qs, NEW t, Admits(pools, qs, t)
      PROVE  /\ Range(qs[MEVLane]) \subseteq Range(pools[MEVLane]) \cup {t}
             /\ t \in Range(qs[MEVLane]) => t \in Range(pools[MEVLane]) \/ MEVLane \in Home(t)
  BY <1>0, <1>2 DEF Admits, Range
<1>3. \A t \in Range(pools[MEVLane]) : MEVLane \in Home(t) /\ t \in Tx
  BY <1>0, PoolTxsOk DEF Shape
<1>4. \A t \in Tx : MEVLane \in Home(t) => t \in Match[MEVLane]
  BY HomeOk
<1>5. ASSUME NEW t \in Tx, CheckNew(t) PROVE BidInv'
  <2>1. PICK top, res : /\ Checked(t, FALSE, top, res)
                        /\ pools' = res.pools /\ check' = res.check
                        /\ comet' = IF res.ok THEN Append(comet, t) ELSE comet
    BY <1>5, CheckNewStep
  <2>2. /\ Admits(pools, pools', t)
        /\ res.ok /\ t \in Match[MEVLane] => ValidateBidTx(t, top)
    BY <2>1 DEF Checked, Outcome
  <2>3. UNCHANGED <<height, committed, pending>> /\ t \notin ToSet(comet)
    BY <1>5 DEF CheckNew
  <2>4. ToSet(Append(comet, t)) = ToSet(comet) \cup {t}
    BY ToSetAppend DEF Shape
  <2> SUFFICES ASSUME NEW b \in Range(pools'[MEVLane]) \cap (ToSet(comet') \ ToSet(pending'))
               PROVE  ValidateTimeout(b) /\ VerifyBidTx(committed, b).ok
    BY <2>3 DEF BidInv, ValidateTimeout
  <2>5. CASE b # t
    BY <1>2, <2>1, <2>2, <2>3, <2>4, <2>5 DEF BidInv
  <2>6. CASE b = t
    <3>1. res.ok
      BY <2>1, <2>3, <2>6
    <3>2. t \in Match[MEVLane]
      BY <1>2, <1>3, <1>4, <2>2, <2>6
    <3> QED BY <2>2, <2>6, <3>1, <3>2 DEF ValidateBidTx
  <2> QED BY <2>5, <2>6
<1>6. ASSUME Recheck PROVE BidInv'
  <2> DEFINE t == Head(pending)
  <2>1. PICK top, res : /\ Checked(t, TRUE, top, res)
                        /\ pools' = res.pools /\ check' = res.check
                        /\ comet' = IF res.ok THEN comet ELSE Without(comet, {t})
                        /\ dropped' = dropped \ {t}
    BY <1>6, RecheckStep
  <2>2. /\ Admits(pools, pools', t)
        /\ res.ok /\ t \in Match[MEVLane] => ValidateBidTx(t, top)
    BY <2>1 DEF Checked, Outcome
  <2>3. UNCHANGED <<height, committed>> /\ pending' = Tail(pending)
    BY <1>6 DEF Recheck
  <2>4. t \in Tx /\ ToSet(pending) = {t} \cup ToSet(Tail(pending))
    BY <1>6, HeadTailOnce DEF Shape, Recheck
  <2> HIDE DEF t
  <2>5. ToSet(Without(comet, {t})) = ToSet(comet) \ {t}
    BY WithoutOk DEF Shape
  <2> SUFFICES ASSUME NEW b \in Range(pools'[MEVLane]) \cap (ToSet(comet') \ ToSet(pending'))
               PROVE  ValidateTimeout(b) /\ VerifyBidTx(committed, b).ok
    BY <2>3 DEF BidInv, ValidateTimeout
  <2>6. CASE b # t
    BY <1>2, <2>1, <2>2, <2>3, <2>4, <2>5, <2>6 DEF BidInv
  <2>7. CASE b = t
    <3>1. res.ok
      BY <2>1, <2>5, <2>7
    <3>2. t \in Match[MEVLane]
      BY <1>2, <1>3, <1>4, <2>2, <2>4, <2>7
    <3> QED BY <2>2, <2>7, <3>1, <3>2 DEF ValidateBidTx
  <2> QED BY <2>6, <2>7
<1>7. ASSUME NEW k \in Blocks, FinalizeBlock(k) PROVE BidInv'
  <2>1. Shrunk(pools, pools')
    BY <1>7, FinalizeStep
  <2>2. UNCHANGED <<height, committed, comet, pending>>
    BY <1>7 DEF FinalizeBlock
  <2> QED BY <1>1, <2>1, <2>2 DEF BidInv, ValidateTimeout
<1>8. ASSUME Commit PROVE BidInv'
  BY <1>8 DEF Commit, BidInv
<1>9. ASSUME PrepareProposal PROVE BidInv'
  <2>1. Shrunk(pools, pools')
    BY <1>9, PrepareProposalStep
  <2>2. UNCHANGED <<height, committed, comet, pending>>
    BY <1>9 DEF PrepareProposal
  <2> QED BY <1>1, <2>1, <2>2 DEF BidInv, ValidateTimeout
<1>10. ASSUME UNCHANGED vars PROVE BidInv'
  BY <1>10 DEF BidInv, ValidateTimeout, vars
<1> QED BY <1>5, <1>6, <1>7, <1>8, <1>9, <1>10 DEF Next

\* Any bid the two mempools hold between two rounds could win the next block, whatever
\* the bids, their bundles and the blocks that come between: MEVCheckTxHandler and the
\* rechecks leave none that could not.
THEOREM BidsExecutableThm == Spec => []BidsExecutable
<1>1. Init => BidInv
  <2>1. \A e : e = <<>> => ToSet(e) = {}
    BY DEF ToSet
  <2> QED BY <2>1 DEF Init, BidInv
<1>2. BidInv => BidsExecutable
  <2>1. \A e : e = <<>> => ToSet(e) = {}
    BY DEF ToSet
  <2> QED BY <2>1 DEF BidInv, BidsExecutable, AtRest, ValidateTimeout
<1> QED BY <1>1, <1>2, ShapeInit, ShapeNext, BidNext, PTL DEF Spec

-----------------------------------------------------------------------------
(* Parity of the two mempools.  It is promised under two conditions, which the runs  *)
(* same_slot_bids and unlimited_lane show to be needed: no transaction has the sender *)
(* and the sequence number of another's bid, and each fits its lane's share.          *)

OwnBidSlots == \A b \in Match[MEVLane], t \in Tx : Slot(b) = Slot(t) => b = t
AllFit == \A t \in Poolable : MatchedAndFits(t)

\* With AllFit no orphan is excused for its size.
OrphansAreExecuted == \A t \in AppTxs \ ToSet(comet) : Spent(t)

\* The transactions that one of the mempools holds.
Live == AppTxs \cup ToSet(comet)

\* The check state is beyond every one of them but those to be rechecked: this is what
\* keeps a second transaction of the same sender and sequence number out.
Claimed ==
  \A t \in Live \ Match[MEVLane] : t \in ToSet(pending) \/ Nonce[t] < check[Sender[t]]

\* So no two have the same slot.
OneEach == \A t, u \in Live : Slot(t) = Slot(u) => t = u

\* The inductive invariant.
ParityInv == Claimed /\ OneEach /\ OrphansAreExecuted /\ CometWithinApp

\* Then no slot is in two lanes either, and Remove finds the transaction it is given.
LEMMA LiveUnique ==
  ASSUME Shape, OneEach
  PROVE  UniqueSlots(pools)
<1> SUFFICES ASSUME NEW k \in ToSet(Lanes), NEW l \in ToSet(Lanes),
                    NEW s \in DOMAIN pools[k], s \in DOMAIN pools[l]
             PROVE  k = l
  BY DEF UniqueSlots
<1>1. PoolsOk(pools)
  BY DEF Shape
<1>2. /\ pools[k][s] \in Tx /\ Slot(pools[k][s]) = s /\ k \in Home(pools[k][s])
      /\ pools[l][s] \in Tx /\ Slot(pools[l][s]) = s /\ l \in Home(pools[l][s])
  BY <1>1 DEF PoolsOk, Poolable
<1>3. pools[k][s] \in Range(pools[k]) /\ pools[l][s] \in Range(pools[l])
  BY DEF Range
<1>4. pools[k][s] \in Live /\ pools[l][s] \in Live
  BY <1>1, <1>3, PoolTxsOk DEF Live, AppTxs
<1>5. pools[k][s] = pools[l][s]
  BY <1>2, <1>4 DEF OneEach
<1> QED BY <1>2, <1>5, HomeOk

\* What is not lost is still contained.
LEMMA StillContained ==
  ASSUME NEW ps, NEW qs, NEW txs, LostOnly(ps, qs, txs), NEW u, LanedContains(ps, u),
         \A t \in txs : Slot(u) # Slot(t)
  PROVE  LanedContains(qs, u)
BY DEF LostOnly, LanedContains, LaneContains

\* What a call of CheckTx may add.
LEMMA AdmitsTxs ==
  ASSUME NEW ps, NEW qs, NEW t, Admits(ps, qs, t)
  PROVE  PoolTxs(qs) \subseteq PoolTxs(ps) \cup {t}
<1>1. \A l \in ToSet(Lanes) : Range(qs[l]) \subseteq Range(ps[l]) \cup {t}
  BY DEF Admits, Range
<1> QED BY <1>1 DEF PoolTxs

\* Types of what is compared below.
LEMMA LiveTypes ==
  ASSUME Shape
  PROVE  /\ Live \subseteq Tx
         /\ \A t \in Tx : Nonce[t] \in Nat /\ Sender[t] \in Accounts
         /\ \A t \in Tx : check[Sender[t]] \in Nat /\ committed[Sender[t]] \in Nat
         /\ final = <<>> => Executing = {}
<1>1. Live \subseteq Tx
  BY PoolTxsOk DEF Shape, Live, AppTxs, ToSet
<1> QED BY <1>1, LaneAssumptions, CheckTxAssumptions DEF Shape, Executing

\* A failed call of CheckTx adds nothing, if the transactions fit.
LEMMA FailedAdds ==
  ASSUME AllFit, Shape, NEW t \in Tx, NEW isReCheck, NEW top, NEW res,
         Checked(t, isReCheck, top, res), ~res.ok
  PROVE  /\ PoolTxs(res.pools) \subseteq AppTxs
         /\ isReCheck /\ UniqueSlots(pools) => t \notin PoolTxs(res.pools)
<1>1. PoolsOk(res.pools) /\ PoolsOk(pools)
  BY DEF Checked, Shape
<1>2. CASE t \in Poolable
  <2>1. Shrunk(pools, res.pools)
    BY <1>2 DEF AllFit, Checked
  <2> QED BY <1>1, <1>2, <2>1, PoolsShrink DEF AllFit, Checked, AppTxs
<1>3. CASE t \notin Poolable
  <2>1. t \notin PoolTxs(res.pools)
    BY <1>1, <1>3, PoolTxsOk
  <2>2. PoolTxs(res.pools) \subseteq AppTxs \cup {t}
    BY AdmitsTxs DEF Checked, Outcome, AppTxs
  <2> QED BY <2>1, <2>2
<1> QED BY <1>2, <1>3

\* A new transaction keeps the mempools in step.
LEMMA ParityCheckNew ==
  ASSUME OwnBidSlots, AllFit, Shape, ParityInv, NEW t \in Tx, CheckNew(t)
  PROVE  ParityInv'
<1>1. PICK top, res : /\ Checked(t, FALSE, top, res)
                      /\ pools' = res.pools /\ check' = res.check
                      /\ comet' = IF res.ok THEN Append(comet, t) ELSE comet
  BY CheckNewStep
<1>2. /\ pending = <<>> /\ t \notin ToSet(comet)
      /\ UNCHANGED <<height, committed, pending, final, dropped>>
  BY DEF CheckNew
<1>3. ToSet(pending) = {} /\ ToSet(pending') = {} /\ Executing' = Executing
  <2>1. \A e : e = <<>> => ToSet(e) = {}
    BY DEF ToSet
  <2> QED BY <1>2, <2>1 DEF Executing
<1>4. ToSet(comet') = IF res.ok THEN ToSet(comet) \cup {t} ELSE ToSet(comet)
  <2>1. ToSet(Append(comet, t)) = ToSet(comet) \cup {t}
    BY ToSetAppend DEF Shape
  <2> QED BY <1>1, <2>1
<1>5. /\ AppTxs' \subseteq AppTxs \cup {t}
      /\ ~res.ok => AppTxs' \subseteq AppTxs
      /\ Live' \subseteq Live \cup {t}
      /\ ~res.ok => Live' \subseteq Live
  <2>1. PoolTxs(res.pools) \subseteq AppTxs \cup {t}
    BY <1>1, AdmitsTxs DEF Checked, Outcome, AppTxs
  <2>2. ~res.ok => PoolTxs(res.pools) \subseteq AppTxs
    BY <1>1, FailedAdds
  <2>3. AppTxs' = PoolTxs(res.pools)
    BY <1>1 DEF AppTxs
  <2> QED BY <1>4, <2>1, <2>2, <2>3 DEF Live
<1>6. /\ check' \in [Accounts -> Nat] /\ \A a \in Accounts : check[a] <= check'[a]
      /\ res.ok /\ t \notin Match[MEVLane] =>
           Nonce[t] = check[Sender[t]] /\ check'[Sender[t]] = Nonce[t] + 1
      /\ res.ok => LanedContains(pools', t)
      /\ LostOnly(pools, pools', {t})
      /\ t \notin Match[MEVLane] => LostOnly(pools, pools', {})
  BY <1>1 DEF Checked, Outcome
<1>7. \A u \in Live \ Match[MEVLane] : Nonce[u] < check[Sender[u]]
  BY <1>3 DEF ParityInv, Claimed
<1>8. Claimed'
  <2> SUFFICES ASSUME NEW u \in Live' \ Match[MEVLane] PROVE Nonce[u] < check'[Sender[u]]
    BY DEF Claimed
  <2>1. CASE u \in Live
    BY <1>6, <1>7, <2>1, LiveTypes
  <2>2. CASE u \notin Live
    <3>1. u = t /\ res.ok
      BY <1>5, <2>2
    <3> QED BY <1>6, <3>1, LiveTypes
  <2> QED BY <2>1, <2>2
<1>9. OneEach'
  <2>1. ASSUME NEW u \in Live, res.ok, Slot(u) = Slot(t) PROVE u = t
    <3>1. CASE u \in Match[MEVLane] \/ t \in Match[MEVLane]
      BY <2>1, <3>1, LiveTypes DEF OwnBidSlots
    <3>2. CASE u \notin Match[MEVLane] /\ t \notin Match[MEVLane]
      <4>1. Nonce[u] = Nonce[t] /\ Sender[u] = Sender[t]
        BY <2>1 DEF Slot
      <4> QED BY <1>6, <1>7, <2>1, <3>2, <4>1, LiveTypes
    <3> QED BY <3>1, <3>2
  <2> QED BY <1>5, <2>1 DEF ParityInv, OneEach
<1>10. OrphansAreExecuted'
  <2>1. AppTxs' \ ToSet(comet') \subseteq AppTxs \ ToSet(comet)
    BY <1>4, <1>5
  <2> QED BY <1>2, <1>3, <2>1 DEF ParityInv, OrphansAreExecuted, Spent
<1>11. CometWithinApp'
  <2> SUFFICES ASSUME NEW u \in ToSet(comet') \ (ToSet(pending') \cup dropped')
               PROVE  LanedContains(pools', u) \/ \E x \in Executing : Slot(x) = Slot(u)
    BY <1>3 DEF CometWithinApp
  <2>1. CASE u = t
    BY <1>2, <1>4, <1>6, <2>1
  <2>2. CASE u # t
    <3>1. u \in ToSet(comet) \ (ToSet(pending) \cup dropped)
      BY <1>2, <1>3, <1>4, <2>2
    <3>2. CASE LanedContains(pools, u)
      <4>1. t \in Match[MEVLane] => Slot(u) # Slot(t)
        BY <2>2, <3>1, LiveTypes DEF OwnBidSlots, Live
      <4> QED BY <1>6, <3>2, <4>1, StillContained
    <3> QED BY <3>1, <3>2 DEF ParityInv, CometWithinApp
  <2> QED BY <2>1, <2>2
<1> QED BY <1>8, <1>9, <1>10, <1>11 DEF ParityInv

\* So does a recheck.
LEMMA ParityRecheck ==
  ASSUME AllFit, Shape, ParityInv, Recheck
  PROVE  ParityInv'
<1> DEFINE t == Head(pending)
<1>1. PICK top, res : /\ Checked(t, TRUE, top, res)
                      /\ pools' = res.pools /\ check' = res.check
                      /\ comet' = IF res.ok THEN comet ELSE Without(comet, {t})
                      /\ dropped' = dropped \ {t}
  BY RecheckStep
<1>2. pending # <<>> /\ pending' = Tail(pending) /\ UNCHANGED <<height, committed, final>>
  BY DEF Recheck
<1>3. /\ t \in Tx /\ t \in ToSet(comet)
      /\ ToSet(pending') = ToSet(pending) \ {t}
  <2>1. /\ t \in Tx /\ ToSet(pending) = {t} \cup ToSet(Tail(pending))
        /\ t \notin ToSet(Tail(pending))
    BY <1>2, HeadTailOnce DEF Shape
  <2> QED BY <1>2, <2>1 DEF Shape
<1> HIDE DEF t
<1>4. ToSet(comet') = IF res.ok THEN ToSet(comet) ELSE ToSet(comet) \ {t}
  <2>1. ToSet(Without(comet, {t})) = ToSet(comet) \ {t}
    BY WithoutOk DEF Shape
  <2> QED BY <1>1, <2>1
<1>5. Executing' = Executing
  BY <1>2 DEF Executing
<1>6. /\ AppTxs' \subseteq AppTxs \cup {t}
      /\ ~res.ok => AppTxs' \subseteq AppTxs /\ t \notin AppTxs'
      /\ Live' \subseteq Live
      /\ ~res.ok => t \notin Live'
  <2>1. PoolTxs(res.pools) \subseteq AppTxs \cup {t}
    BY <1>1, AdmitsTxs DEF Checked, Outcome, AppTxs
  <2>2. UniqueSlots(pools)
    BY LiveUnique DEF ParityInv
  <2>3. ~res.ok => PoolTxs(res.pools) \subseteq AppTxs /\ t \notin PoolTxs(res.pools)
    BY <1>1, <1>3, <2>2, FailedAdds
  <2>4. AppTxs' = PoolTxs(res.pools)
    BY <1>1 DEF AppTxs
  <2> QED BY <1>3, <1>4, <2>1, <2>3, <2>4 DEF Live
<1>7. /\ check' \in [Accounts -> Nat] /\ \A a \in Accounts : check[a] <= check'[a]
      /\ res.ok /\ t \notin Match[MEVLane] => check'[Sender[t]] = Nonce[t] + 1
      /\ res.ok => LanedContains(pools', t)
      /\ LostOnly(pools, pools', {t})
  BY <1>1 DEF Checked, Outcome
<1>8. Claimed'
  <2> SUFFICES ASSUME NEW u \in Live' \ Match[MEVLane]
               PROVE  u \in ToSet(pending') \/ Nonce[u] < check'[Sender[u]]
    BY DEF Claimed
  <2>1. CASE u = t
    BY <1>3, <1>6, <1>7, <2>1, LiveTypes
  <2>2. CASE u # t
    <3>1. u \in ToSet(pending') \/ Nonce[u] < check[Sender[u]]
      BY <1>3, <1>6, <2>2 DEF ParityInv, Claimed
    <3>2. u \in Tx
      BY <1>6, LiveTypes
    <3>3. check[Sender[u]] <= check'[Sender[u]] /\ check'[Sender[u]] \in Nat
      BY <1>7, <3>2, LiveTypes
    <3> QED BY <3>1, <3>2, <3>3, LiveTypes
  <2> QED BY <2>1, <2>2
<1>9. OneEach'
  BY <1>6 DEF ParityInv, OneEach
<1>10. OrphansAreExecuted'
  <2>1. AppTxs' \ ToSet(comet') \subseteq AppTxs \ ToSet(comet)
    BY <1>3, <1>4, <1>6
  <2> QED BY <1>2, <1>5, <2>1 DEF ParityInv, OrphansAreExecuted, Spent
<1>11. CometWithinApp'
  <2> SUFFICES ASSUME NEW u \in ToSet(comet') \ (ToSet(pending') \cup dropped')
               PROVE  LanedContains(pools', u) \/ \E x \in Executing : Slot(x) = Slot(u)
    BY <1>5 DEF CometWithinApp
  <2>1. CASE u = t
    BY <1>4, <1>7, <2>1
  <2>2. CASE u # t
    <3>1. u \in ToSet(comet) \ (ToSet(pending) \cup dropped)
      BY <1>1, <1>3, <1>4, <2>2
    <3>2. CASE LanedContains(pools, u)
      <4>1. Slot(u) # Slot(t)
        BY <1>3, <2>2, <3>1 DEF ParityInv, OneEach, Live
      <4> QED BY <1>7, <3>2, <4>1, StillContained
    <3> QED BY <3>1, <3>2 DEF ParityInv, CometWithinApp
  <2> QED BY <2>1, <2>2
<1> QED BY <1>8, <1>9, <1>10, <1>11 DEF ParityInv

\* The execution of a block.
LEMMA ParityFinalize ==
  ASSUME Shape, ParityInv, NEW k \in Blocks, FinalizeBlock(k)
  PROVE  ParityInv'
<1>1. /\ k \in Seq(Tx) /\ final' = <<k>> /\ Shrunk(pools, pools') /\ PoolsOk(pools')
      /\ LostOnly(pools, pools', ToSet(k))
  BY FinalizeStep
<1>2. final = <<>> /\ UNCHANGED <<height, committed, check, comet, pending, dropped>>
  BY DEF FinalizeBlock
<1>3. Executing = {}
  BY <1>2, LiveTypes
<1>4. Executing' = ToSet(k)
  <2>1. ToSet(k) \subseteq Tx
    BY <1>1 DEF ToSet
  <2>2. DOMAIN final' = {1} /\ final'[1] = k
    BY <1>1
  <2> QED BY <2>1, <2>2 DEF Executing
<1>5. AppTxs' \subseteq AppTxs /\ Live' \subseteq Live
  BY <1>1, <1>2, PoolsShrink DEF Shape, AppTxs, Live
<1>6. Claimed' /\ OneEach'
  BY <1>2, <1>5 DEF ParityInv, Claimed, OneEach
<1>7. OrphansAreExecuted'
  BY <1>2, <1>3, <1>5 DEF ParityInv, OrphansAreExecuted, Spent
<1>8. CometWithinApp'
  <2> SUFFICES ASSUME NEW u \in ToSet(comet) \ (ToSet(pending) \cup dropped)
               PROVE  LanedContains(pools', u) \/ \E x \in ToSet(k) : Slot(x) = Slot(u)
    BY <1>2, <1>4 DEF CometWithinApp
  <2>1. LanedContains(pools, u)
    BY <1>3 DEF ParityInv, CometWithinApp
  <2> QED BY <1>1, <2>1, StillContained
<1> QED BY <1>6, <1>7, <1>8 DEF ParityInv

\* Its commit.
LEMMA ParityCommit ==
  ASSUME Shape, ParityInv, Commit
  PROVE  ParityInv'
<1>1. /\ committed' \in [Accounts -> Nat] /\ check' = committed'
      /\ \A a \in Accounts : committed[a] <= committed'[a]
      /\ \A t \in Executing : Nonce[t] < committed'[Sender[t]]
      /\ pending' = comet' /\ ToSet(comet') = ToSet(comet) \ Executing
      /\ pools' = pools
  BY CommitStep
<1>2. AppTxs' = AppTxs /\ Live' \subseteq Live
  BY <1>1 DEF AppTxs, Live
<1>3. ASSUME NEW u \in AppTxs \ ToSet(comet')
      PROVE  Nonce[u] < committed'[Sender[u]]
  <2>1. CASE u \in Executing
    BY <1>1, <2>1
  <2>2. CASE u \notin Executing
    <3>1. Nonce[u] < committed[Sender[u]]
      BY <1>1, <2>2 DEF ParityInv, OrphansAreExecuted, Spent
    <3>2. u \in Tx
      BY LiveTypes DEF Live
    <3>3. committed[Sender[u]] <= committed'[Sender[u]] /\ committed'[Sender[u]] \in Nat
      BY <1>1, <3>2, LiveTypes
    <3> QED BY <3>1, <3>2, <3>3, LiveTypes
  <2> QED BY <2>1, <2>2
<1>4. Claimed'
  BY <1>1, <1>2, <1>3 DEF Claimed, Live
<1>5. OneEach'
  BY <1>2 DEF ParityInv, OneEach
<1>6. OrphansAreExecuted'
  BY <1>2, <1>3 DEF OrphansAreExecuted, Spent
<1>7. CometWithinApp'
  BY <1>1 DEF CometWithinApp
<1> QED BY <1>4, <1>5, <1>6, <1>7 DEF ParityInv

\* A proposal.
LEMMA ParityPrepareProposal ==
  ASSUME Shape, ParityInv, PrepareProposal
  PROVE  ParityInv'
<1>1. PoolsOk(pools') /\ Shrunk(pools, pools') /\ PoolsOk(pools)
  BY PrepareProposalStep DEF Shape
<1>2. /\ final = <<>> /\ UNCHANGED <<height, committed, check, comet, pending, final>>
      /\ dropped' = (dropped \cup (AppTxs \ AppTxs')) \cap ToSet(comet)
  BY DEF PrepareProposal, AppTxs
<1>3. Executing = {} /\ Executing' = {}
  BY <1>2, LiveTypes DEF Executing
<1>4. AppTxs' \subseteq AppTxs /\ Live' \subseteq Live
  BY <1>1, <1>2, PoolsShrink DEF AppTxs, Live
<1>5. Claimed' /\ OneEach'
  BY <1>2, <1>4 DEF ParityInv, Claimed, OneEach
<1>6. OrphansAreExecuted'
  BY <1>2, <1>3, <1>4 DEF ParityInv, OrphansAreExecuted, Spent
<1>7. CometWithinApp'
  <2> SUFFICES ASSUME NEW u \in ToSet(comet) \ (ToSet(pending) \cup dropped')
               PROVE  LanedContains(pools', u)
    BY <1>2 DEF CometWithinApp
  <2>1. u \notin dropped /\ u \notin AppTxs \ AppTxs'
    BY <1>2
  <2>2. LanedContains(pools, u)
    BY <1>3, <2>1 DEF ParityInv, CometWithinApp
  <2>3. PICK v \in AppTxs : Slot(v) = Slot(u)
    BY <1>1, <2>2, PoolTxsOk DEF AppTxs
  <2>4. v = u
    BY <2>3 DEF ParityInv, OneEach, Live
  <2> QED BY <1>1, <2>1, <2>4, PoolTxsOk DEF AppTxs
<1> QED BY <1>5, <1>6, <1>7 DEF ParityInv

\* The mempools stay in step.
LEMMA ParityAlways ==
  ASSUME OwnBidSlots, AllFit
  PROVE  Spec => [](Shape /\ ParityInv)
<1>1. Init => ParityInv
  <2>1. \A e : e = <<>> => ToSet(e) = {}
    BY DEF ToSet
  <2>2. Init => AppTxs = {}
    BY DEF Init, AppTxs, PoolTxs, EmptyPools, Range
  <2> QED BY <2>1, <2>2 DEF Init, ParityInv, Claimed, OneEach, OrphansAreExecuted, Spent, CometWithinApp, Live
<1>2. Shape /\ ParityInv /\ [Next]_vars => ParityInv'
  <2> SUFFICES ASSUME Shape, ParityInv, [Next]_vars PROVE ParityInv'
    OBVIOUS
  <2>1. ASSUME UNCHANGED vars PROVE ParityInv'
    <3>1. AppTxs' = AppTxs /\ Live' = Live /\ Executing' = Executing
      BY <2>1 DEF vars, AppTxs, Live, Executing
    <3> QED BY <2>1, <3>1 DEF ParityInv, Claimed, OneEach, OrphansAreExecuted, Spent, CometWithinApp, vars
  <2> QED BY <2>1, ParityCheckNew, ParityRecheck, ParityFinalize, ParityCommit,
             ParityPrepareProposal DEF Next
<1> QED BY <1>1, <1>2, ShapeInit, ShapeNext, PTL DEF Spec

\* What the application alone holds has been executed: MempoolParityCheckTx admits a
\* transaction to both mempools or to none, and only a block that overtakes it can leave
\* it in one.
THEOREM OrphansAccountedForThm ==
  ASSUME OwnBidSlots, AllFit
  PROVE  Spec => [](OrphansAreExecuted /\ OrphansAccountedFor)
<1>1. Shape /\ ParityInv => OrphansAreExecuted /\ OrphansAccountedFor
  BY DEF ParityInv, OrphansAreExecuted, OrphansAccountedFor
<1> QED BY <1>1, ParityAlways, PTL

\* What the consensus engine holds the application holds, but for what is to be
\* rechecked, what a proposal removed and what a block under way has overtaken.
THEOREM CometWithinAppThm ==
  ASSUME OwnBidSlots, AllFit
  PROVE  Spec => []CometWithinApp
<1>1. Shape /\ ParityInv => CometWithinApp
  BY DEF ParityInv
<1> QED BY <1>1, ParityAlways, PTL

\* The application holds nothing of a block it has executed: the lane Remove looks in
\* first is the one that has the transaction.
THEOREM ExecutedLeaveThm ==
  ASSUME OwnBidSlots, AllFit
  PROVE  Spec => ExecutedLeave
<1> DEFINE Leave == (\E k \in Blocks : FinalizeBlock(k)) => PoolTxs(pools') \cap ToSet(final'[1]) = {}
<1>1. Shape /\ ParityInv /\ [Next]_vars => [Leave]_vars
  <2> SUFFICES ASSUME Shape, ParityInv, NEW k \in Blocks, FinalizeBlock(k)
               PROVE  PoolTxs(pools') \cap ToSet(final'[1]) = {}
    OBVIOUS
  <2>1. UniqueSlots(pools)
    BY LiveUnique DEF ParityInv
  <2>2. /\ final' = <<k>> /\ PoolsOk(pools')
        /\ \A t \in ToSet(k) \ Malformed : \A l \in ToSet(Lanes) : Slot(t) \notin DOMAIN pools'[l]
    BY <2>1, FinalizeStep
  <2>3. final'[1] = k
    BY <2>2
  <2>4. \A t \in PoolTxs(pools') : t \notin Malformed /\ LanedContains(pools', t)
    BY <2>2, PoolTxsOk DEF Poolable
  <2> QED BY <2>2, <2>3, <2>4 DEF LanedContains, LaneContains
<1>2. Spec => [][Leave]_vars
  BY <1>1, ParityAlways, PTL DEF Spec
<1> QED BY <1>2 DEF ExecutedLeave

\* CheckTx of one transaction never takes another away.  The run same_slot_bids shows
\* that it does where a bidder's bids share a sequence number; this is all there is to it.
THEOREM NoBystanderThm ==
  ASSUME OwnBidSlots, AllFit
  PROVE  Spec => NoBystander
<1> DEFINE Spared(u) == u \notin ToSet(comet') \/ \E v \in PoolTxs(pools') : Slot(u) = Slot(v)
           Spares == (Recheck \/ \E t \in Tx : CheckNew(t)) =>
                       \A u \in AppTxs \ PoolTxs(pools') : Spared(u)
<1>1. ASSUME Shape, ParityInv, NEW t \in Tx, CheckNew(t), NEW u \in AppTxs \ PoolTxs(pools')
      PROVE  Spared(u)
  <2>1. PICK top, res : /\ Checked(t, FALSE, top, res)
                        /\ pools' = res.pools /\ check' = res.check
                        /\ comet' = IF res.ok THEN Append(comet, t) ELSE comet
    BY <1>1, CheckNewStep
  <2>2. /\ PoolsOk(pools') /\ LostOnly(pools, pools', {t})
        /\ res.ok \/ t \notin Match[MEVLane] => LostOnly(pools, pools', {})
    BY <2>1 DEF Checked, Outcome
  <2>3. u \in Tx
    BY <1>1, LiveTypes DEF Live
  <2>4. CASE LostOnly(pools, pools', {})
    <3>1. LanedContains(pools, u)
      BY <1>1, PoolTxsOk DEF Shape, AppTxs
    <3>2. LanedContains(pools', u)
      BY <2>4, <3>1, StillContained
    <3> QED BY <2>2, <3>2, PoolTxsOk
  <2>5. CASE t \in Match[MEVLane] /\ ~res.ok
    <3>1. CASE u = t
      BY <1>1, <2>1, <2>5, <3>1 DEF CheckNew
    <3>2. CASE u # t
      <4>1. Slot(u) # Slot(t)
        BY <2>3, <2>5, <3>2 DEF OwnBidSlots
      <4>2. LanedContains(pools, u)
        BY <1>1, PoolTxsOk DEF Shape, AppTxs
      <4>3. LanedContains(pools', u)
        BY <2>2, <4>1, <4>2, StillContained
      <4> QED BY <2>2, <4>3, PoolTxsOk
    <3> QED BY <3>1, <3>2
  <2> QED BY <2>2, <2>4, <2>5
<1>2. ASSUME Shape, ParityInv, Recheck, NEW u \in AppTxs \ PoolTxs(pools')
      PROVE  Spared(u)
  <2> DEFINE t == Head(pending)
  <2>1. PICK top, res : /\ Checked(t, TRUE, top, res)
                        /\ pools' = res.pools /\ check' = res.check
                        /\ comet' = IF res.ok THEN comet ELSE Without(comet, {t})
                        /\ dropped' = dropped \ {t}
    BY <1>2, RecheckStep
  <2>2. /\ PoolsOk(pools') /\ LostOnly(pools, pools', {t})
        /\ res.ok => LostOnly(pools, pools', {})
    BY <2>1 DEF Checked, Outcome
  <2>3. t \in ToSet(comet)
    BY <1>2, HeadTailOnce DEF Shape, Recheck
  <2> HIDE DEF t
  <2>4. LanedContains(pools, u)
    BY <1>2, PoolTxsOk DEF Shape, AppTxs
  <2>5. CASE res.ok
    <3>1. LanedContains(pools', u)
      BY <2>2, <2>4, <2>5, StillContained
    <3> QED BY <2>2, <3>1, PoolTxsOk
  <2>6. CASE ~res.ok /\ u # t
    <3>1. Slot(u) # Slot(t)
      BY <1>2, <2>3, <2>6 DEF ParityInv, OneEach, Live
    <3>2. LanedContains(pools', u)
      BY <2>2, <2>4, <3>1, StillContained
    <3> QED BY <2>2, <3>2, PoolTxsOk
  <2>7. CASE ~res.ok /\ u = t
    <3>1. ToSet(Without(comet, {t})) = ToSet(comet) \ {t}
      BY <1>2, WithoutOk DEF Shape
    <3> QED BY <2>1, <2>7, <3>1
  <2> QED BY <2>5, <2>6, <2>7
<1>3. Shape /\ ParityInv /\ [Next]_vars => [Spares]_vars
  BY <1>1, <1>2
<1>4. Spec => [][Spares]_vars
  BY <1>3, ParityAlways, PTL DEF Spec
<1> QED BY <1>4 DEF NoBystander
=============================================================================
