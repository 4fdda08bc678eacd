--------------------- MODULE PriorityNonceMempoolProofs ---------------------
(***************************************************************************)
(* The four indices of a lane's mempool agree, count and stay within the   *)
(* capacity for every set of senders, nonces, transactions and priorities, *)
(* and they implement the bounded table of LaneMempool.                    *)
(***************************************************************************)
EXTENDS PriorityNonceIterator, FiniteSetTheorems, SequenceTheorems, TLAPS

\* FoldTheorems is used for its induction on the naturals alone.
NoStep(p, a, e) == a

Induction == INSTANCE FoldTheorems WITH Step <- NoStep

\* The inductive invariant.  The agreement of the indices makes the counts and
\* the capacity inductive: Insert tests the length of priorityIndex and Remove
\* follows scores, while the bound and the counts are about the slots.
IInv == TypeOK /\ IndicesAgree /\ CountsAgree /\ WithinCapacity

\* The slots scored with a priority.
Scored(p) == {s \in DOMAIN scores : scores[s].priority = p}

\* Every non-empty finite set of slots has one of greatest nonce.
LEMMA LastSlot ==
  ASSUME NEW L \in SUBSET Slots, IsFiniteSet(L), L # {}
  PROVE  \E r \in L : \A q \in L : q[2] <= r[2]
<1> DEFINE HasLast(U) == \E r \in U : \A q \in U : q[2] <= r[2]
           Bad == {U \in FiniteSubsetsOf(Slots) : U # {} /\ ~HasLast(U)}
<1>1. ASSUME Bad # {} PROVE FALSE
  <2>1. PICK U \in Bad : \A V \in Bad : ~(<<V, U>> \in StrictSubsetOrdering(Slots))
    <3>1. IsWellFoundedOn(StrictSubsetOrdering(Slots), FiniteSubsetsOf(Slots))
      BY FS_StrictSubsetOrderingWellFounded
    <3>2. Bad \subseteq FiniteSubsetsOf(Slots)
      OBVIOUS
    <3> HIDE DEF Bad
    <3> QED
      BY <1>1, <3>1, <3>2, WFMin
  <2>2. U \subseteq Slots /\ IsFiniteSet(U) /\ U # {} /\ ~HasLast(U)
    BY DEF FiniteSubsetsOf
  <2>3. PICK x \in U : TRUE
    BY <2>2
  <2> DEFINE V == U \ {x}
  <2>4. \A q \in U : q[2] \in Nat
    BY <2>2, MempoolAssumptions DEF Slots
  <2>5. V # {}
    BY <2>2, <2>4
  <2>6. V \in FiniteSubsetsOf(Slots)
    BY <2>2, FS_RemoveElement DEF FiniteSubsetsOf
  <2>7. <<V, U>> \in StrictSubsetOrdering(Slots)
    BY <2>2, <2>3 DEF StrictSubsetOrdering
  <2>8. V \notin Bad
    BY <2>1, <2>7
  <2>9. PICK r \in V : \A q \in V : q[2] <= r[2]
    BY <2>5, <2>6, <2>8
  <2>10. HasLast(U)
    <3>1. CASE x[2] <= r[2]
      BY <2>9, <3>1
    <3>2. CASE ~(x[2] <= r[2])
      <4>1. \A q \in U : q[2] <= x[2]
        BY <2>3, <2>4, <2>9, <3>2
      <4> QED
        BY <4>1
    <3> QED
      BY <3>1, <3>2
  <2> QED
    BY <2>2, <2>10
<1>2. L \in FiniteSubsetsOf(Slots)
  BY DEF FiniteSubsetsOf
<1> QED
  BY <1>1, <1>2

\* The weight of a listed slot is the priority of some element of its list.
LEMMA SenderWeightType ==
  ASSUME IInv, NEW s \in DOMAIN senderIndex
  PROVE  SenderWeight(s) \in Priorities
<1> DEFINE list == {r \in DOMAIN senderIndex : r[1] = s[1]}
<1>1. list \in SUBSET Slots /\ list # {}
  BY DEF IInv, TypeOK
<1>2. IsFiniteSet(list)
  BY FS_Subset DEF IInv, IndicesAgree
<1>3. \E r \in list : \A q \in list : q[2] <= r[2]
  <2> HIDE DEF list
  <2> QED
    BY <1>1, <1>2, LastSlot
<1>4. (CHOOSE r \in list : \A q \in list : q[2] <= r[2]) \in DOMAIN senderIndex
  BY <1>3
<1> QED
  BY <1>4 DEF SenderWeight, IInv, TypeOK

\* The priority index has as many elements as there are scored slots.
LEMMA IndexCount ==
  ASSUME IInv
  PROVE  /\ IsFiniteSet(DOMAIN scores)
         /\ Cardinality(DOMAIN scores) \in Nat
         /\ CountTx = Cardinality(DOMAIN scores)
<1> DEFINE D == DOMAIN scores
           f == [s \in D |-> Entry(s)]
<1>1. IsFiniteSet(D) /\ priorityIndex = {Entry(s) : s \in D}
  BY DEF IInv, IndicesAgree
<1>2. f \in [D -> priorityIndex]
  BY <1>1
<1>3. \A a, b \in D : f[a] = f[b] => a = b
  BY DEF Entry
<1>4. \A e \in priorityIndex : \E s \in D : f[s] = e
  BY <1>1
<1>5. f \in Bijection(D, priorityIndex)
  <2> HIDE DEF f, D
  <2> QED
    BY <1>2, <1>3, <1>4 DEF Bijection, Injection, Surjection, IsInjective
<1>6. Cardinality(priorityIndex) = Cardinality(D)
  BY <1>1, <1>5, FS_Bijection DEF ExistsBijection
<1> QED
  BY <1>1, <1>6, FS_CardinalityType DEF CountTx

\* The counts are cardinalities, of the scored slots of a priority.
LEMMA ScoredFinite ==
  ASSUME IInv, NEW p \in Priorities
  PROVE  /\ IsFiniteSet(Scored(p))
         /\ priorityCounts[p] = Cardinality(Scored(p))
         /\ priorityCounts[p] \in Nat
<1>1. Scored(p) \in SUBSET DOMAIN scores /\ IsFiniteSet(DOMAIN scores)
  BY DEF Scored, IInv, IndicesAgree
<1>2. IsFiniteSet(Scored(p))
  BY <1>1, FS_Subset
<1>3. priorityCounts[p] = Cardinality(Scored(p))
  BY DEF IInv, CountsAgree, Scored
<1> QED
  BY <1>2, <1>3, FS_CardinalityType

\* A new mempool satisfies the invariant.
LEMMA InitInv == Init => IInv
<1> SUFFICES ASSUME Init PROVE IInv
  OBVIOUS
<1>1. TypeOK
  BY MempoolAssumptions DEF Init, TypeOK, Scores
<1>2. IndicesAgree
  BY FS_EmptySet DEF Init, IndicesAgree
<1>3. CountsAgree
  BY FS_EmptySet DEF Init, CountsAgree
<1>4. WithinCapacity
  BY FS_EmptySet, MempoolAssumptions DEF Init, WithinCapacity
<1> QED
  BY <1>1, <1>2, <1>3, <1>4 DEF IInv

\* Storing a transaction in a slot preserves the invariant, whether the slot was
\* empty or its transaction is replaced.
LEMMA InsertInv ==
  ASSUME IInv, NEW tx \in Txs, NEW p \in Priorities, Insert(tx, p)
  PROVE  IInv'
<1> DEFINE s == tx.slot
           D == DOMAIN scores
           score == [priority |-> p, weight |-> 0]
<1>1. /\ s \in Slots
      /\ D \subseteq Slots
      /\ DOMAIN senderIndex = D
      /\ s[1] \in Senders
      /\ score \in Scores
  BY MempoolAssumptions DEF IInv, TypeOK, IndicesAgree, Txs, Slots, Scores
<1>2. /\ DOMAIN scores' = D \cup {s}
      /\ scores'[s] = score
      /\ \A r \in D \ {s} : scores'[r] = scores[r]
      /\ scores' = [r \in D \cup {s} |-> IF r = s THEN score ELSE scores[r]]
  BY DEF Insert, Put
<1>3. PICK key \in Priorities :
        senderIndex' = [r \in D \cup {s} |->
           IF r = s THEN [priority |-> key, tx |-> tx] ELSE senderIndex[r]]
  <2>1. \E k : k \in Priorities /\ senderIndex' = Put(senderIndex, s, [priority |-> k, tx |-> tx])
    BY <1>1 DEF Insert, SetSender, IInv, TypeOK
  <2> QED
    BY <1>1, <2>1 DEF Put
<1>4. /\ senderIndex'[s].tx = tx
      /\ \A r \in D \ {s} : senderIndex'[r] = senderIndex[r]
      /\ DOMAIN senderIndex' = D \cup {s}
  BY <1>3
<1>5. WithoutOld(s) = {Entry(r) : r \in D \ {s}}
  <2>1. priorityIndex = {Entry(r) : r \in D}
    BY DEF IInv, IndicesAgree
  <2>2. CASE s \in D
    BY <2>1, <2>2 DEF WithoutOld, RemoveKey, Entry
  <2>3. CASE s \notin D
    BY <2>1, <2>3 DEF WithoutOld
  <2> QED
    BY <2>2, <2>3
<1>6. priorityIndex' = {Entry(r) : r \in D \ {s}} \cup
         {[priority |-> p, weight |-> 0, slot |-> s, tx |-> tx]}
  <2>1. RemoveKey({Entry(r) : r \in D \ {s}}, score, s) = {Entry(r) : r \in D \ {s}}
    BY DEF RemoveKey, Entry
  <2> QED
    BY <1>5, <2>1 DEF Insert, SetKey
<1>7. /\ \A r \in D \ {s} : Entry(r)' = Entry(r)
      /\ Entry(s)' = [priority |-> p, weight |-> 0, slot |-> s, tx |-> tx]
  BY <1>2, <1>4 DEF Entry
<1>8. IndicesAgree'
  <2>1. IsFiniteSet(D \cup {s})
    BY FS_AddElement DEF IInv, IndicesAgree
  <2>2. senderLists' = senderLists \cup {s[1]}
    BY DEF Insert
  <2>3. \A r \in D \cup {s} : r[1] \in senderLists' /\ senderIndex'[r].tx.slot = r
    BY <1>4, <2>2 DEF IInv, IndicesAgree
  <2>4. priorityIndex' = {Entry(r)' : r \in D \cup {s}}
    BY <1>6, <1>7
  <2> QED
    BY <1>2, <1>4, <2>1, <2>3, <2>4 DEF IndicesAgree
<1>9. \A q \in Priorities : priorityCounts'[q] = Cardinality(Scored(q)')
  <2> SUFFICES ASSUME NEW q \in Priorities
               PROVE  priorityCounts'[q] = Cardinality(Scored(q)')
    OBVIOUS
  <2>1. /\ IsFiniteSet(Scored(q))
        /\ priorityCounts[q] = Cardinality(Scored(q))
        /\ priorityCounts[q] \in Nat
    BY ScoredFinite
  <2>2. priorityCounts'[q] = priorityCounts[q] - (IF s \in Scored(q) THEN 1 ELSE 0)
                                               + (IF q = p THEN 1 ELSE 0)
    BY DEF Insert, Recounted, Scored
  <2>3. CASE q = p
    <3>1. Scored(q)' = Scored(q) \cup {s}
      BY <1>2, <2>3 DEF Scored
    <3>2. Cardinality(Scored(q) \cup {s}) =
            IF s \in Scored(q) THEN Cardinality(Scored(q)) ELSE Cardinality(Scored(q)) + 1
      BY <2>1, FS_AddElement
    <3> QED
      BY <2>1, <2>2, <2>3, <3>1, <3>2
  <2>4. CASE q # p
    <3>1. Scored(q)' = Scored(q) \ {s}
      BY <1>2, <2>4 DEF Scored
    <3>2. Cardinality(Scored(q) \ {s}) =
            IF s \in Scored(q) THEN Cardinality(Scored(q)) - 1 ELSE Cardinality(Scored(q))
      BY <2>1, FS_RemoveElement
    <3> QED
      BY <2>1, <2>2, <2>4, <3>1, <3>2
  <2> QED
    BY <2>3, <2>4
<1>10. CountsAgree'
  BY <1>9 DEF CountsAgree, Scored
<1>11. WithinCapacity'
  <2> SUFFICES ASSUME MaxTx > 0 PROVE Cardinality(DOMAIN scores') <= MaxTx
    BY DEF WithinCapacity
  <2>1. Cardinality(D) \in Nat /\ IsFiniteSet(D) /\ Cardinality(D) < MaxTx
    BY IndexCount, MempoolAssumptions DEF Insert, Full
  <2>2. Cardinality(D \cup {s}) = IF s \in D THEN Cardinality(D) ELSE Cardinality(D) + 1
    BY <2>1, FS_AddElement
  <2>3. DOMAIN scores' = D \cup {s}
    BY <1>2
  <2> HIDE DEF D, s
  <2> QED
    BY <2>1, <2>2, <2>3, MempoolAssumptions
<1>12. TypeOK'
  <2>1. priorityIndex' \subseteq
          [priority : Priorities, weight : Priorities, slot : Slots, tx : Txs]
    BY <1>1, <1>6, MempoolAssumptions DEF Entry, IInv, TypeOK, Scores
  <2>2. priorityCounts' \in [Priorities -> Nat]
    <3>1. \A q \in Priorities : priorityCounts'[q] \in Nat
      <4> SUFFICES ASSUME NEW q \in Priorities PROVE priorityCounts'[q] \in Nat
        OBVIOUS
      <4>1. Scored(q)' \in SUBSET DOMAIN scores'
        BY DEF Scored
      <4>2. IsFiniteSet(DOMAIN scores')
        BY <1>8 DEF IndicesAgree
      <4>3. IsFiniteSet(Scored(q)')
        BY <4>1, <4>2, FS_Subset
      <4> QED
        BY <1>9, <4>3, FS_CardinalityType
    <3>2. priorityCounts' = [q \in Priorities |-> priorityCounts'[q]]
      BY DEF Insert, Recounted
    <3> QED
      BY <3>1, <3>2
  <2>3. senderLists' \subseteq Senders
    BY <1>1 DEF Insert, IInv, TypeOK
  <2>4. senderIndex' \in [D \cup {s} -> [priority : Priorities, tx : Txs]]
    BY <1>1, <1>3 DEF IInv, TypeOK
  <2>5. scores' \in [D \cup {s} -> Scores]
    BY <1>1, <1>2 DEF IInv, TypeOK
  <2> QED
    BY <1>1, <1>2, <1>4, <2>1, <2>2, <2>3, <2>4, <2>5 DEF TypeOK
<1> QED
  BY <1>8, <1>10, <1>11, <1>12 DEF IInv

\* Removing a slot's transaction preserves the invariant.
LEMMA RemoveInv ==
  ASSUME IInv, NEW tx \in Txs, Remove(tx)
  PROVE  IInv'
<1> DEFINE s == tx.slot
           D == DOMAIN scores
           old == scores[s].priority
<1>1. /\ s \in D
      /\ D \subseteq Slots
      /\ DOMAIN senderIndex = D
      /\ old \in Priorities
      /\ IsFiniteSet(D)
  BY DEF Remove, IInv, TypeOK, IndicesAgree, Scores
<1>2. /\ scores' = [r \in D \ {s} |-> scores[r]]
      /\ senderIndex' = [r \in D \ {s} |-> senderIndex[r]]
  BY <1>1 DEF Remove, Delete, Restrict
<1>3. priorityIndex' = {Entry(r) : r \in D \ {s}}
  <2>1. priorityIndex = {Entry(r) : r \in D}
    BY DEF IInv, IndicesAgree
  <2> QED
    BY <1>1, <2>1 DEF Remove, RemoveKey, Entry
<1>4. IndicesAgree'
  <2>1. IsFiniteSet(D \ {s})
    BY <1>1, FS_RemoveElement
  <2>2. \A r \in D \ {s} : r[1] \in senderLists' /\ senderIndex'[r].tx.slot = r
    BY <1>2 DEF Remove, IInv, IndicesAgree
  <2>3. \A r \in D \ {s} : Entry(r)' = Entry(r)
    BY <1>2 DEF Entry
  <2>4. priorityIndex' = {Entry(r)' : r \in D \ {s}}
    BY <1>3, <2>3
  <2> QED
    BY <1>2, <2>1, <2>2, <2>4 DEF IndicesAgree
<1>5. \A q \in Priorities : /\ priorityCounts'[q] = Cardinality(Scored(q)')
                            /\ priorityCounts'[q] \in Nat
  <2> SUFFICES ASSUME NEW q \in Priorities
               PROVE  /\ priorityCounts'[q] = Cardinality(Scored(q)')
                      /\ priorityCounts'[q] \in Nat
    OBVIOUS
  <2>1. /\ IsFiniteSet(Scored(q))
        /\ priorityCounts[q] = Cardinality(Scored(q))
        /\ priorityCounts[q] \in Nat
    BY ScoredFinite
  <2>2. priorityCounts'[q] = priorityCounts[q] - (IF s \in Scored(q) THEN 1 ELSE 0)
    BY <1>1, <2>1 DEF Remove, Scored, IInv, TypeOK
  <2>3. Scored(q)' = Scored(q) \ {s}
    BY <1>2 DEF Scored
  <2>4. Cardinality(Scored(q) \ {s}) =
          IF s \in Scored(q) THEN Cardinality(Scored(q)) - 1 ELSE Cardinality(Scored(q))
    BY <2>1, FS_RemoveElement
  <2>5. IsFiniteSet(Scored(q) \ {s}) /\ Cardinality(Scored(q) \ {s}) \in Nat
    BY <2>1, FS_RemoveElement, FS_CardinalityType
  <2> QED
    BY <2>1, <2>2, <2>3, <2>4, <2>5
<1>6. CountsAgree'
  BY <1>5 DEF CountsAgree, Scored
<1>7. WithinCapacity'
  <2>1. Cardinality(D \ {s}) = Cardinality(D) - 1 /\ Cardinality(D) \in Nat
    BY <1>1, FS_RemoveElement, FS_CardinalityType
  <2>2. DOMAIN scores' = D \ {s}
    BY <1>2
  <2>3. MaxTx > 0 => Cardinality(D) <= MaxTx
    BY DEF IInv, WithinCapacity
  <2> HIDE DEF D, s
  <2> QED
    BY <2>1, <2>2, <2>3, MempoolAssumptions DEF WithinCapacity
<1>8. TypeOK'
  <2>1. priorityIndex' \subseteq priorityIndex
    BY DEF Remove, RemoveKey
  <2>2. priorityCounts' = [q \in Priorities |-> priorityCounts'[q]]
    BY DEF Remove, IInv, TypeOK
  <2>3. priorityCounts' \in [Priorities -> Nat]
    BY <1>5, <2>2
  <2> QED
    BY <1>1, <1>2, <2>1, <2>3 DEF Remove, IInv, TypeOK
<1> QED
  BY <1>4, <1>6, <1>7, <1>8 DEF IInv

\* What Select's reordering leaves of a slot's score: the priority always, the
\* weight unless the priority is tied.
LEMMA ReorderedScoresAre ==
  ASSUME IInv
  PROVE  /\ DOMAIN ReorderedScores = DOMAIN scores
         /\ \A s \in DOMAIN scores :
              ReorderedScores[s] =
                IF priorityCounts[scores[s].priority] > 1
                THEN [priority |-> scores[s].priority, weight |-> SenderWeight(s)]
                ELSE scores[s]
<1>1. DOMAIN ReorderedScores = DOMAIN scores
  BY DEF ReorderedScores
<1>2. ASSUME NEW s \in DOMAIN scores
      PROVE  ReorderedScores[s] =
                IF priorityCounts[scores[s].priority] > 1
                THEN [priority |-> scores[s].priority, weight |-> SenderWeight(s)]
                ELSE scores[s]
  <2>1. Entry(s) \in priorityIndex /\ Entry(s).slot = s
        /\ Entry(s).priority = scores[s].priority
    BY DEF IInv, IndicesAgree, Entry
  <2>2. \A e \in priorityIndex : e.slot = s => e = Entry(s)
    BY DEF IInv, IndicesAgree, Entry
  <2>3. CASE priorityCounts[scores[s].priority] > 1
    <3>1. Tied(Entry(s))
      BY <2>1, <2>3 DEF Tied
    <3>2. (CHOOSE x \in priorityIndex : x.slot = s /\ Tied(x)) = Entry(s)
      BY <2>1, <2>2, <3>1
    <3> QED
      BY <2>1, <2>3, <3>1, <3>2 DEF ReorderedScores
  <2>4. CASE ~(priorityCounts[scores[s].priority] > 1)
    <3>1. ~\E e \in priorityIndex : e.slot = s /\ Tied(e)
      BY <2>1, <2>2, <2>4 DEF Tied
    <3> QED
      BY <2>4, <3>1 DEF ReorderedScores
  <2> QED
    BY <2>3, <2>4
<1> QED
  BY <1>1, <1>2

\* Reordering the ties preserves the invariant: each key and its score move together.
LEMMA SelectInv ==
  ASSUME IInv, Select
  PROVE  IInv'
<1> DEFINE D == DOMAIN scores
<1>1. /\ D \subseteq Slots
      /\ DOMAIN senderIndex = D
      /\ priorityIndex = {Entry(s) : s \in D}
      /\ \A s \in D : scores[s] \in Scores
  BY DEF IInv, TypeOK, IndicesAgree
<1>2. /\ DOMAIN scores' = D
      /\ \A s \in D : scores'[s] =
           IF priorityCounts[scores[s].priority] > 1
           THEN [priority |-> scores[s].priority, weight |-> SenderWeight(s)]
           ELSE scores[s]
  BY ReorderedScoresAre DEF Select
<1>3. \A s \in D : scores'[s].priority = scores[s].priority
  BY <1>2
<1>4. \A s \in D : Entry(s)' = Reweighed(Entry(s))
  BY <1>2 DEF Entry, Reweighed, Tied, Select
<1>5. priorityIndex' = {Entry(s)' : s \in D}
  BY <1>1, <1>4 DEF Select, ReorderedIndex
<1>6. \A s \in D : scores'[s] \in Scores
  <2>1. \A s \in D : SenderWeight(s) \in Priorities
    BY <1>1, SenderWeightType
  <2> QED
    BY <1>1, <1>2, <2>1 DEF Scores
<1>7. TypeOK'
  <2>1. \A s \in D : senderIndex[s].tx \in Txs
    BY <1>1 DEF IInv, TypeOK
  <2>2. priorityIndex' \subseteq
          [priority : Priorities, weight : Priorities, slot : Slots, tx : Txs]
    BY <1>1, <1>5, <1>6, <2>1 DEF Entry, Scores, Select
  <2>3. scores' = [s \in D |-> scores'[s]]
    BY DEF Select, ReorderedScores
  <2>4. scores' \in [D -> Scores]
    BY <1>6, <2>3
  <2> QED
    BY <1>1, <1>2, <2>2, <2>4 DEF IInv, TypeOK, Select
<1>8. IndicesAgree'
  BY <1>1, <1>2, <1>5 DEF IInv, IndicesAgree, Select
<1>9. CountsAgree'
  <2>1. \A q \in Priorities : Scored(q)' = Scored(q)
    BY <1>2, <1>3 DEF Scored
  <2> QED
    BY <2>1 DEF IInv, CountsAgree, Scored, Select
<1>10. WithinCapacity'
  BY <1>2 DEF IInv, WithinCapacity
<1> QED
  BY <1>7, <1>8, <1>9, <1>10 DEF IInv

\* Every step of the mempool preserves the invariant.
LEMMA NextInv == IInv /\ [Next]_vars => IInv'
<1> SUFFICES ASSUME IInv, [Next]_vars PROVE IInv'
  OBVIOUS
<1>1. CASE UNCHANGED vars
  BY <1>1 DEF vars, IInv, TypeOK, IndicesAgree, Entry, CountsAgree, WithinCapacity
<1>2. ASSUME NEW tx \in Txs \cup Unsigned, InsertReturnsEarly(tx) \/ RemoveReturnsEarly(tx)
      PROVE  IInv'
  BY <1>1, <1>2 DEF InsertReturnsEarly, RemoveReturnsEarly
<1> QED
  BY <1>1, <1>2, InsertInv, RemoveInv, SelectInv DEF Next

\* The four indices of a lane's mempool describe the same transactions after every
\* sequence of Insert, Remove and Select (block/base/priority_nonce.go): what Remove
\* and a replacing Insert look up in scores is what priorityIndex holds.
THEOREM IndicesAgreeThm == Spec => [](TypeOK /\ IndicesAgree)
<1> QED
  BY InitInv, NextInv, PTL DEF Spec, IInv

\* priorityCounts, which Insert and Remove adjust by one at a time, never drifts
\* from the number of transactions of each priority.
THEOREM CountsAgreeThm == Spec => []CountsAgree
<1> QED
  BY InitInv, NextInv, PTL DEF Spec, IInv

\* A mempool with a positive MaxTx never holds more than MaxTx transactions,
\* although Insert tests the length of the priority index before a replacement.
THEOREM WithinCapacityThm == Spec => []WithinCapacity
<1> QED
  BY InitInv, NextInv, PTL DEF Spec, IInv

-----------------------------------------------------------------------------
(* Refinement *)

\* The table the indices stand for.
Pool == [s \in DOMAIN scores |->
           [tx |-> senderIndex[s].tx, priority |-> scores[s].priority]]

\* A step of the indices is a step of the table, or leaves the table alone.
LEMMA TableStep ==
  ASSUME IInv, [Next]_vars
  PROVE  [Table!Next]_Pool
<1> DEFINE D == DOMAIN scores
<1>1. CASE UNCHANGED vars
  BY <1>1 DEF vars, Pool
<1>2. ASSUME NEW tx \in Txs \cup Unsigned, InsertReturnsEarly(tx) \/ RemoveReturnsEarly(tx)
      PROVE  Pool' = Pool
  BY <1>2 DEF InsertReturnsEarly, RemoveReturnsEarly, vars, Pool
<1>3. ASSUME NEW tx \in Txs, NEW p \in Priorities, Insert(tx, p)
      PROVE  Table!Insert(tx, p)
  <2> DEFINE s == tx.slot
  <2>1. DOMAIN senderIndex = D /\ DOMAIN Pool = D
    BY DEF IInv, IndicesAgree, Pool
  <2>2. MaxTx > 0 => Cardinality(D) < MaxTx
    BY <1>3, IndexCount, MempoolAssumptions DEF Insert, Full
  <2>3. /\ DOMAIN scores' = D \cup {s}
        /\ scores'[s].priority = p
        /\ \A r \in D \ {s} : scores'[r] = scores[r]
    BY <1>3 DEF Insert, Put
  <2>4. /\ senderIndex'[s].tx = tx
        /\ \A r \in D \ {s} : senderIndex'[r] = senderIndex[r]
    BY <1>3, <2>1 DEF Insert, SetSender, Put
  <2>5. Pool' = [r \in D \cup {s} |->
                   IF r = s THEN [tx |-> tx, priority |-> p] ELSE Pool[r]]
    BY <2>3, <2>4 DEF Pool
  <2>6. MaxTx >= 0
    BY <1>3 DEF Insert
  <2>7. MaxTx > 0 => Cardinality(DOMAIN Pool) < MaxTx
    BY <2>1, <2>2
  <2>8. Pool' = [r \in DOMAIN Pool \cup {s} |->
                   IF r = s THEN [tx |-> tx, priority |-> p] ELSE Pool[r]]
    BY <2>1, <2>5
  <2>9. Table!Cardinality(DOMAIN Pool) = Cardinality(DOMAIN Pool)
    BY DEF Table!Cardinality, Table!IsFiniteSet, Cardinality, IsFiniteSet
  <2> QED
    BY <2>6, <2>7, <2>8, <2>9 DEF Table!Insert, Pool
<1>4. ASSUME NEW tx \in Txs, Remove(tx)
      PROVE  Table!Remove(tx)
  <2> DEFINE s == tx.slot
  <2>1. DOMAIN senderIndex = D /\ DOMAIN Pool = D /\ s \in D
    BY <1>4 DEF IInv, IndicesAgree, Pool, Remove
  <2>2. /\ scores' = [r \in D \ {s} |-> scores[r]]
        /\ senderIndex' = [r \in D \ {s} |-> senderIndex[r]]
    BY <1>4, <2>1 DEF Remove, Delete, Restrict
  <2>3. Pool' = [r \in D \ {s} |-> Pool[r]]
    BY <2>2 DEF Pool
  <2> QED
    BY <2>1, <2>3 DEF Table!Remove, Pool
<1>5. ASSUME Select
      PROVE  Pool' = Pool
  <2>1. /\ DOMAIN scores' = D
        /\ \A s \in D : scores'[s].priority = scores[s].priority
    BY <1>5, ReorderedScoresAre DEF Select
  <2> QED
    BY <1>5, <2>1 DEF Pool, Select
<1> QED
  BY <1>1, <1>2, <1>3, <1>4, <1>5 DEF Next, Table!Next

\* The four indices implement the bounded table with one transaction per slot:
\* reordering is invisible, and every insert or removal is one step of the table.
THEOREM TableThm == Spec => TableSpec
<1>1. Init => Table!Init
  BY DEF Init, Table!Init
<1>2. IInv /\ [Next]_vars => [Table!Next]_Pool
  BY TableStep
<1> QED
  BY <1>1, <1>2, InitInv, NextInv, PTL DEF Spec, TableSpec, Table!Spec, Pool

-----------------------------------------------------------------------------
(* The iterator's order of nodes *)

\* Nodes of an index: their keys are numbers, and the slot tells two apart.
IsNodes(P) ==
  /\ IsFiniteSet(P)
  /\ \A e \in P : /\ e.priority \in Nat /\ e.weight \in Nat
                  /\ e.slot \in Nat \X Nat
  /\ \A e, d \in P : e.slot = d.slot => e = d

\* The priority index holds such nodes, one for each slot.
LEMMA NodeTypes ==
  IInv => /\ IsNodes(priorityIndex)
          /\ \A s \in DOMAIN scores : Entry(s) \in priorityIndex /\ Entry(s).slot = s
          /\ \A e \in priorityIndex : e.slot \in DOMAIN scores /\ e = Entry(e.slot)
          /\ DOMAIN scores \subseteq Nat \X Nat
<1> SUFFICES ASSUME IInv
             PROVE  /\ IsNodes(priorityIndex)
                    /\ \A s \in DOMAIN scores : Entry(s) \in priorityIndex /\ Entry(s).slot = s
                    /\ \A e \in priorityIndex : e.slot \in DOMAIN scores /\ e = Entry(e.slot)
                    /\ DOMAIN scores \subseteq Nat \X Nat
  OBVIOUS
<1>1. IsFiniteSet(DOMAIN scores) /\ priorityIndex = {Entry(s) : s \in DOMAIN scores}
  BY DEF IInv, IndicesAgree
<1>2. IsFiniteSet(priorityIndex)
  <2> DEFINE f == [s \in DOMAIN scores |-> Entry(s)]
  <2>1. f \in Surjection(DOMAIN scores, priorityIndex)
    BY <1>1 DEF Surjection
  <2> QED BY <1>1, <2>1, FS_Surjection
<1>3. \A s \in DOMAIN scores : Entry(s).slot = s
  BY DEF Entry
<1>4. ASSUME NEW e \in priorityIndex
      PROVE  e.priority \in Nat /\ e.weight \in Nat /\ e.slot \in Nat \X Nat
  BY MempoolAssumptions, IteratorAssumptions DEF IInv, TypeOK, Slots
<1>5. DOMAIN scores \subseteq Nat \X Nat
  BY MempoolAssumptions, IteratorAssumptions DEF IInv, TypeOK, Slots
<1> QED BY <1>1, <1>2, <1>3, <1>4, <1>5 DEF IsNodes

\* skiplistComparable orders the nodes: two nodes never compare equal.
LEMMA KeyOrder ==
  ASSUME NEW P, IsNodes(P), NEW e \in P, NEW d \in P
  PROVE  /\ e = d \/ KeyBefore(e, d) \/ KeyBefore(d, e)
         /\ KeyBefore(e, d) => e # d /\ ~KeyBefore(d, e)
         /\ KeyBefore(e, d) => e.priority >= d.priority
         /\ \A c \in P : KeyBefore(e, d) /\ KeyBefore(d, c) => KeyBefore(e, c)
<1>1. /\ \A c \in P : /\ c.priority \in Nat /\ c.weight \in Nat
                      /\ c.slot[1] \in Nat /\ c.slot[2] \in Nat /\ c.slot = <<c.slot[1], c.slot[2]>>
      /\ e.slot = d.slot => e = d
  BY DEF IsNodes
<1>2. e = d \/ KeyBefore(e, d) \/ KeyBefore(d, e)
  <2> SUFFICES ASSUME ~KeyBefore(e, d), ~KeyBefore(d, e) PROVE e.slot = d.slot
    BY <1>1
  <2>1. e.slot[1] = d.slot[1] /\ e.slot[2] = d.slot[2]
    BY <1>1 DEF KeyBefore
  <2> QED BY <1>1, <2>1
<1>3. KeyBefore(e, d) => e # d /\ ~KeyBefore(d, e)
  BY <1>1 DEF KeyBefore
<1>4. ASSUME NEW c \in P, KeyBefore(e, d), KeyBefore(d, c)
      PROVE  KeyBefore(e, c)
  BY <1>1, <1>4 DEF KeyBefore
<1> QED BY <1>1, <1>2, <1>3, <1>4 DEF KeyBefore

\* A set of nodes that is not empty has a first one.
LEMMA FirstExists ==
  ASSUME NEW P, IsNodes(P), NEW L \in SUBSET P, L # {}
  PROVE  First(L) # {}
<1> DEFINE Bad == {U \in FiniteSubsetsOf(P) : U # {} /\ First(U) = {}}
<1>1. ASSUME Bad # {} PROVE FALSE
  <2>1. PICK U \in Bad : \A V \in Bad : ~(<<V, U>> \in StrictSubsetOrdering(P))
    <3>1. IsWellFoundedOn(StrictSubsetOrdering(P), FiniteSubsetsOf(P))
      BY FS_StrictSubsetOrderingWellFounded
    <3>2. Bad \subseteq FiniteSubsetsOf(P)
      OBVIOUS
    <3> HIDE DEF Bad
    <3> QED BY <1>1, <3>1, <3>2, WFMin
  <2>2. U \subseteq P /\ IsFiniteSet(U) /\ U # {} /\ First(U) = {}
    BY DEF FiniteSubsetsOf
  <2>3. PICK x \in U : TRUE
    BY <2>2
  <2> DEFINE V == U \ {x}
  <2>4. V \in FiniteSubsetsOf(P) /\ <<V, U>> \in StrictSubsetOrdering(P)
    BY <2>2, <2>3, FS_RemoveElement DEF FiniteSubsetsOf, StrictSubsetOrdering
  <2>5. CASE V = {}
    BY <2>2, <2>3, <2>5 DEF First
  <2>6. CASE V # {}
    <3>1. PICK f \in V : \A d \in V : d = f \/ KeyBefore(f, d)
      BY <2>1, <2>4, <2>6 DEF First
    <3>2. x \in P /\ f \in P /\ V \subseteq P
      BY <2>2
    <3>3. CASE KeyBefore(f, x)
      <4>1. \A d \in U : d = f \/ KeyBefore(f, d)
        BY <3>1, <3>3
      <4> QED BY <2>2, <3>1, <4>1 DEF First
    <3>4. CASE KeyBefore(x, f)
      <4>1. \A d \in V : KeyBefore(x, d)
        BY <3>1, <3>2, <3>4, KeyOrder
      <4> QED BY <2>2, <2>3, <4>1 DEF First
    <3> QED BY <3>1, <3>2, <3>3, <3>4, KeyOrder
  <2> QED BY <2>5, <2>6
<1>2. IsFiniteSet(L)
  BY FS_Subset DEF IsNodes
<1> QED BY <1>1, <1>2 DEF FiniteSubsetsOf

\* There is one first node at most, and the others come after it.
LEMMA FirstIs ==
  ASSUME NEW P, IsNodes(P), NEW L \in SUBSET P, NEW f \in First(L)
  PROVE  /\ f \in L
         /\ \A d \in L : d = f \/ KeyBefore(f, d)
         /\ First(L) = {f}
<1>1. f \in L /\ \A d \in L : d = f \/ KeyBefore(f, d)
  BY DEF First
<1>2. ASSUME NEW g \in First(L) PROVE g = f
  <2>1. g \in L /\ \A d \in L : d = g \/ KeyBefore(g, d)
    BY DEF First
  <2> QED BY <1>1, <2>1, KeyOrder
<1> QED BY <1>1, <1>2

\* Every sender that has not been handed out in full has a next slot.
LEMMA FirstSlot ==
  ASSUME NEW L \in SUBSET Slots, L # {}
  PROVE  \E r \in L : \A q \in L : r[2] <= q[2]
<1> DEFINE N == {r[2] : r \in L}
<1>1. N \in SUBSET Nat /\ N # {}
  BY MempoolAssumptions DEF Slots
<1>2. \E n \in N : \A m \in N : n <= m
  <2> HIDE DEF N
  <2> QED BY <1>1, Induction!LeastNatural
<1> QED BY <1>2

\* The next node: nothing lies between.
LEMMA NextNodeIs ==
  ASSUME IInv, NEW e \in priorityIndex
  PROVE  /\ NextNode(e) = {} => \A d \in priorityIndex : ~KeyBefore(e, d)
         /\ \A m \in NextNode(e) :
              /\ m \in priorityIndex /\ NextNode(e) = {m}
              /\ \A d \in priorityIndex : KeyBefore(e, d) => d = m \/ KeyBefore(m, d)
<1> DEFINE L == {d \in priorityIndex : KeyBefore(e, d)}
<1>1. IsNodes(priorityIndex) /\ L \in SUBSET priorityIndex /\ NextNode(e) = First(L)
  BY NodeTypes DEF NextNode
<1>2. \A d \in priorityIndex : KeyBefore(e, d) => d \in L
  OBVIOUS
<1> HIDE DEF L
<1>3. First(L) = {} => L = {}
  BY <1>1, FirstExists
<1>4. \A m \in First(L) : m \in L /\ First(L) = {m} /\ \A d \in L : d = m \/ KeyBefore(m, d)
  BY <1>1, FirstIs
<1> QED BY <1>1, <1>2, <1>3, <1>4

-----------------------------------------------------------------------------
(* The iterator's invariant *)

Handed == {order[i] : i \in 1 .. Len(order)}

\* The sender lists hold the priorities of the index.
KeysAgree == \A s \in DOMAIN scores : senderIndex[s].priority = scores[s].priority

\* The cursors stand behind what was handed out.
CursorsAgree ==
  /\ cursors \in [DOMAIN cursors -> Nat \X Nat]
  /\ \A r \in DOMAIN scores :
       r \in Handed <=> r[1] \in DOMAIN cursors /\ r[2] <= cursors[r[1]][2]

\* Whatever is next of a sender other than the node's has its own node still to come:
\* a node is left only when its sender's next transaction waits for a later one.
NodesToCome ==
  /\ \A e \in node : \A s \in Heads(DOMAIN scores, Handed) :
       s[1] = e.slot[1] \/ KeyBefore(e, Entry(s)) \/ Entry(s) = e
  /\ node = {} => Heads(DOMAIN scores, Handed) = {}

\* What holds of the walk whatever the sender lists say of priorities.
WalkShape ==
  /\ order \in Seq(DOMAIN scores)
  /\ IsFiniteSet(Handed) /\ Len(order) = Cardinality(Handed)
  /\ CursorsAgree
  /\ node \subseteq priorityIndex /\ \A e, d \in node : e = d
  /\ NonceOrder(order, DOMAIN scores)

\* The keys of a tie carry the weights of the lists as they stand: Select renewed them,
\* and whoever changes the mempool discards the iterator.
TiesFresh ==
  \A s, d \in DOMAIN scores :
    s # d /\ scores[s].priority = scores[d].priority => scores[s].weight = SenderWeight(s)

WalkInv ==
  /\ WalkShape
  /\ live => NodesToCome /\ TiesFresh
  /\ GreedyOrder(order, DOMAIN scores, CurrentPriority)
  /\ IteratorBreaksTies

\* What follows a sender's cursor is the sender's next slot in nonce order.
LEMMA SenderNextIs ==
  ASSUME IInv, CursorsAgree, NEW sender
  PROVE  SenderNext(sender) = {s \in Heads(DOMAIN scores, Handed) : s[1] = sender}
<1> DEFINE S == DOMAIN scores
           rest == {r \in S : r[1] = sender /\ r \notin Handed}
<1>1. /\ DOMAIN senderIndex = S /\ \A r \in S : r[2] \in Nat
  BY NodeTypes DEF IInv, IndicesAgree
<1>2. \A r \in S : r[1] = sender =>
        (r \notin Handed <=> (sender \in DOMAIN cursors => r[2] > cursors[sender][2]))
  BY <1>1 DEF CursorsAgree
<1>3. SenderNext(sender) = {r \in rest : \A q \in rest : r[2] <= q[2]}
  BY <1>1, <1>2 DEF SenderNext
<1>4. ASSUME NEW r \in rest
      PROVE  (\A q \in rest : r[2] <= q[2]) <=> Before(S, r) \subseteq Handed
  BY <1>1 DEF Before
<1> QED BY <1>3, <1>4 DEF Heads

\* Two next slots of one sender are the same.
LEMMA OneHead ==
  ASSUME IInv, NEW H, NEW r \in Heads(DOMAIN scores, H), NEW s \in Heads(DOMAIN scores, H), r[1] = s[1]
  PROVE  r = s
<1>1. r \in Nat \X Nat /\ s \in Nat \X Nat
  BY NodeTypes DEF Heads
<1>2. ~(r[2] < s[2]) /\ ~(s[2] < r[2])
  BY DEF Heads, Before
<1> QED BY <1>1, <1>2

\* Where nothing is next, everything was handed out.
LEMMA NoHeads ==
  ASSUME IInv, NEW H \in SUBSET DOMAIN scores, Heads(DOMAIN scores, H) = {}
  PROVE  H = DOMAIN scores
<1> SUFFICES ASSUME NEW x \in DOMAIN scores, x \notin H
             PROVE  FALSE
  OBVIOUS
<1> DEFINE L == {r \in DOMAIN scores : r[1] = x[1] /\ r \notin H}
<1>1. L \in SUBSET Slots /\ L # {}
  BY DEF IInv, TypeOK
<1>2. PICK r \in L : \A q \in L : r[2] <= q[2]
  <2> HIDE DEF L
  <2> QED BY <1>1, FirstSlot
<1>3. \A q \in L : q[2] \in Nat
  BY NodeTypes
<1>4. Before(DOMAIN scores, r) \subseteq H
  BY <1>2, <1>3 DEF Before
<1> QED BY <1>2, <1>4 DEF Heads

\* What is handed out has the greatest priority of all that may come next: nothing of
\* another sender is next unless its node comes later, and then the transaction
\* would have waited.
LEMMA HandedGreatest ==
  ASSUME IInv, KeysAgree, CursorsAgree, NodesToCome,
         NEW e \in node, e \in priorityIndex, NEW r \in SenderNext(e.slot[1]), ~MustWait(e, r),
         NEW s \in Heads(DOMAIN scores, Handed)
  PROVE  scores[s].priority <= scores[r].priority
<1>1. r \in Heads(DOMAIN scores, Handed) /\ r[1] = e.slot[1]
  BY SenderNextIs
<1>2. r \in DOMAIN scores /\ s \in DOMAIN scores
  BY <1>1 DEF Heads
<1>3. /\ Entry(s) \in priorityIndex /\ Entry(s).slot = s /\ IsNodes(priorityIndex)
      /\ Entry(s).priority = scores[s].priority
  BY <1>2, NodeTypes DEF Entry
<1>4. scores[s].priority \in Nat /\ scores[r].priority \in Nat
  BY <1>2, MempoolAssumptions DEF IInv, TypeOK, Scores
<1>5. CASE s[1] = e.slot[1]
  <2>1. s = r
    BY <1>1, <1>5, OneHead
  <2> QED BY <1>4, <2>1
<1>6. CASE s[1] # e.slot[1]
  <2>1. KeyBefore(e, Entry(s))
    BY <1>3, <1>6 DEF NodesToCome
  <2>2. PICK m \in NextNode(e) : m \in priorityIndex /\ (Entry(s) = m \/ KeyBefore(m, Entry(s)))
    BY <1>3, <2>1, NextNodeIs
  <2>3. m.priority \in Nat
    BY <2>2, <1>3 DEF IsNodes
  <2>4. m.priority >= scores[s].priority
    BY <1>3, <1>4, <2>2, <2>3, KeyOrder
  <2>5. senderIndex[r].priority = scores[r].priority
    BY <1>2 DEF KeysAgree
  <2>6. ~(scores[r].priority < m.priority)
    BY <2>2, <2>5 DEF MustWait
  <2> QED BY <1>4, <2>3, <2>4, <2>6
<1> QED BY <1>5, <1>6

\* Among those it has the greatest weight: the next node does not come before it, and its
\* own key and those that tie with it carry the weights of their lists.
LEMMA HandedHeaviest ==
  ASSUME IInv, KeysAgree, CursorsAgree, NodesToCome, TiesFresh,
         NEW e \in node, e \in priorityIndex, NEW r \in SenderNext(e.slot[1]), ~MustWait(e, r),
         NEW s \in Heads(DOMAIN scores, Handed), scores[s].priority = scores[r].priority
  PROVE  SenderWeight(s) <= SenderWeight(r)
<1>1. r \in Heads(DOMAIN scores, Handed) /\ r[1] = e.slot[1]
  BY SenderNextIs
<1>2. r \in DOMAIN scores /\ s \in DOMAIN scores
  BY <1>1 DEF Heads
<1>3. /\ Entry(s) \in priorityIndex /\ Entry(s).slot = s /\ IsNodes(priorityIndex)
      /\ Entry(s).priority = scores[s].priority /\ Entry(s).weight = scores[s].weight
  BY <1>2, NodeTypes DEF Entry
<1>4. SenderWeight(s) \in Nat /\ SenderWeight(r) \in Nat
  BY <1>2, SenderWeightType, MempoolAssumptions DEF IInv, IndicesAgree
<1>5. CASE s[1] = e.slot[1]
  <2>1. s = r
    BY <1>1, <1>5, OneHead
  <2> QED BY <1>4, <2>1
<1>6. CASE s[1] # e.slot[1]
  <2>1. scores[s].weight = SenderWeight(s) /\ scores[r].weight = SenderWeight(r)
    BY <1>1, <1>2, <1>6 DEF TiesFresh
  <2>2. KeyBefore(e, Entry(s))
    BY <1>3, <1>6 DEF NodesToCome
  <2>3. PICK m \in NextNode(e) : m \in priorityIndex /\ (Entry(s) = m \/ KeyBefore(m, Entry(s)))
    BY <1>3, <2>2, NextNodeIs
  <2>4. /\ m.priority \in Nat /\ m.weight \in Nat
        /\ Entry(s).priority \in Nat /\ Entry(s).weight \in Nat
    BY <2>3, <1>3 DEF IsNodes
  <2>5. m.priority > Entry(s).priority \/ (m.priority = Entry(s).priority /\ m.weight >= Entry(s).weight)
    BY <2>3, <2>4 DEF KeyBefore
  <2>6. senderIndex[r].priority = scores[s].priority
    BY <1>2 DEF KeysAgree
  <2>7. ~(scores[s].priority < m.priority) /\ ~(scores[s].priority = m.priority /\ scores[r].weight < m.weight)
    BY <2>3, <2>6 DEF MustWait
  <2> QED BY <1>3, <1>4, <2>1, <2>4, <2>5, <2>7
<1> QED BY <1>5, <1>6

\* What the walk is stated with depends on the indices and the history alone.
LEMMA WalkUnchanged ==
  ASSUME UNCHANGED <<scores, senderIndex>>
  PROVE  /\ \A s : SenderWeight(s)' = SenderWeight(s)
         /\ TiesFresh => TiesFresh'
         /\ order' = order /\ IteratorBreaksTies => IteratorBreaksTies'
<1>1. \A s : SenderWeight(s)' = SenderWeight(s)
  BY DEF SenderWeight
<1>2. TiesFresh => TiesFresh'
  BY <1>1 DEF TiesFresh
<1>3. order' = order /\ IteratorBreaksTies => IteratorBreaksTies'
  BY <1>1 DEF IteratorBreaksTies, Heads, Before, HandedOut
<1> QED BY <1>1, <1>2, <1>3

\* Next hands out a transaction.
LEMMA HandOutInv ==
  ASSUME IInv, WalkShape, HandOut
  PROVE  WalkShape' /\ (KeysAgree /\ WalkInv => WalkInv')
<1> DEFINE S == DOMAIN scores
           n == Len(order)
<1>0. PICK e \in node : \E r \in SenderNext(e.slot[1]) :
        /\ ~MustWait(e, r) /\ cursors' = Put(cursors, e.slot[1], r) /\ order' = Append(order, r)
  BY DEF HandOut
<1>1. PICK r \in SenderNext(e.slot[1]) :
        /\ ~MustWait(e, r) /\ cursors' = Put(cursors, e.slot[1], r) /\ order' = Append(order, r)
  BY <1>0
<1>2. /\ UNCHANGED <<vars, live, node>> /\ live
      /\ UNCHANGED <<scores, senderIndex, priorityIndex>>
  BY DEF HandOut, vars
<1>3. /\ order \in Seq(S) /\ IsFiniteSet(Handed) /\ n = Cardinality(Handed) /\ CursorsAgree
      /\ e \in priorityIndex /\ node = {e} /\ NonceOrder(order, S)
  BY DEF WalkShape
<1>4. r \in Heads(S, Handed) /\ r[1] = e.slot[1]
  BY <1>3, SenderNextIs
<1>5. r \in S /\ r \notin Handed /\ Before(S, r) \subseteq Handed
  BY <1>4 DEF Heads
<1>6. /\ order' \in Seq(S) /\ Len(order') = n + 1 /\ n \in Nat
      /\ order'[n + 1] = r /\ \A i \in 1 .. n : order'[i] = order[i]
  BY <1>1, <1>3, <1>5
<1>7. Handed' = Handed \cup {r}
  BY <1>6 DEF Handed
<1>8. IsFiniteSet(Handed') /\ Len(order') = Cardinality(Handed')
  BY <1>3, <1>5, <1>6, <1>7, FS_AddElement
<1>9. CursorsAgree'
  <2>1. cursors' = [x \in DOMAIN cursors \cup {r[1]} |-> IF x = r[1] THEN r ELSE cursors[x]]
    BY <1>1, <1>4 DEF Put
  <2>2. S \subseteq Nat \X Nat
    BY NodeTypes
  <2>3. cursors' \in [DOMAIN cursors' -> Nat \X Nat]
    BY <1>3, <1>5, <2>1, <2>2 DEF CursorsAgree
  <2>4. ASSUME NEW q \in S
        PROVE  q \in Handed' <=> q[1] \in DOMAIN cursors' /\ q[2] <= cursors'[q[1]][2]
    <3>1. q \in Handed <=> q[1] \in DOMAIN cursors /\ q[2] <= cursors[q[1]][2]
      BY <1>3 DEF CursorsAgree
    <3>2. CASE q[1] # r[1]
      BY <1>7, <2>1, <3>1, <3>2
    <3>3. CASE q[1] = r[1]
      <4>1. q[2] \in Nat /\ r[2] \in Nat /\ (q[2] = r[2] => q = r)
        BY <1>5, <2>2, <3>3
      <4>2. q[2] < r[2] => q \in Handed
        BY <1>5, <3>3 DEF Before
      <4>3. q \in Handed => q[2] < r[2]
        <5>1. r[1] \in DOMAIN cursors => cursors[r[1]][2] \in Nat /\ ~(r[2] <= cursors[r[1]][2])
          BY <1>3, <1>5 DEF CursorsAgree
        <5> QED BY <3>1, <3>3, <4>1, <5>1
      <4>4. q \in Handed' <=> q[2] <= r[2]
        BY <1>7, <4>1, <4>2, <4>3
      <4> QED BY <2>1, <3>3, <4>4
    <3> QED BY <3>2, <3>3
  <2> QED BY <1>2, <2>3, <2>4 DEF CursorsAgree
<1>10. \A i \in 1 .. n + 1 : HandedOut(order', i) = IF i = n + 1 THEN Handed ELSE HandedOut(order, i)
  BY <1>6 DEF HandedOut, Handed
<1>11. NonceOrder(order', S)
  <2>1. ASSUME NEW i \in 1 .. n + 1
        PROVE  Before(S, order'[i]) \subseteq HandedOut(order', i)
    <3>1. CASE i = n + 1
      BY <1>5, <1>6, <1>10, <3>1
    <3>2. CASE i \in 1 .. n
      BY <1>3, <1>6, <1>10, <3>2 DEF NonceOrder
    <3> QED BY <1>6, <3>1, <3>2
  <2> QED BY <1>6, <2>1 DEF NonceOrder
<1>12. WalkShape'
  <2>1. NonceOrder(order, DOMAIN scores)'
    BY <1>2, <1>11 DEF NonceOrder, Before, HandedOut
  <2> QED BY <1>2, <1>3, <1>6, <1>8, <1>9, <2>1 DEF WalkShape
<1> SUFFICES ASSUME KeysAgree, WalkInv PROVE WalkInv'
  BY <1>12
<1>13. NodesToCome /\ TiesFresh /\ GreedyOrder(order, S, CurrentPriority) /\ IteratorBreaksTies
  BY <1>2 DEF WalkInv
<1>14. NodesToCome'
  <2>1. ASSUME NEW s \in Heads(S, Handed \cup {r}), s[1] # r[1]
        PROVE  s \in Heads(S, Handed)
    BY <2>1 DEF Heads, Before
  <2>2. \A s \in S : Entry(s)' = Entry(s)
    BY <1>2 DEF Entry
  <2>3. \A s \in Heads(S, Handed \cup {r}) : s \in S
    BY DEF Heads
  <2>4. \A s \in Heads(S, Handed \cup {r}) : s[1] = e.slot[1] \/ KeyBefore(e, Entry(s)') \/ Entry(s)' = e
    BY <1>3, <1>4, <1>13, <2>1, <2>2, <2>3 DEF NodesToCome
  <2>5. node' = {e} /\ Heads(DOMAIN scores, Handed)' = Heads(S, Handed \cup {r})
    BY <1>2, <1>3, <1>7 DEF Heads, Before
  <2> QED BY <2>4, <2>5 DEF NodesToCome
<1>15. GreedyOrder(order', S, CurrentPriority)
  <2>1. ASSUME NEW i \in 1 .. n + 1, NEW s \in Heads(S, HandedOut(order', i))
        PROVE  CurrentPriority[s] <= CurrentPriority[order'[i]]
    <3>1. s \in S
      BY DEF Heads
    <3>2. CASE i = n + 1
      <4>1. scores[s].priority <= scores[r].priority
        BY <1>1, <1>3, <1>10, <1>13, <2>1, <3>2, HandedGreatest
      <4> QED BY <1>5, <1>6, <3>1, <3>2, <4>1 DEF CurrentPriority
    <3>3. CASE i \in 1 .. n
      BY <1>6, <1>10, <1>13, <3>3 DEF GreedyOrder
    <3> QED BY <1>6, <3>2, <3>3
  <2> QED BY <1>6, <2>1 DEF GreedyOrder
<1>16. CurrentPriority' = CurrentPriority
  BY <1>2 DEF CurrentPriority
<1>17. GreedyOrder(order, DOMAIN scores, CurrentPriority)'
  BY <1>2, <1>15, <1>16 DEF GreedyOrder, Heads, Before, HandedOut
<1>18. IteratorBreaksTies'
  <2>1. ASSUME NEW i \in 1 .. n + 1, NEW s \in Heads(S, HandedOut(order', i)),
               scores[s].priority = scores[order'[i]].priority
        PROVE  SenderWeight(s) <= SenderWeight(order'[i])
    <3>1. CASE i = n + 1
      BY <1>1, <1>3, <1>6, <1>10, <1>13, <2>1, <3>1, HandedHeaviest
    <3>2. CASE i \in 1 .. n
      BY <1>6, <1>10, <1>13, <2>1, <3>2 DEF IteratorBreaksTies
    <3> QED BY <1>6, <3>1, <3>2
  <2>2. \A s : SenderWeight(s)' = SenderWeight(s)
    BY <1>2, WalkUnchanged
  <2>3. ASSUME NEW i \in 1 .. Len(order)', NEW s \in Heads(DOMAIN scores, HandedOut(order, i))',
               scores'[s].priority = scores'[order'[i]].priority
        PROVE  SenderWeight(s)' <= SenderWeight(order[i])'
    <3>1. i \in 1 .. n + 1 /\ s \in Heads(S, HandedOut(order', i))
      BY <1>2, <1>6 DEF Heads, Before, HandedOut
    <3>2. SenderWeight(s) <= SenderWeight(order'[i])
      BY <1>2, <2>1, <2>3, <3>1
    <3>3. SenderWeight(order[i])' = SenderWeight(order'[i])
      BY <1>2 DEF SenderWeight
    <3> QED BY <2>2, <3>2, <3>3
  <2> QED BY <2>3 DEF IteratorBreaksTies
<1>19. TiesFresh'
  BY <1>2, <1>13, WalkUnchanged
<1> QED BY <1>12, <1>14, <1>17, <1>18, <1>19 DEF WalkInv

\* The iterator goes on to the next node.
LEMMA IteratePriorityInv ==
  ASSUME IInv, WalkShape, IteratePriority
  PROVE  WalkShape' /\ (KeysAgree /\ WalkInv => WalkInv')
<1> DEFINE S == DOMAIN scores
<1>1. PICK e \in node : (\A r \in SenderNext(e.slot[1]) : MustWait(e, r)) /\ node' = NextNode(e)
  BY DEF IteratePriority
<1>2. /\ UNCHANGED <<vars, live, cursors, order>> /\ live
      /\ UNCHANGED <<scores, senderIndex, priorityIndex>>
  BY DEF IteratePriority, vars
<1>3. e \in priorityIndex /\ CursorsAgree /\ IsNodes(priorityIndex)
  BY <1>1, NodeTypes DEF WalkShape
<1>4. /\ NextNode(e) = {} => \A d \in priorityIndex : ~KeyBefore(e, d)
      /\ \A m \in NextNode(e) :
           /\ m \in priorityIndex /\ NextNode(e) = {m}
           /\ \A d \in priorityIndex : KeyBefore(e, d) => d = m \/ KeyBefore(m, d)
  BY <1>3, NextNodeIs
<1>5. Handed' = Handed /\ Heads(DOMAIN scores, Handed)' = Heads(S, Handed)
  BY <1>2 DEF Handed, Heads, Before
<1>6. \A s : Entry(s)' = Entry(s)
  BY <1>2 DEF Entry
<1>7. WalkShape'
  <2>1. CursorsAgree'
    BY <1>2, <1>3, <1>5 DEF CursorsAgree
  <2>2. node' \subseteq priorityIndex' /\ \A c, d \in node' : c = d
    BY <1>1, <1>2, <1>4
  <2>3. NonceOrder(order, DOMAIN scores)'
    BY <1>2 DEF WalkShape, NonceOrder, Before, HandedOut
  <2> QED BY <1>2, <1>5, <2>1, <2>2, <2>3 DEF WalkShape
<1> SUFFICES ASSUME KeysAgree, WalkInv PROVE WalkInv'
  BY <1>7
<1>8. NodesToCome /\ TiesFresh /\ GreedyOrder(order, S, CurrentPriority) /\ IteratorBreaksTies
  BY <1>2 DEF WalkInv
<1>9. ASSUME NEW s \in Heads(S, Handed)
      PROVE  \E m \in NextNode(e) : KeyBefore(m, Entry(s)) \/ Entry(s) = m
  <2>1. /\ s \in S /\ Entry(s) \in priorityIndex /\ Entry(s).slot = s
        /\ Entry(s).priority = scores[s].priority /\ Entry(s).weight = scores[s].weight
    BY NodeTypes DEF Heads, Entry
  <2>2. CASE s[1] = e.slot[1]
    <3>1. MustWait(e, s)
      BY <1>1, <1>3, <2>2, SenderNextIs
    <3>2. PICK m \in NextNode(e) :
            \/ scores[s].priority < m.priority
            \/ scores[s].priority = m.priority /\ scores[s].weight < m.weight
      BY <2>1, <3>1 DEF MustWait, KeysAgree
    <3>3. m \in priorityIndex
      BY <1>4
    <3>4. /\ Entry(s).priority \in Nat /\ Entry(s).weight \in Nat
          /\ m.priority \in Nat /\ m.weight \in Nat
      BY <1>3, <2>1, <3>3 DEF IsNodes
    <3>5. KeyBefore(m, Entry(s))
      BY <2>1, <3>2, <3>4 DEF KeyBefore
    <3> QED BY <3>5
  <2>3. CASE s[1] # e.slot[1]
    <3>1. KeyBefore(e, Entry(s))
      BY <1>8, <2>1, <2>3 DEF NodesToCome
    <3> QED BY <1>4, <2>1, <3>1
  <2> QED BY <2>2, <2>3
<1>10. NodesToCome'
  <2>1. ASSUME NEW m \in NextNode(e), NEW s \in Heads(S, Handed)
        PROVE  KeyBefore(m, Entry(s)) \/ Entry(s) = m
    BY <1>4, <1>9
  <2>2. NextNode(e) = {} => Heads(S, Handed) = {}
    BY <1>9
  <2> QED BY <1>1, <1>5, <1>6, <2>1, <2>2 DEF NodesToCome
<1>11. CurrentPriority' = CurrentPriority
  BY <1>2 DEF CurrentPriority
<1>12. GreedyOrder(order, DOMAIN scores, CurrentPriority)'
  BY <1>2, <1>8, <1>11 DEF GreedyOrder, Heads, Before, HandedOut
<1>13. TiesFresh' /\ IteratorBreaksTies'
  BY <1>2, <1>8, WalkUnchanged
<1> QED BY <1>7, <1>10, <1>12, <1>13 DEF WalkInv

\* A walk that has handed out nothing.
LEMMA EmptyWalk ==
  ASSUME order = <<>>, cursors = [s \in {} |-> 0]
  PROVE  /\ order \in Seq(DOMAIN scores) /\ Handed = {}
         /\ IsFiniteSet(Handed) /\ Len(order) = Cardinality(Handed)
         /\ CursorsAgree
         /\ NonceOrder(order, DOMAIN scores)
         /\ GreedyOrder(order, DOMAIN scores, CurrentPriority)
         /\ IteratorBreaksTies
<1>1. Len(order) = 0 /\ Handed = {} /\ 1 .. Len(order) = {}
  BY DEF Handed
<1>2. order \in Seq(DOMAIN scores)
  OBVIOUS
<1>3. CursorsAgree
  BY <1>1 DEF CursorsAgree
<1> QED BY <1>1, <1>2, <1>3, FS_EmptySet DEF NonceOrder, GreedyOrder, IteratorBreaksTies

\* An iterator that was discarded, or was never there.
LEMMA DiscardedInv == live = FALSE /\ node = {} /\ cursors = [s \in {} |-> 0] /\ order = <<>> => WalkInv
BY EmptyWalk DEF WalkInv, WalkShape

\* A new iterator begins at the first node of the index.
LEMMA BeginInv ==
  IInv /\ TiesFresh /\ priorityIndex # {} /\ node = First(priorityIndex)
    /\ cursors = [s \in {} |-> 0] /\ order = <<>> => WalkInv
<1> SUFFICES ASSUME IInv, TiesFresh, priorityIndex # {}, node = First(priorityIndex),
                    cursors = [s \in {} |-> 0], order = <<>>
             PROVE  WalkInv
  OBVIOUS
<1>1. /\ IsNodes(priorityIndex) /\ \A s \in DOMAIN scores : Entry(s) \in priorityIndex
  BY NodeTypes
<1>2. PICK f : f \in First(priorityIndex)
  BY <1>1, FirstExists
<1>3. f \in priorityIndex /\ node = {f} /\ \A d \in priorityIndex : d = f \/ KeyBefore(f, d)
  BY <1>1, <1>2, FirstIs
<1>4. NodesToCome
  BY <1>1, <1>3 DEF NodesToCome, Heads
<1> QED BY <1>3, <1>4, EmptyWalk DEF WalkInv, WalkShape

\* Select renews the weights of all ties: two slots of one priority make their count
\* greater than one.
LEMMA SelectTies ==
  ASSUME IInv, Select
  PROVE  TiesFresh'
<1>1. /\ DOMAIN scores' = DOMAIN scores
      /\ \A s \in DOMAIN scores : scores'[s] =
           IF priorityCounts[scores[s].priority] > 1
           THEN [priority |-> scores[s].priority, weight |-> SenderWeight(s)]
           ELSE scores[s]
  BY ReorderedScoresAre DEF Select
<1>2. \A s : SenderWeight(s)' = SenderWeight(s)
  BY DEF Select, SenderWeight
<1>3. \A s \in DOMAIN scores : scores'[s].priority = scores[s].priority
  BY <1>1
<1>4. ASSUME NEW s \in DOMAIN scores, NEW d \in DOMAIN scores, s # d,
             scores[s].priority = scores[d].priority
      PROVE  scores'[s].weight = SenderWeight(s)
  <2> DEFINE p == scores[s].priority
  <2>1. p \in Priorities
    BY DEF IInv, TypeOK, Scores
  <2>2. IsFiniteSet(Scored(p)) /\ priorityCounts[p] = Cardinality(Scored(p)) /\ priorityCounts[p] \in Nat
    BY <2>1, ScoredFinite
  <2>3. {s, d} \subseteq Scored(p)
    BY <1>4 DEF Scored
  <2>4. IsFiniteSet({s}) /\ Cardinality({s}) = 1
    BY FS_Singleton
  <2>5. {s, d} = {s} \cup {d} /\ d \notin {s}
    BY <1>4
  <2>6. Cardinality({s, d}) = 2
    BY <2>4, <2>5, FS_AddElement
  <2>7. Cardinality({s, d}) <= Cardinality(Scored(p))
    BY <2>2, <2>3, FS_Subset
  <2>8. priorityCounts[p] > 1
    BY <2>2, <2>6, <2>7
  <2> QED BY <1>1, <2>8
<1>5. ASSUME NEW s \in DOMAIN scores', NEW d \in DOMAIN scores', s # d,
             scores'[s].priority = scores'[d].priority
      PROVE  scores'[s].weight = SenderWeight(s)'
  BY <1>1, <1>2, <1>3, <1>4, <1>5
<1> QED BY <1>5 DEF TiesFresh

\* A replacement keeps its transaction's priority, unless the skip list stores the new key.
KeyKept ==
  SetKeepsKey =>
    \A s \in DOMAIN scores \cap DOMAIN scores' : scores'[s].priority = scores[s].priority

\* Then the sender lists hold the priorities of the index.
LEMMA NextKeysAgree ==
  ASSUME IInv, KeysAgree, [Next]_vars, KeyKept
  PROVE  KeysAgree'
<1>0. DOMAIN senderIndex = DOMAIN scores
  BY DEF IInv, IndicesAgree
<1>1. CASE UNCHANGED vars
  BY <1>1 DEF vars, KeysAgree
<1>2. ASSUME NEW tx \in Txs \cup Unsigned, InsertReturnsEarly(tx) \/ RemoveReturnsEarly(tx)
      PROVE  KeysAgree'
  BY <1>1, <1>2 DEF InsertReturnsEarly, RemoveReturnsEarly
<1>3. ASSUME NEW tx \in Txs, NEW p \in Priorities, Insert(tx, p)
      PROVE  KeysAgree'
  <2> DEFINE t == tx.slot
             key == IF SetKeepsKey /\ t \in DOMAIN senderIndex THEN senderIndex[t].priority ELSE p
  <2>1. /\ scores' = Put(scores, t, [priority |-> p, weight |-> 0])
        /\ senderIndex' = Put(senderIndex, t, [priority |-> key, tx |-> tx])
    BY <1>3 DEF Insert, SetSender
  <2>2. /\ DOMAIN scores' = DOMAIN scores \cup {t} /\ scores'[t].priority = p
        /\ \A s \in DOMAIN scores : s # t => scores'[s] = scores[s] /\ senderIndex'[s] = senderIndex[s]
        /\ senderIndex'[t].priority = key
    BY <1>0, <2>1 DEF Put
  <2>3. key = p
    <3> SUFFICES ASSUME SetKeepsKey, t \in DOMAIN scores
                 PROVE  senderIndex[t].priority = p
      BY <1>0
    <3> QED BY <2>2 DEF KeyKept, KeysAgree
  <2> HIDE DEF key
  <2> QED BY <2>2, <2>3 DEF KeysAgree
<1>4. ASSUME NEW tx \in Txs, Remove(tx)
      PROVE  KeysAgree'
  BY <1>0, <1>4 DEF Remove, KeysAgree, Delete, Restrict
<1>5. CASE Select
  BY <1>5, ReorderedScoresAre DEF Select, KeysAgree
<1> QED BY <1>1, <1>2, <1>3, <1>4, <1>5 DEF Next
\* The invariants of the mempool with its iterator: with and without the priorities.
ShapeInv == IInv /\ WalkShape
IterInv == ShapeInv /\ KeysAgree /\ WalkInv

\* Initially there is no iterator.
LEMMA InitIterInv == IterInit => ShapeInv /\ IterInv
<1> SUFFICES ASSUME IterInit PROVE IterInv
  BY DEF IterInv
<1>1. IInv
  BY InitInv DEF IterInit
<1>2. KeysAgree
  BY DEF IterInit, Init, KeysAgree
<1>3. WalkInv
  BY DiscardedInv DEF IterInit
<1> QED BY <1>1, <1>2, <1>3 DEF IterInv, ShapeInv, WalkInv

\* A step that changes nothing.
LEMMA WalkStutters ==
  ASSUME UNCHANGED iterVars
  PROVE  (WalkShape => WalkShape') /\ (WalkInv => WalkInv')
<1>1. UNCHANGED <<scores, senderIndex, priorityIndex, live, node, cursors, order>>
  BY DEF iterVars, vars, iterator
<1>2. CurrentPriority' = CurrentPriority /\ Handed' = Handed
  BY <1>1 DEF CurrentPriority, Handed
<1>3. CursorsAgree => CursorsAgree'
  BY <1>1, <1>2 DEF CursorsAgree
<1>4. NodesToCome => NodesToCome'
  <2>1. \A s : Entry(s)' = Entry(s)
    BY <1>1 DEF Entry
  <2>2. Heads(DOMAIN scores, Handed)' = Heads(DOMAIN scores, Handed)
    BY <1>1, <1>2 DEF Heads, Before
  <2> QED BY <1>1, <2>1, <2>2 DEF NodesToCome
<1>5. NonceOrder(order, DOMAIN scores) => NonceOrder(order, DOMAIN scores)'
  BY <1>1 DEF NonceOrder, Before, HandedOut
<1>6. GreedyOrder(order, DOMAIN scores, CurrentPriority)
        => GreedyOrder(order, DOMAIN scores, CurrentPriority)'
  BY <1>1, <1>2 DEF GreedyOrder, Heads, Before, HandedOut
<1>7. WalkShape => WalkShape'
  BY <1>1, <1>2, <1>3, <1>5 DEF WalkShape
<1>8. (TiesFresh => TiesFresh') /\ (IteratorBreaksTies => IteratorBreaksTies')
  BY <1>1, WalkUnchanged
<1> QED BY <1>1, <1>4, <1>6, <1>7, <1>8 DEF WalkInv

\* Every step keeps the walk's invariants; the mempool's is kept by its own steps.
LEMMA NextWalk ==
  ASSUME ShapeInv, [IterNext]_iterVars
  PROVE  ShapeInv' /\ [Next]_vars /\ (KeysAgree /\ WalkInv => WalkInv')
<1>1. IInv /\ WalkShape
  BY DEF ShapeInv
<1>2. [Next]_vars
  BY DEF iterVars, IterNext, Next, SelectIterator, HandOut, IteratePriority
<1>3. IInv'
  BY <1>1, <1>2, NextInv
<1>4. (live = FALSE /\ node = {} /\ cursors = [s \in {} |-> 0] /\ order = <<>> => WalkInv)'
  BY DiscardedInv, PTL
<1>5. (IInv /\ TiesFresh /\ priorityIndex # {} /\ node = First(priorityIndex)
         /\ cursors = [s \in {} |-> 0] /\ order = <<>> => WalkInv)'
  BY BeginInv, PTL
<1>6. Discard => WalkInv'
  BY <1>4 DEF Discard
<1>7. SelectIterator => WalkInv'
  <2> SUFFICES ASSUME SelectIterator PROVE WalkInv'
    OBVIOUS
  <2>1. priorityIndex' # {}
    BY DEF SelectIterator, Select, ReorderedIndex
  <2>2. node' = First(priorityIndex') /\ cursors' = [s \in {} |-> 0] /\ order' = <<>>
    BY DEF SelectIterator
  <2>3. TiesFresh'
    BY <1>1, SelectTies DEF SelectIterator
  <2> QED BY <1>3, <1>5, <2>1, <2>2, <2>3
<1>8. WalkShape' /\ (KeysAgree /\ WalkInv => WalkInv')
  <2>1. Discard \/ SelectIterator => WalkInv' /\ WalkShape'
    BY <1>6, <1>7 DEF WalkInv
  <2> QED BY <1>1, <2>1, WalkStutters, HandOutInv, IteratePriorityInv DEF IterNext
<1> QED BY <1>2, <1>3, <1>8 DEF ShapeInv

\* The mempool and the nonces, whatever replacements do.
LEMMA NextShapeInv == ShapeInv /\ [IterNext]_iterVars => ShapeInv'
BY NextWalk

\* And the priorities, if replacements keep them where the skip list keeps the key.
LEMMA NextIterInv == IterInv /\ [IterNext]_iterVars /\ [KeyKept]_iterVars => IterInv'
<1> SUFFICES ASSUME IterInv, [IterNext]_iterVars, [KeyKept]_iterVars
             PROVE  IterInv'
  OBVIOUS
<1>1. ShapeInv /\ IInv /\ KeysAgree /\ WalkInv
  BY DEF IterInv, ShapeInv
<1>2. ShapeInv' /\ [Next]_vars /\ WalkInv'
  BY <1>1, NextWalk
<1>3. KeysAgree'
  <2>1. UNCHANGED vars => KeysAgree'
    BY <1>1 DEF vars, KeysAgree
  <2>2. UNCHANGED iterVars => UNCHANGED vars
    BY DEF iterVars
  <2> QED BY <1>1, <1>2, <2>1, <2>2, NextKeysAgree
<1> QED BY <1>2, <1>3 DEF IterInv

\* At the end of the walk nothing is next, so that everything was handed out.
LEMMA WalkComplete == IterInv => IteratorComplete /\ IteratorGreedy
<1> SUFFICES ASSUME IterInv
             PROVE  IteratorComplete /\ IteratorGreedy
  OBVIOUS
<1>1. IInv /\ WalkInv /\ WalkShape
  BY DEF IterInv, ShapeInv
<1>2. IteratorGreedy
  BY <1>1 DEF WalkInv, IteratorGreedy
<1>3. ASSUME live, node = {} PROVE CompleteOrder(order, DOMAIN scores)
  <2>1. /\ order \in Seq(DOMAIN scores) /\ Len(order) = Cardinality(Handed)
        /\ Heads(DOMAIN scores, Handed) = {}
    BY <1>1, <1>3 DEF WalkInv, WalkShape, NodesToCome
  <2>2. \A i \in 1 .. Len(order) : order[i] \in DOMAIN scores
    BY <2>1
  <2>3. Handed \in SUBSET DOMAIN scores
    BY <2>2 DEF Handed
  <2>4. Handed = DOMAIN scores
    BY <1>1, <2>1, <2>3, NoHeads
  <2> QED BY <2>1, <2>4 DEF CompleteOrder, Handed
<1> QED BY <1>2, <1>3 DEF IteratorComplete

\* Whoever drains the iterator of Select sees every transaction of the lane once, for any
\* number of senders, nonces and priorities (block/base/priority_nonce.go), as long as
\* replacements keep the priority where the skip list keeps the key.
THEOREM IteratorCompleteThm == IterSpec /\ [][KeyKept]_iterVars => []IteratorComplete
BY InitIterInv, NextIterInv, WalkComplete, PTL DEF IterSpec

\* Each transaction it offers then has the greatest priority among those whose turn it may
\* be: to compare with the next node alone is enough.
THEOREM IteratorGreedyThm == IterSpec /\ [][KeyKept]_iterVars => []IteratorGreedy
BY InitIterInv, NextIterInv, WalkComplete, PTL DEF IterSpec

\* Ties are broken by the weights of the sender lists as they stand when the iterator walks,
\* whatever was inserted, replaced or removed since a key last got its weight: Select renews
\* every key that priorityCounts calls tied, and a walk compares the weights of no others.
THEOREM IteratorBreaksTiesThm == IterSpec /\ [][KeyKept]_iterVars => []IteratorBreaksTies
<1>1. IterInv => IteratorBreaksTies
  BY DEF IterInv, WalkInv
<1> QED BY <1>1, InitIterInv, NextIterInv, PTL DEF IterSpec

\* The iterator never offers a transaction before one of the same sender with a smaller
\* nonce, whatever the sender lists hold for priorities.
THEOREM IteratorNonceOrderThm == IterSpec => []IteratorNonceOrder
<1>1. ShapeInv => IteratorNonceOrder
  BY DEF ShapeInv, WalkShape, IteratorNonceOrder
<1> QED BY <1>1, InitIterInv, NextShapeInv, PTL DEF IterSpec
=============================================================================
