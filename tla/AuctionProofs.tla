--------------------------- MODULE AuctionProofs ---------------------------
(***************************************************************************)
(* The auction module, for all accounts, bids, bundles and parameters: how *)
(* an accepted bid is split, which bundles the front-running protection    *)
(* lets pass, and which of the bidder's transactions escape its timeout.   *)
(***************************************************************************)
EXTENDS Auction, FiniteSetTheorems, SequenceTheorems, TLAPS

-----------------------------------------------------------------------------
(* The bundle *)

\* The fold's step, in the form FoldTheorems takes it.
SignersStep(bidder, s, txSigners) == BundleStep(bidder, s, txSigners)

SignersFold == INSTANCE FoldTheorems WITH Step <- SignersStep

\* The loop of ValidateAuctionBundle: what is known after the transactions rest, the
\* first having been signed by first.
Loop(bidder, first, rest) ==
  SignersFold!Fold(bidder,
    [ok |-> TRUE, prev |-> first, first |-> first, seen |-> bidder \in first], rest)

\* The rule, for a bundle given as its first transaction and the others.
Rule(bidder, first, rest) ==
  \E n \in 0 .. Len(rest), a \in Accounts :
    /\ a \in first
    /\ \A i \in 1 .. Len(rest) : IF i <= n THEN a \in rest[i] ELSE bidder \in rest[i]

\* ValidateAuctionBundle is that loop.
LEMMA BundleIsLoop ==
  ASSUME NEW bidder, NEW signers, Len(signers) > 1
  PROVE  LET s == Loop(bidder, signers[1], Tail(signers))
         IN  ValidateAuctionBundle(bidder, signers) = [ok |-> s.ok, first |-> s.first]
<1> DEFINE start == [ok |-> TRUE, prev |-> signers[1], first |-> signers[1],
                     seen |-> bidder \in signers[1]]
           s == FoldLeft(LAMBDA r, tx : BundleStep(bidder, r, tx), start, Tail(signers))
<1>1. ~(Len(signers) <= 1)
  OBVIOUS
<1>2. ValidateAuctionBundle(bidder, signers) = [ok |-> s.ok, first |-> s.first]
  BY <1>1, Zenon DEF ValidateAuctionBundle
<1>3. s = Loop(bidder, signers[1], Tail(signers))
  BY DEF Loop, SignersFold!Fold, FoldLeft, MapThenFoldSet, Max, SignersStep,
         SignersFold!FoldLeft, SignersFold!MapThenFoldSet, SignersFold!Max
<1> QED BY <1>2, <1>3

\* The loop, one transaction at a time.
LEMMA LoopStep ==
  ASSUME NEW bidder, NEW first
  PROVE  /\ Loop(bidder, first, <<>>) =
              [ok |-> TRUE, prev |-> first, first |-> first, seen |-> bidder \in first]
         /\ \A rest \in Seq(SUBSET Accounts), tx \in SUBSET Accounts :
              Loop(bidder, first, Append(rest, tx)) = BundleStep(bidder, Loop(bidder, first, rest), tx)
<1> DEFINE start == [ok |-> TRUE, prev |-> first, first |-> first, seen |-> bidder \in first]
<1>1. Loop(bidder, first, <<>>) = start
  <2> HIDE DEF start
  <2>1. SignersFold!Fold(bidder, start, <<>>) = start
    BY SignersFold!FoldEmpty
  <2> QED BY <2>1 DEF Loop, start
<1>2. ASSUME NEW rest \in Seq(SUBSET Accounts), NEW tx \in SUBSET Accounts
      PROVE  Loop(bidder, first, Append(rest, tx)) = BundleStep(bidder, Loop(bidder, first, rest), tx)
  <2>1. Loop(bidder, first, Append(rest, tx)) = SignersFold!Fold(bidder, start, Append(rest, tx))
        /\ Loop(bidder, first, rest) = SignersFold!Fold(bidder, start, rest)
    BY DEF Loop
  <2> HIDE DEF start
  <2>2. SignersFold!Fold(bidder, start, Append(rest, tx)) =
          SignersStep(bidder, SignersFold!Fold(bidder, start, rest), tx)
    BY SignersFold!FoldAppend
  <2> QED BY <2>1, <2>2 DEF SignersStep
<1> QED BY <1>1, <1>2

\* What one iteration makes of s, common being the signers in common so far.
Iterated(bidder, s, tx, common, r) ==
  IF ~s.ok THEN r = s
  ELSE /\ r.ok <=> (common # {} \/ (~s.seen /\ bidder \in tx))
       /\ r.prev = IF common # {} THEN common ELSE {bidder}
       /\ r.seen <=> (s.seen \/ common = {})
       /\ r.first = s.first \cap tx

\* One iteration, field by field.
LEMMA BundleStepFields ==
  ASSUME NEW bidder, NEW s, NEW tx, NEW common, common = s.prev \cap tx,
         NEW r, r = BundleStep(bidder, s, tx)
  PROVE  Iterated(bidder, s, tx, common, r)
<1>1. CASE ~s.ok
  BY <1>1 DEF BundleStep, Iterated
<1>2. CASE s.ok
  <2> DEFINE ok == common # {} \/ (~s.seen /\ bidder \in tx)
             prev == IF common # {} THEN common ELSE {bidder}
             seen == s.seen \/ common = {}
             left == s.first \cap tx
  <2>1. r = [ok |-> ok, prev |-> prev, seen |-> seen, first |-> left]
    BY <1>2, Zenon DEF BundleStep, filterSigners
  <2> HIDE DEF ok, prev, seen, left
  <2>2. r.ok = ok /\ r.prev = prev /\ r.seen = seen /\ r.first = left
    BY <2>1
  <2> QED BY <1>2, <2>2, Zenon DEF Iterated, ok, prev, seen, left
<1> QED BY <1>1, <1>2

\* Before the first iteration.
LEMMA LoopStart ==
  ASSUME NEW bidder, NEW first, NEW r, r = Loop(bidder, first, <<>>)
  PROVE  /\ r.ok /\ r.prev = first /\ r.first = first
         /\ r.seen <=> bidder \in first
<1> DEFINE seen == bidder \in first
<1>1. r = [ok |-> TRUE, prev |-> first, first |-> first, seen |-> seen]
  BY LoopStep
<1> HIDE DEF seen
<1>2. r.ok /\ r.prev = first /\ r.first = first /\ r.seen = seen
  BY <1>1
<1> QED BY <1>2, Zenon DEF seen

\* An accepted bundle obeys the rule.  Until the bidder takes over prev is what all
\* transactions have in common; from then on it is the bidder.
LEMMA LoopSound ==
  ASSUME NEW bidder, NEW first \in SUBSET Accounts, first # {}
  PROVE  \A rest \in Seq(SUBSET Accounts) : Loop(bidder, first, rest).ok => Rule(bidder, first, rest)
<1> DEFINE L(rest) == Loop(bidder, first, rest)
           Common(rest) == \A a \in L(rest).prev : a \in first /\ \A i \in 1 .. Len(rest) : a \in rest[i]
           Taken(rest) == L(rest).prev = {bidder} /\ L(rest).seen /\ Rule(bidder, first, rest)
           Known(rest) == L(rest).ok => L(rest).prev # {} /\ (Common(rest) \/ Taken(rest))
           S == {rest \in Seq(SUBSET Accounts) : Known(rest)}
<1>1. <<>> \in S
  <2>1. L(<<>>).prev = first
    BY LoopStep
  <2> HIDE DEF L
  <2> QED BY <2>1
<1>2. ASSUME NEW rest \in Seq(SUBSET Accounts), NEW tx \in SUBSET Accounts, rest \in S
      PROVE  Append(rest, tx) \in S
  <2> DEFINE next == Append(rest, tx)
             s == L(rest)
             r == L(next)
             common == s.prev \cap tx
  <2>1. r = BundleStep(bidder, s, tx)
    BY LoopStep
  <2>2. next \in Seq(SUBSET Accounts) /\ Len(next) = Len(rest) + 1 /\ Len(rest) \in Nat
        /\ next[Len(rest) + 1] = tx /\ \A i \in 1 .. Len(rest) : next[i] = rest[i]
    OBVIOUS
  <2>3. Known(rest)
    BY <1>2
  <2> SUFFICES ASSUME r.ok PROVE r.prev # {} /\ (Common(next) \/ Taken(next))
    BY <2>2
  <2> HIDE DEF next, L
  <2>4. /\ s.ok
        /\ common # {} \/ (~s.seen /\ bidder \in tx)
        /\ r.prev = IF common # {} THEN common ELSE {bidder}
        /\ r.seen <=> (s.seen \/ common = {})
    <3> HIDE DEF s, r
    <3>1. common = s.prev \cap tx
      OBVIOUS
    <3> HIDE DEF common
    <3>2. Iterated(bidder, s, tx, common, r)
      BY <2>1, <3>1, BundleStepFields
    <3> QED BY <3>2 DEF Iterated
  <2>5. s.prev # {} /\ (Common(rest) \/ Taken(rest))
    BY <2>3, <2>4
  <2>6. \A i \in 1 .. Len(next) : i \in 1 .. Len(rest) \/ next[i] = tx
    BY <2>2
  <2>7. CASE common # {} /\ Common(rest)
    BY <2>2, <2>4, <2>6, <2>7
  <2>8. CASE common # {} /\ Taken(rest)
    <3>1. s.prev = {bidder} /\ s.seen /\ bidder \in tx /\ r.prev = {bidder}
      BY <2>4, <2>8
    <3>2. PICK n \in 0 .. Len(rest), a \in Accounts :
            /\ a \in first
            /\ \A i \in 1 .. Len(rest) : IF i <= n THEN a \in rest[i] ELSE bidder \in rest[i]
      BY <2>8 DEF Rule
    <3>3. n \in 0 .. Len(next) /\ ~(Len(rest) + 1 <= n)
      BY <2>2
    <3>4. \A i \in 1 .. Len(next) : IF i <= n THEN a \in next[i] ELSE bidder \in next[i]
      BY <2>2, <3>1, <3>2, <3>3
    <3>5. Rule(bidder, first, next)
      BY <3>2, <3>3, <3>4 DEF Rule
    <3>6. r.seen
      BY <2>4, <3>1
    <3> QED BY <3>1, <3>5, <3>6
  <2>9. CASE common = {}
    <3>1. bidder \in tx /\ r.prev = {bidder} /\ r.seen /\ ~s.seen
      BY <2>4, <2>9
    <3>2. Common(rest)
      BY <2>5, <3>1
    <3>3. PICK a : a \in s.prev /\ a \in first /\ \A i \in 1 .. Len(rest) : a \in rest[i]
      BY <2>5, <3>2
    <3>4. Len(rest) \in 0 .. Len(next) /\ a \in Accounts /\ ~(Len(rest) + 1 <= Len(rest))
      BY <2>2, <3>3
    <3>5. \A i \in 1 .. Len(next) : IF i <= Len(rest) THEN a \in next[i] ELSE bidder \in next[i]
      BY <2>2, <3>1, <3>3
    <3>6. Rule(bidder, first, next)
      BY <3>3, <3>4, <3>5 DEF Rule
    <3> QED BY <3>1, <3>6
  <2> QED BY <2>5, <2>7, <2>8, <2>9
<1>3. ASSUME NEW rest \in Seq(SUBSET Accounts), rest \in S, L(rest).ok
      PROVE  Rule(bidder, first, rest)
  <2> HIDE DEF L
  <2>1. CASE Common(rest)
    <3>1. PICK a : a \in first /\ \A i \in 1 .. Len(rest) : a \in rest[i]
      BY <1>3, <2>1
    <3>2. Len(rest) \in 0 .. Len(rest) /\ a \in Accounts
      BY <3>1
    <3>3. \A i \in 1 .. Len(rest) : IF i <= Len(rest) THEN a \in rest[i] ELSE bidder \in rest[i]
      BY <3>1
    <3> QED BY <3>1, <3>2, <3>3 DEF Rule
  <2> QED BY <1>3, <2>1
<1> HIDE DEF S
<1>4. \A rest \in Seq(SUBSET Accounts) : rest \in S
  BY <1>1, <1>2, SignersFold!SeqInduction
<1> QED BY <1>3, <1>4

\* The signers of single-signed transactions, and the last of them.
Single(rest) == \A i \in 1 .. Len(rest) : \E a \in Accounts : rest[i] = {a}
Last1(first, rest) == IF rest = <<>> THEN first ELSE rest[Len(rest)]

\* Of bundles with one signer per transaction all that obey the rule are accepted.
LEMMA LoopComplete ==
  ASSUME NEW bidder, NEW x \in Accounts
  PROVE  \A rest \in Seq(SUBSET Accounts) :
           Single(rest) /\ Rule(bidder, {x}, rest) => Loop(bidder, {x}, rest).ok
<1> DEFINE first == {x}
           L(rest) == Loop(bidder, first, rest)
           Known(rest) == Single(rest) /\ Rule(bidder, first, rest) =>
             /\ L(rest).ok /\ L(rest).prev = Last1(first, rest)
             /\ L(rest).seen <=> bidder = x \/ \E i \in 1 .. Len(rest) : rest[i] = {bidder}
           S == {rest \in Seq(SUBSET Accounts) : Known(rest)}
<1> HIDE DEF first
<1>0. first = {x}
  BY DEF first
<1>1. <<>> \in S
  <2>1. L(<<>>).ok /\ L(<<>>).prev = first /\ (L(<<>>).seen <=> bidder \in first)
    BY LoopStart
  <2> HIDE DEF L
  <2> QED BY <1>0, <2>1 DEF Last1
<1>2. ASSUME NEW rest \in Seq(SUBSET Accounts), NEW tx \in SUBSET Accounts, rest \in S
      PROVE  Append(rest, tx) \in S
  <2> DEFINE next == Append(rest, tx)
             s == L(rest)
             r == L(next)
             m == Len(rest)
             common == s.prev \cap tx
  <2>1. r = BundleStep(bidder, s, tx)
    BY LoopStep
  <2>2. next \in Seq(SUBSET Accounts) /\ Len(next) = m + 1 /\ m \in Nat /\ next # <<>>
        /\ next[m + 1] = tx /\ \A i \in 1 .. m : next[i] = rest[i]
    OBVIOUS
  <2>3. Known(rest)
    BY <1>2
  <2> SUFFICES ASSUME Single(next), Rule(bidder, first, next) PROVE Known(next)
    BY <2>2
  <2>4. rest = <<>> <=> m = 0
    OBVIOUS
  <2> HIDE DEF next, L, m
  <2>5. PICK y \in Accounts : tx = {y}
    BY <2>2 DEF Single
  <2>6. Single(rest)
    BY <2>2 DEF Single, m
  <2>7. PICK n \in 0 .. Len(next), a \in Accounts :
          /\ a \in first
          /\ \A i \in 1 .. Len(next) : IF i <= n THEN a \in next[i] ELSE bidder \in next[i]
    BY DEF Rule
  <2>8. a = x
    BY <1>0, <2>7
  <2>9. Rule(bidder, first, rest)
    <3> DEFINE k == IF n <= m THEN n ELSE m
    <3>1. k \in 0 .. m /\ \A i \in 1 .. m : i <= k <=> i <= n
      BY <2>2
    <3> HIDE DEF k
    <3>2. \A i \in 1 .. m : i \in 1 .. Len(next) /\ next[i] = rest[i]
      BY <2>2
    <3>3. \A i \in 1 .. m : IF i <= n THEN a \in rest[i] ELSE bidder \in rest[i]
      BY <2>7, <3>2
    <3>4. \A i \in 1 .. m : IF i <= k THEN a \in rest[i] ELSE bidder \in rest[i]
      BY <3>1, <3>3
    <3> QED BY <2>7, <3>1, <3>4 DEF Rule, m
  <2>10. /\ s.ok /\ s.prev = Last1(first, rest)
         /\ s.seen <=> bidder = x \/ \E i \in 1 .. m : rest[i] = {bidder}
    BY <2>3, <2>6, <2>9 DEF m
  <2>11. /\ r.ok <=> (common # {} \/ (~s.seen /\ bidder \in tx))
         /\ r.prev = IF common # {} THEN common ELSE {bidder}
         /\ r.seen <=> (s.seen \/ common = {})
    <3> HIDE DEF s, r
    <3>1. common = s.prev \cap tx
      OBVIOUS
    <3> HIDE DEF common
    <3>2. Iterated(bidder, s, tx, common, r)
      BY <2>1, <3>1, BundleStepFields
    <3> QED BY <2>10, <3>2 DEF Iterated
  <2>12. PICK z \in Accounts : s.prev = {z} /\ Last1(first, rest) = {z}
    BY <1>0, <2>2, <2>4, <2>6, <2>10 DEF Last1, Single, m
  <2>13. Last1(first, next) = {y}
    BY <2>2, <2>5 DEF Last1
  <2>14. (\E i \in 1 .. Len(next) : next[i] = {bidder}) <=>
           (y = bidder \/ \E i \in 1 .. m : rest[i] = {bidder})
    <3>1. \A i \in 1 .. Len(next) : i \in 1 .. m \/ i = m + 1
      BY <2>2
    <3>2. m + 1 \in 1 .. Len(next) /\ \A i \in 1 .. m : i \in 1 .. Len(next)
      BY <2>2
    <3>3. next[m + 1] = {bidder} <=> y = bidder
      BY <2>2, <2>5
    <3> QED BY <2>2, <3>1, <3>2, <3>3
  <2>15. CASE y = z
    <3>1. common = {y}
      BY <2>5, <2>12, <2>15
    <3>2. r.ok /\ r.prev = {y} /\ (r.seen <=> s.seen)
      BY <2>11, <3>1
    <3>3. y = bidder => bidder = x \/ \E i \in 1 .. m : rest[i] = {bidder}
      <4>1. CASE m = 0
        BY <1>0, <2>4, <2>12, <2>15, <4>1 DEF Last1
      <4>2. CASE m # 0
        BY <2>2, <2>4, <2>12, <2>15, <4>2 DEF Last1, m
      <4> QED BY <4>1, <4>2
    <3> QED BY <2>10, <2>13, <2>14, <3>2, <3>3
  <2>16. CASE y # z
    <3>1. common = {}
      BY <2>5, <2>12, <2>16
    <3>2. n <= m
      <4> SUFFICES ASSUME n > m PROVE FALSE
        BY <2>2
      <4>1. \A i \in 1 .. m + 1 : a \in next[i]
        BY <2>2, <2>7
      <4>2. y = a
        BY <2>2, <2>5, <4>1
      <4>3. z = a
        <5>1. CASE m = 0
          BY <2>4, <2>7, <2>8, <1>0, <2>12, <5>1 DEF Last1
        <5>2. CASE m # 0
          <6>1. rest[m] = {z} /\ m \in 1 .. m /\ m \in 1 .. m + 1
            BY <2>2, <2>4, <2>12, <5>2 DEF Last1, m
          <6> QED BY <2>2, <4>1, <6>1
        <5> QED BY <5>1, <5>2
      <4> QED BY <2>16, <4>2, <4>3
    <3>3. y = bidder
      BY <2>2, <2>5, <2>7, <3>2
    <3>4. n = m
      <4> SUFFICES ASSUME n < m PROVE FALSE
        BY <2>2, <3>2
      <4>1. m \in 1 .. m /\ bidder \in next[m] /\ rest[m] = {z}
        BY <2>2, <2>4, <2>7, <2>12 DEF Last1, m
      <4> QED BY <2>2, <2>16, <3>3, <4>1
    <3>5. \A i \in 1 .. m : a \in rest[i]
      BY <2>2, <2>7, <3>4
    <3>6. z = a
      BY <1>0, <2>2, <2>4, <2>8, <2>12, <3>5 DEF Last1, m
    <3>7. ~s.seen
      BY <2>8, <2>10, <2>16, <3>3, <3>5, <3>6
    <3> QED BY <2>5, <2>11, <2>13, <2>14, <3>1, <3>3, <3>7
  <2> QED BY <2>15, <2>16
<1> HIDE DEF S
<1>3. \A rest \in Seq(SUBSET Accounts) : rest \in S
  BY <1>1, <1>2, SignersFold!SeqInduction
<1> QED BY <1>3 DEF S, first

\* What is left of the first transaction's signers, if the bidder is one of them: some,
\* who signed all transactions, and not the bidder only if it did not sign them all.
Shared(bidder, first, rest, left) ==
  /\ left # {} /\ left \subseteq first
  /\ \A i \in 1 .. Len(rest) : left \subseteq rest[i]
  /\ bidder \in left \/ \E i \in 1 .. Len(rest) : bidder \notin rest[i]

\* The bidder cannot take over from itself, so that prev and the signers in the bid
\* remain one map to the end of the loop.
LEMMA LoopFirst ==
  ASSUME NEW bidder, NEW first \in SUBSET Accounts, bidder \in first
  PROVE  \A rest \in Seq(SUBSET Accounts) :
           Loop(bidder, first, rest).ok => Shared(bidder, first, rest, Loop(bidder, first, rest).first)
<1> DEFINE L(rest) == Loop(bidder, first, rest)
           Known(rest) == L(rest).ok =>
             L(rest).prev = L(rest).first /\ L(rest).seen /\ Shared(bidder, first, rest, L(rest).first)
           S == {rest \in Seq(SUBSET Accounts) : Known(rest)}
<1>1. <<>> \in S
  <2>1. L(<<>>).prev = first /\ L(<<>>).first = first /\ L(<<>>).seen
    BY LoopStart
  <2> HIDE DEF L
  <2>2. Shared(bidder, first, <<>>, L(<<>>).first)
    BY <2>1 DEF Shared
  <2> QED BY <2>1, <2>2
<1>2. ASSUME NEW rest \in Seq(SUBSET Accounts), NEW tx \in SUBSET Accounts, rest \in S
      PROVE  Append(rest, tx) \in S
  <2> DEFINE next == Append(rest, tx)
             s == L(rest)
             r == L(next)
             common == s.prev \cap tx
  <2>1. r = BundleStep(bidder, s, tx)
    BY LoopStep
  <2>2. next \in Seq(SUBSET Accounts) /\ Len(next) = Len(rest) + 1 /\ Len(rest) \in Nat
        /\ next[Len(rest) + 1] = tx /\ \A i \in 1 .. Len(rest) : next[i] = rest[i]
    OBVIOUS
  <2>3. Known(rest)
    BY <1>2
  <2> SUFFICES ASSUME r.ok
               PROVE  r.prev = r.first /\ r.seen /\ Shared(bidder, first, next, r.first)
    BY <2>2
  <2> HIDE DEF next, L
  <2>4. s.ok => s.prev = s.first /\ s.seen /\ Shared(bidder, first, rest, s.first)
    BY <2>3
  <2>5. common = s.prev \cap tx
    OBVIOUS
  <2> HIDE DEF s, r, common
  <2>6. Iterated(bidder, s, tx, common, r)
    BY <2>1, <2>5, BundleStepFields
  <2>7. /\ s.ok /\ s.prev = s.first /\ s.seen /\ Shared(bidder, first, rest, s.first)
        /\ common # {} /\ r.prev = common /\ r.seen /\ r.first = s.first \cap tx
    BY <2>4, <2>6 DEF Iterated
  <2>8. r.first = common /\ common = s.first \cap tx
    BY <2>5, <2>7
  <2>9. \A i \in 1 .. Len(next) : i \in 1 .. Len(rest) \/ next[i] = tx
    BY <2>2
  <2>10. \A i \in 1 .. Len(next) : common \subseteq next[i]
    BY <2>2, <2>7, <2>8, <2>9 DEF Shared
  <2>11. bidder \in common \/ \E i \in 1 .. Len(next) : bidder \notin next[i]
    <3>1. Len(rest) + 1 \in 1 .. Len(next) /\ \A i \in 1 .. Len(rest) : i \in 1 .. Len(next)
      BY <2>2
    <3> QED BY <2>2, <2>7, <2>8, <3>1 DEF Shared
  <2>12. Shared(bidder, first, next, common)
    BY <2>7, <2>8, <2>10, <2>11 DEF Shared
  <2> QED BY <2>7, <2>8, <2>12
<1> HIDE DEF S
<1>3. \A rest \in Seq(SUBSET Accounts) : rest \in S
  BY <1>1, <1>2, SignersFold!SeqInduction
<1> QED BY <1>3 DEF S

\* The rule of the comment, with the first transaction taken apart.
LEMMA RuleOfBundle ==
  ASSUME NEW bidder, NEW sg \in Seq(SUBSET Accounts), Len(sg) > 1
  PROVE  OneSignerThenBidder(bidder, sg) <=> Rule(bidder, sg[1], Tail(sg))
<1> DEFINE rest == Tail(sg)
           m == Len(rest)
<1>1. /\ m \in Nat /\ Len(sg) = m + 1 /\ DOMAIN sg = 1 .. m + 1
      /\ \A i \in 1 .. m : rest[i] = sg[i + 1]
  OBVIOUS
<1> HIDE DEF rest, m
<1>2. ASSUME NEW n \in 1 .. Len(sg), NEW a \in Accounts,
             \A i \in DOMAIN sg : IF i <= n THEN a \in sg[i] ELSE bidder \in sg[i]
      PROVE  Rule(bidder, sg[1], rest)
  <2>1. n - 1 \in 0 .. m /\ a \in sg[1]
    BY <1>1, <1>2
  <2>2. ASSUME NEW i \in 1 .. m
        PROVE  IF i <= n - 1 THEN a \in rest[i] ELSE bidder \in rest[i]
    <3>1. i + 1 \in DOMAIN sg /\ (i + 1 <= n <=> i <= n - 1) /\ rest[i] = sg[i + 1]
      BY <1>1
    <3> QED BY <1>2, <3>1
  <2> QED BY <2>1, <2>2 DEF Rule, m
<1>3. ASSUME NEW n \in 0 .. m, NEW a \in Accounts, a \in sg[1],
             \A i \in 1 .. m : IF i <= n THEN a \in rest[i] ELSE bidder \in rest[i]
      PROVE  OneSignerThenBidder(bidder, sg)
  <2>1. n + 1 \in 1 .. Len(sg)
    BY <1>1
  <2>2. ASSUME NEW i \in DOMAIN sg
        PROVE  IF i <= n + 1 THEN a \in sg[i] ELSE bidder \in sg[i]
    <3>1. CASE i = 1
      BY <1>3, <3>1
    <3>2. CASE i # 1
      <4>1. i - 1 \in 1 .. m /\ (i - 1 <= n <=> i <= n + 1) /\ i - 1 + 1 = i
        BY <1>1, <3>2
      <4>2. rest[i - 1] = sg[i]
        BY <1>1, <4>1
      <4> QED BY <1>3, <4>1, <4>2
    <3> QED BY <3>1, <3>2
  <2> QED BY <2>1, <2>2 DEF OneSignerThenBidder
<1>4. OneSignerThenBidder(bidder, sg) => Rule(bidder, sg[1], rest)
  BY <1>2 DEF OneSignerThenBidder
<1>5. Rule(bidder, sg[1], rest) => OneSignerThenBidder(bidder, sg)
  BY <1>3 DEF Rule, m
<1> QED BY <1>4, <1>5 DEF rest

\* The first transaction of a bundle has a signer.  GetBidInfo takes the signers of
\* the transactions' messages (external), of which a transaction has at least one.
FirstSigned == \A b \in Bids : Len(b.signers) > 1 => b.signers[1] # {}

\* A bundle that ValidateAuctionBundle accepts obeys the rule, and with one signer per
\* transaction it accepts all bundles that do.
LEMMA BundleRule ==
  ASSUME NEW bidder, NEW sg \in Seq(SUBSET Accounts), Len(sg) > 1, sg[1] # {}
  PROVE  /\ ValidateAuctionBundle(bidder, sg).ok => OneSignerThenBidder(bidder, sg)
         /\ (\A i \in DOMAIN sg : \E a \in Accounts : sg[i] = {a}) =>
              (OneSignerThenBidder(bidder, sg) => ValidateAuctionBundle(bidder, sg).ok)
<1> DEFINE rest == Tail(sg)
           s == Loop(bidder, sg[1], rest)
           v == ValidateAuctionBundle(bidder, sg)
<1>1. /\ sg[1] \in SUBSET Accounts /\ rest \in Seq(SUBSET Accounts)
      /\ Len(rest) = Len(sg) - 1 /\ DOMAIN sg = 1 .. Len(sg)
      /\ \A i \in 1 .. Len(rest) : rest[i] = sg[i + 1]
  OBVIOUS
<1>2. v = [ok |-> s.ok, first |-> s.first]
  BY BundleIsLoop
<1> HIDE DEF s, v, rest
<1>3. v.ok = s.ok
  BY <1>2
<1>4. OneSignerThenBidder(bidder, sg) <=> Rule(bidder, sg[1], rest)
  BY RuleOfBundle DEF rest
<1>5. v.ok => OneSignerThenBidder(bidder, sg)
  BY <1>1, <1>3, <1>4, LoopSound DEF s
<1>6. ASSUME \A i \in DOMAIN sg : \E a \in Accounts : sg[i] = {a}, OneSignerThenBidder(bidder, sg)
      PROVE  v.ok
  <2>1. PICK x \in Accounts : sg[1] = {x}
    BY <1>1, <1>6
  <2>2. Single(rest)
    <3> SUFFICES ASSUME NEW i \in 1 .. Len(rest) PROVE \E a \in Accounts : rest[i] = {a}
      BY DEF Single
    <3>1. i + 1 \in DOMAIN sg /\ rest[i] = sg[i + 1]
      BY <1>1
    <3> QED BY <1>6, <3>1
  <2>3. Rule(bidder, {x}, rest)
    BY <1>4, <1>6, <2>1
  <2>4. Loop(bidder, {x}, rest).ok
    BY <1>1, <2>2, <2>3, LoopComplete
  <2> QED BY <1>3, <2>1, <2>4 DEF s
<1> QED BY <1>5, <1>6 DEF v

-----------------------------------------------------------------------------
(* The payment *)

\* The state's types.
TypeInv ==
  /\ balances \in [Accounts -> Int]
  /\ params \in ParamValues
  /\ prevProposer \in SUBSET Accounts

\* What a transfer that succeeds does to the balances.
Transferred(bank, from, to, amount, new) ==
  /\ new \in [Accounts -> Int]
  /\ \A a \in Accounts :
       new[a] = bank[a] - (IF a = from THEN amount ELSE 0) + (IF a = to THEN amount ELSE 0)

\* The outcome of a transfer: it succeeds after transfers that have, and moves the amount.
Sent(bank, ok, from, to, amount, res) ==
  \E new, done : /\ res = [ok |-> done, bank |-> new]
                 /\ new \in [Accounts -> Int]
                 /\ done => ok /\ Transferred(bank, from, to, amount, new)

\* What SendBid returns.
LEMMA SendBidOk ==
  ASSUME NEW bank \in [Accounts -> Int], NEW ok, NEW from \in Accounts, NEW to \in Accounts,
         NEW amount \in Int, NEW run, run = [ok |-> ok, bank |-> bank],
         NEW res, res = SendBid(run, from, to, amount)
  PROVE  Sent(bank, ok, from, to, amount, res)
<1> DEFINE paid == [bank EXCEPT ![from] = @ - amount]
           new == SendCoins(bank, from, to, amount)
<1>1. Transferred(bank, from, to, amount, new)
  <2>1. paid \in [Accounts -> Int]
        /\ \A a \in Accounts : paid[a] = bank[a] - (IF a = from THEN amount ELSE 0)
    OBVIOUS
  <2>2. new = [paid EXCEPT ![to] = paid[to] + amount]
    BY DEF SendCoins
  <2> HIDE DEF new, paid
  <2>3. new \in [Accounts -> Int]
        /\ \A a \in Accounts : new[a] = paid[a] + (IF a = to THEN amount ELSE 0)
    BY <2>1, <2>2
  <2> QED BY <2>1, <2>3 DEF Transferred
<1>2. run.ok = ok /\ run.bank = bank
  OBVIOUS
<1> HIDE DEF new
<1>3. CASE run.ok /\ amount >= 0 /\ run.bank[from] >= amount
  <2>1. res = [ok |-> TRUE, bank |-> new]
    BY <1>2, <1>3 DEF SendBid, new
  <2> QED BY <1>1, <1>2, <1>3, <2>1 DEF Transferred, Sent
<1>4. CASE ~(run.ok /\ amount >= 0 /\ run.bank[from] >= amount)
  <2>1. res = [ok |-> FALSE, bank |-> bank]
    BY <1>2, <1>4 DEF SendBid
  <2> QED BY <2>1 DEF Sent
<1> QED BY <1>3, <1>4

\* The account that ExtractBid sends the proposer's part to.
RewardsTo == IF GetRewardsAddress = {} THEN params.escrow ELSE CHOOSE a \in GetRewardsAddress : TRUE

\* It is an account, and with the fixed provider the provider's, if that has one.
LEMMA RewardsAccount ==
  ASSUME TypeInv
  PROVE  /\ RewardsTo \in Accounts /\ params.escrow \in Accounts
         /\ Provider = "fixed" =>
              IF FixedAddress = {} THEN RewardsTo = params.escrow ELSE FixedAddress = {RewardsTo}
<1>1. params.escrow \in Accounts
  BY AuctionAssumptions DEF TypeInv
<1>2. CASE Provider = "fixed"
  <2>1. GetRewardsAddress = FixedAddress
    BY <1>2 DEF GetRewardsAddress
  <2>2. CASE FixedAddress = {}
    BY <1>1, <2>1, <2>2 DEF RewardsTo
  <2>3. CASE FixedAddress # {}
    <3>1. PICK a \in Accounts : FixedAddress = {a}
      BY <2>3, AuctionAssumptions
    <3>2. (CHOOSE y \in {a} : TRUE) = a
      OBVIOUS
    <3> QED BY <1>1, <2>1, <3>1, <3>2 DEF RewardsTo
  <2> QED BY <2>2, <2>3
<1>3. CASE Provider # "fixed"
  <2>1. \A v : AccAddressFromBech32(GetOperator(v)) = {}
    BY DEF AccAddressFromBech32, GetOperator
  <2>2. GetRewardsAddress = {}
    BY <1>3, <2>1 DEF GetRewardsAddress
  <2> QED BY <1>1, <1>3, <2>2 DEF RewardsTo
<1> QED BY <1>2, <1>3

\* The balances after a bid has been paid.
Settled(b, new) ==
  \A a \in Accounts :
    new[a] = balances[a]
      + (IF a = RewardsTo THEN ProposerPart(b.bid) ELSE 0)
      + (IF a = params.escrow THEN EscrowPart(b.bid) ELSE 0)
      - (IF a = b.bidder THEN b.bid ELSE 0)

\* The two parts are integers and make up the bid; without a fee the first is nothing.
LEMMA PartsOfBid ==
  ASSUME TypeInv, NEW b \in Bids
  PROVE  /\ b.bid \in Int /\ ProposerPart(b.bid) \in Int /\ EscrowPart(b.bid) \in Int
         /\ ProposerPart(b.bid) + EscrowPart(b.bid) = b.bid
         /\ params.proposerFee = 0 => ProposerPart(b.bid) = 0
<1>1. b.bid \in Nat /\ params.proposerFee \in Int
  BY AuctionAssumptions DEF TypeInv
<1> DEFINE m == b.bid * params.proposerFee
<1>2. m \in Int /\ (params.proposerFee = 0 => m = 0)
  BY <1>1
<1> HIDE DEF m
<1>3. m \div 100 \in Int /\ (m = 0 => m \div 100 = 0)
  BY <1>2
<1>4. ProposerPart(b.bid) = m \div 100
  BY DEF ProposerPart, m
<1> QED BY <1>1, <1>2, <1>3, <1>4 DEF EscrowPart

\* ExtractBid, when it succeeds.
LEMMA ExtractBidOk ==
  ASSUME TypeInv, NEW b \in Bids, NEW res, res = ExtractBid(b.bidder, b.bid), res.ok
  PROVE  res.bank \in [Accounts -> Int] /\ Settled(b, res.bank)
<1> DEFINE start == [ok |-> TRUE, bank |-> balances]
           escrow == params.escrow
           part == ProposerPart(b.bid)
           left == EscrowPart(b.bid)
           bid == b.bid
           from == b.bidder
           to == RewardsTo
           rewarded == SendBid(start, from, to, part)
<1>1. balances \in [Accounts -> Int] /\ from \in Accounts
  BY AuctionAssumptions DEF TypeInv
<1>2. to \in Accounts /\ escrow \in Accounts
  BY RewardsAccount
<1>3. bid \in Int /\ part \in Int /\ left \in Int /\ part + left = bid
      /\ (params.proposerFee = 0 => part = 0)
  BY PartsOfBid
<1>4. res = IF params.proposerFee = 0 THEN SendBid(start, from, escrow, bid)
            ELSE SendBid(rewarded, from, escrow, left)
  BY Zenon DEF ExtractBid, RewardsTo
<1>5. start = [ok |-> TRUE, bank |-> balances]
  OBVIOUS
<1>6. Settled(b, res.bank) <=>
        \A a \in Accounts : res.bank[a] = balances[a] + (IF a = to THEN part ELSE 0)
          + (IF a = escrow THEN left ELSE 0) - (IF a = from THEN bid ELSE 0)
  BY DEF Settled
<1> HIDE DEF start, escrow, part, left, bid, from, to
<1>7. CASE params.proposerFee = 0
  <2>1. res = SendBid(start, from, escrow, bid)
    BY <1>4, <1>7
  <2>2. Sent(balances, TRUE, from, escrow, bid, res)
    BY <1>1, <1>2, <1>3, <1>5, <2>1, SendBidOk
  <2>3. PICK new, done : /\ res = [ok |-> done, bank |-> new]
                         /\ new \in [Accounts -> Int]
                         /\ done => Transferred(balances, from, escrow, bid, new)
    BY <2>2 DEF Sent
  <2>4. res.bank = new /\ res.ok = done
    BY <2>3
  <2>5. Transferred(balances, from, escrow, bid, res.bank)
    BY <2>3, <2>4
  <2> QED BY <1>1, <1>2, <1>3, <1>6, <1>7, <2>5 DEF Transferred
<1>8. CASE params.proposerFee # 0
  <2>0. Sent(balances, TRUE, from, to, part, rewarded)
    BY <1>1, <1>2, <1>3, <1>5, SendBidOk
  <2>1. PICK mid, sent : /\ rewarded = [ok |-> sent, bank |-> mid]
                         /\ mid \in [Accounts -> Int]
                         /\ sent => Transferred(balances, from, to, part, mid)
    BY <2>0 DEF Sent
  <2>2. res = SendBid(rewarded, from, escrow, left)
    BY <1>4, <1>8
  <2> HIDE DEF rewarded
  <2>3. Sent(mid, sent, from, escrow, left, res)
    BY <1>1, <1>2, <1>3, <2>1, <2>2, SendBidOk
  <2>4. PICK new, done : /\ res = [ok |-> done, bank |-> new]
                         /\ new \in [Accounts -> Int]
                         /\ done => sent /\ Transferred(mid, from, escrow, left, new)
    BY <2>3 DEF Sent
  <2>5. res.bank = new /\ res.ok = done
    BY <2>4
  <2>6. Transferred(mid, from, escrow, left, new) /\ Transferred(balances, from, to, part, mid)
    BY <2>1, <2>4, <2>5
  <2>7. ASSUME NEW a \in Accounts
        PROVE  new[a] = balances[a] + (IF a = to THEN part ELSE 0)
                 + (IF a = escrow THEN left ELSE 0) - (IF a = from THEN bid ELSE 0)
    <3>1. /\ mid[a] = balances[a] - (IF a = from THEN part ELSE 0) + (IF a = to THEN part ELSE 0)
          /\ new[a] = mid[a] - (IF a = from THEN left ELSE 0) + (IF a = escrow THEN left ELSE 0)
          /\ mid[a] \in Int /\ new[a] \in Int /\ balances[a] \in Int
      BY <1>1, <2>6 DEF Transferred
    <3> QED BY <1>3, <3>1
  <2> QED BY <1>6, <2>4, <2>5, <2>7
<1> QED BY <1>7, <1>8

\* The state's types are kept.
LEMMA TypeAlways == Spec => []TypeInv
<1>1. Init => TypeInv
  <2> SUFFICES ASSUME Init PROVE TypeInv
    OBVIOUS
  <2>1. balances \in [Accounts -> Int]
    BY AuctionAssumptions DEF Init
  <2> QED BY <2>1 DEF Init, TypeInv
<1>2. TypeInv /\ [Next]_vars => TypeInv'
  <2> SUFFICES ASSUME TypeInv, [Next]_vars PROVE TypeInv'
    OBVIOUS
  <2>1. ASSUME NEW b \in Bids, NEW top \in TopBids \cup {NoTopBid}, AuctionBid(b, top)
        PROVE  TypeInv'
    <3>1. ExtractBid(b.bidder, b.bid).bank \in [Accounts -> Int]
      BY <2>1, ExtractBidOk DEF AuctionBid
    <3> QED BY <2>1, <3>1 DEF AuctionBid, TypeInv
  <2>2. ASSUME NEW signer \in Accounts, NEW p \in ParamValues, UpdateParams(signer, p)
        PROVE  TypeInv'
    BY <2>2 DEF UpdateParams, TypeInv
  <2>3. ASSUME NEW v \in Validators, NextBlock(v) PROVE TypeInv'
    BY <2>3, AuctionAssumptions DEF NextBlock, TypeInv
  <2>4. CASE UNCHANGED vars
    BY <2>4 DEF vars, TypeInv
  <2> QED BY <2>1, <2>2, <2>3, <2>4 DEF Next
<1> QED BY <1>1, <1>2, PTL DEF Spec

\* With front-running protection ValidateAuctionBundle accepts the bundles its comment
\* describes and no others, if each transaction has one signer, and whatever the
\* signers none that is not of that form.
THEOREM BundleMatchesRuleThm ==
  ASSUME FirstSigned
  PROVE  Spec => []BundleMatchesRule
<1>1. BundleMatchesRule
  <2> SUFFICES ASSUME NEW b \in Bids, Len(b.signers) > 1
               PROVE  LET ok == ValidateAuctionBundle(b.bidder, b.signers).ok
                      IN  /\ ok => OneSignerThenBidder(b.bidder, b.signers)
                          /\ (\A i \in DOMAIN b.signers : \E a \in Accounts : b.signers[i] = {a}) =>
                               (OneSignerThenBidder(b.bidder, b.signers) => ok)
    BY Zenon DEF BundleMatchesRule
  <2>1. b.signers \in Seq(SUBSET Accounts) /\ b.signers[1] # {}
    BY AuctionAssumptions DEF FirstSigned
  <2> QED BY <2>1, BundleRule
<1> QED BY <1>1, PTL

\* With a fixed rewards address an accepted bid costs the bidder the whole bid, of which
\* that address gets the proposer's fee, rounded down, and the escrow account the rest;
\* the other balances stay.  (The other provider never yields an address.)
THEOREM BidSplitThm ==
  ASSUME Provider = "fixed"
  PROVE  Spec => BidSplit
<1> DEFINE Split == \A b \in Bids : Paid(b) =>
             \A a \in Accounts :
               balances'[a] = balances[a] + Gain(a, b) - (IF a = b.bidder THEN b.bid ELSE 0)
<1>1. TypeInv /\ [Next]_vars => [Split]_vars
  <2> SUFFICES ASSUME TypeInv, NEW b \in Bids, Paid(b), NEW a \in Accounts
               PROVE  balances'[a] = balances[a] + Gain(a, b) - (IF a = b.bidder THEN b.bid ELSE 0)
    OBVIOUS
  <2> DEFINE part == ProposerPart(b.bid)
             left == EscrowPart(b.bid)
             bid == b.bid
             bidder == b.bidder
             escrow == params.escrow
             new == balances'
  <2>1. Settled(b, balances')
    BY ExtractBidOk DEF Paid, AuctionBid
  <2>2. balances'[a] = balances[a] + (IF a = RewardsTo THEN part ELSE 0)
          + (IF a = escrow THEN left ELSE 0) - (IF a = bidder THEN bid ELSE 0)
    BY <2>1 DEF Settled
  <2>3. bid \in Int /\ part \in Int /\ left \in Int /\ part + left = bid
    BY PartsOfBid
  <2>4. IF FixedAddress = {} THEN RewardsTo = escrow ELSE FixedAddress = {RewardsTo}
    BY RewardsAccount
  <2>5. Gain(a, b) = (IF a \in FixedAddress THEN part ELSE 0) +
          (IF a = escrow THEN bid - (IF FixedAddress = {} THEN 0 ELSE part) ELSE 0)
    BY DEF Gain, Rewarded
  <2>6. balances[a] \in Int
    BY DEF TypeInv
  <2> HIDE DEF part, left, bid, bidder, escrow
  <2>7. CASE FixedAddress = {}
    <3>1. Gain(a, b) = IF a = escrow THEN bid ELSE 0
      BY <2>3, <2>5, <2>7
    <3> QED BY <2>2, <2>3, <2>4, <2>6, <2>7, <3>1 DEF bidder, bid
  <2>8. CASE FixedAddress # {}
    <3>1. Gain(a, b) = (IF a = RewardsTo THEN part ELSE 0) + (IF a = escrow THEN left ELSE 0)
      BY <2>3, <2>4, <2>5, <2>8
    <3> QED BY <2>2, <2>3, <2>6, <3>1 DEF bidder, bid
  <2> QED BY <2>7, <2>8
<1> QED BY <1>1, TypeAlways, PTL DEF Spec, BidSplit

\* Of the first transaction's signers ValidateAuctionBundle leaves the bidder out only if
\* another account signed the whole bundle and the bidder did not.
LEMMA FirstEscapes ==
  ASSUME NEW b \in Bids, Len(b.signers) >= 1, b.bidder \in b.signers[1],
         ValidateAuctionBundle(b.bidder, b.signers).ok,
         b.bidder \notin ValidateAuctionBundle(b.bidder, b.signers).first
  PROVE  /\ \E a \in Accounts \ {b.bidder} : \A j \in DOMAIN b.signers : a \in b.signers[j]
         /\ \E j \in DOMAIN b.signers : b.bidder \notin b.signers[j]
<1> DEFINE bidder == b.bidder
           sg == b.signers
           v == ValidateAuctionBundle(bidder, sg)
<1>1. sg \in Seq(SUBSET Accounts) /\ Len(sg) \in Nat
  BY AuctionAssumptions
<1>2. CASE Len(sg) <= 1
  <2>1. sg # <<>>
    BY <1>1
  <2>2. v = [ok |-> TRUE, first |-> sg[1]]
    BY <1>2, <2>1 DEF ValidateAuctionBundle
  <2>3. bidder \notin v.first /\ bidder \in sg[1]
    OBVIOUS
  <2> HIDE DEF v, sg
  <2> QED BY <2>2, <2>3
<1>3. CASE Len(sg) > 1
  <2> DEFINE rest == Tail(sg)
             s == Loop(bidder, sg[1], rest)
  <2>1. /\ sg[1] \in SUBSET Accounts /\ rest \in Seq(SUBSET Accounts)
        /\ Len(rest) = Len(sg) - 1 /\ DOMAIN sg = 1 .. Len(sg)
        /\ \A i \in 1 .. Len(rest) : rest[i] = sg[i + 1]
    BY <1>1, <1>3
  <2>2. v = [ok |-> s.ok, first |-> s.first]
    BY <1>3, BundleIsLoop
  <2>3. v.ok /\ bidder \notin v.first /\ bidder \in sg[1]
    OBVIOUS
  <2> HIDE DEF v, s, rest, sg, bidder
  <2>4. s.ok /\ bidder \notin s.first
    BY <2>2, <2>3
  <2>5. Shared(bidder, sg[1], rest, s.first)
    BY <2>1, <2>3, <2>4, LoopFirst DEF s
  <2>6. PICK a : a \in s.first /\ a # bidder
    BY <2>4, <2>5 DEF Shared
  <2>7. a \in sg[1] /\ \A i \in 1 .. Len(rest) : a \in rest[i]
    BY <2>5, <2>6 DEF Shared
  <2>8. ASSUME NEW j \in DOMAIN sg PROVE a \in sg[j]
    <3>1. CASE j = 1
      BY <2>7, <3>1
    <3>2. CASE j # 1
      <4>1. j - 1 \in 1 .. Len(rest) /\ j - 1 + 1 = j
        BY <1>1, <2>1, <3>2
      <4> QED BY <2>1, <2>7, <4>1
    <3> QED BY <3>1, <3>2
  <2>9. PICK i \in 1 .. Len(rest) : bidder \notin rest[i]
    BY <2>4, <2>5 DEF Shared
  <2>10. i + 1 \in DOMAIN sg /\ bidder \notin sg[i + 1]
    BY <1>1, <2>1, <2>9
  <2>11. a \in Accounts \ {bidder}
    BY <2>1, <2>6, <2>7
  <2> QED BY <2>8, <2>10, <2>11 DEF bidder, sg
<1> QED BY <1>1, <1>2, <1>3

\* Whatever the bundle and the parameters, the bidder's transactions in an accepted bid
\* have the bid's timeout, with the one exception that the map shared with
\* ValidateAuctionBundle makes (auction.go:135-204): the first one, if another account
\* signed the whole bundle and the bidder did not.
THEOREM OnlySharedFirstEscapesThm == Spec => OnlySharedFirstEscapes
<1> DEFINE Escape(b, i) ==
             /\ i = 1 /\ params.frontRunningProtection
             /\ \E a \in Accounts \ {b.bidder} : \A j \in DOMAIN b.signers : a \in b.signers[j]
             /\ \E j \in DOMAIN b.signers : b.bidder \notin b.signers[j]
           Only == \A b \in Bids : Paid(b) =>
             \A i \in DOMAIN b.signers :
               b.bidder \in b.signers[i] /\ b.timeouts[i] # b.timeout => Escape(b, i)
<1>1. [Next]_vars => [Only]_vars
  <2> SUFFICES ASSUME NEW b \in Bids, Paid(b), NEW i \in DOMAIN b.signers,
                      b.bidder \in b.signers[i], b.timeouts[i] # b.timeout
               PROVE  Escape(b, i)
    OBVIOUS
  <2> DEFINE bundle == ValidateAuctionBundle(b.bidder, b.signers)
             left == [j \in DOMAIN b.signers |->
                        IF j = 1 /\ params.frontRunningProtection THEN bundle.first ELSE b.signers[j]]
  <2>1. ValidateBundle(b)
    BY DEF Paid, AuctionBid
  <2>2. (params.frontRunningProtection => bundle.ok) /\ ValidateBundleTimeouts(b, left)
    BY <2>1 DEF ValidateBundle
  <2>3. i \in DOMAIN b.timeouts /\ i \in Nat /\ Len(b.signers) >= 1
    <3>1. b.signers \in Seq(SUBSET Accounts) /\ b.timeouts \in Seq(Nat)
          /\ Len(b.signers) = Len(b.timeouts)
      BY AuctionAssumptions
    <3> QED BY <3>1
  <2>4. left[i] = IF i = 1 /\ params.frontRunningProtection THEN bundle.first ELSE b.signers[i]
    OBVIOUS
  <2>5. b.bidder \notin left[i]
    <3> HIDE DEF left
    <3> QED BY <2>2, <2>3 DEF ValidateBundleTimeouts
  <2>6. i = 1 /\ params.frontRunningProtection /\ b.bidder \notin bundle.first
    <3> HIDE DEF bundle, left
    <3> QED BY <2>4, <2>5
  <2>7. bundle.ok
    BY <2>2, <2>6
  <2> HIDE DEF left
  <2>8. /\ \E a \in Accounts \ {b.bidder} : \A j \in DOMAIN b.signers : a \in b.signers[j]
        /\ \E j \in DOMAIN b.signers : b.bidder \notin b.signers[j]
    BY <2>3, <2>6, <2>7, FirstEscapes
  <2> QED BY <2>6, <2>8
<1> QED BY <1>1, PTL DEF Spec, OnlySharedFirstEscapes
=============================================================================
