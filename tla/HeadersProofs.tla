---------------------------- MODULE HeadersProofs ----------------------------
(***************************************************************************)
(* What verification guarantees of the chain, for every validator set,     *)
(* every block period and clock tolerance, and every list of seals that a  *)
(* peer may send; and that what validators accept, seal and prepare passes *)
(* the same verification, unless a seal or a vote is not signed by whom it *)
(* should be.                                                              *)
(***************************************************************************)
EXTENDS Headers, FiniteSetTheorems, TLAPS

-----------------------------------------------------------------------------
(* The validator set. *)

LEMMA SizeFacts ==
    Size \in Nat /\ Size > 0 /\ DOMAIN ValList = 1 .. Size
BY ValListAssumption DEF Size

LEMMA ValidatorsCardinality ==
    IsFiniteSet(Validators) /\ Cardinality(Validators) = Size
<1>1. IsFiniteSet(1 .. Size) /\ Cardinality(1 .. Size) = Size
  BY SizeFacts, FS_Interval
<1> DEFINE f == [i \in 1 .. Size |-> ValList[i]]
<1>2. f \in Surjection(1 .. Size, Validators)
  BY SizeFacts DEF Surjection, Validators
<1>3. f \in Injection(1 .. Size, Validators)
  <2>1. f \in [1 .. Size -> Validators]
    BY SizeFacts DEF Validators
  <2>2. \A i, j \in 1 .. Size : f[i] = f[j] => i = j
    BY SizeFacts, ValListAssumption
  <2> QED BY <2>1, <2>2 DEF Injection, IsInjective
<1>4. f \in Bijection(1 .. Size, Validators)
  BY <1>2, <1>3 DEF Bijection
<1>5. ExistsBijection(1 .. Size, Validators)
  BY <1>4 DEF ExistsBijection
<1> QED BY <1>1, <1>5, FS_Bijection

LEMMA FaultTolerantNumFacts ==
    ASSUME NEW n \in Nat, n > 0
    PROVE  /\ FaultTolerantNum(n) \in Nat
           /\ 3 * FaultTolerantNum(n) < n /\ n <= 3 * FaultTolerantNum(n) + 3
BY DEF FaultTolerantNum

LEMMA SubsetOfValidators ==
    ASSUME NEW Q \in SUBSET Validators
    PROVE  IsFiniteSet(Q) /\ Cardinality(Q) \in Nat /\ Cardinality(Q) <= Size
BY ValidatorsCardinality, FS_Subset, FS_CardinalityType

-----------------------------------------------------------------------------
(* The rules. *)

SealSet == {Seal(v, own) : v \in Signers, own \in BOOLEAN}

SignerIds == Signers \cup {NoValidator}

\* Headers of any height and time.
AnyHeader ==
    [height : Nat, parent : {<<>>} \cup (Nat \X Nat \X SignerIds \X BOOLEAN), time : Nat,
     signer : SignerIds, voteSigned : BOOLEAN, seals : Seq(SealSet)]

\* What a header that passes verifyHeader, but for its seals, has to do with
\* its parent and the clock.
LEMMA AcceptedFacts ==
    ASSUME NEW t, NEW parent, NEW h, Verify(t, parent, h)
    PROVE  /\ h.height = parent.height + 1 /\ h.parent = Hash(parent)
           /\ ~(parent.time + BlockPeriod > h.time) /\ ~(h.time > t + FaultTolerantTime)
           /\ h.signer \in Validators
BY DEF Verify, verifyHeader, verifyCascadingFields, verifySigner, verifyCommittedSeals

LEMMA InsertedFacts ==
    ASSUME NEW t, NEW parent, NEW h, verifyHeader(t, parent, h) = "nil"
    PROVE  /\ Verify(t, parent, h)
           /\ h.voteSigned /\ SealsValid(h.seals) /\ EnoughSeals(Len(h.seals))
BY DEF Verify, verifyHeader, verifyCascadingFields, verifySigner, verifyCommittedSeals

\* Valid seals are as many different validators as there are seals.
LEMMA ValidSealsDiffer ==
    ASSUME NEW h \in AnyHeader, SealsValid(h.seals)
    PROVE  Cardinality(Sealers(h)) = Len(h.seals)
<1> DEFINE num == Len(h.seals)
           f == [i \in 1 .. num |-> h.seals[i].by]
<1>1. h.seals \in Seq(SealSet) /\ num \in Nat /\ DOMAIN h.seals = 1 .. num
  BY DEF AnyHeader
<1>2. \A i \in 1 .. num : h.seals[i].own /\ h.seals[i].by \in Validators
  BY <1>1 DEF SealsValid
<1>3. \A i \in 1 .. num : \A j \in 1 .. i - 1 : h.seals[i].by # h.seals[j].by
  BY <1>1 DEF SealsValid
<1>4. f \in [1 .. num -> Sealers(h)]
  BY <1>1, <1>2 DEF Sealers
<1>5. \A x \in Sealers(h) : \E i \in 1 .. num : f[i] = x
  BY <1>1 DEF Sealers
<1>6. \A i, j \in 1 .. num : f[i] = f[j] => i = j
  <2> SUFFICES ASSUME NEW i \in 1 .. num, NEW j \in 1 .. num, f[i] = f[j], i # j PROVE FALSE
    OBVIOUS
  <2>1. CASE i < j
    <3>1. i \in 1 .. j - 1
      BY <1>1, <2>1
    <3> QED
      BY <1>3, <3>1
  <2>2. CASE j < i
    <3>1. j \in 1 .. i - 1
      BY <1>1, <2>2
    <3> QED
      BY <1>3, <3>1
  <2> QED
    BY <1>1, <2>1, <2>2
<1>7. f \in Bijection(1 .. num, Sealers(h))
  BY <1>4, <1>5, <1>6 DEF Bijection, Injection, Surjection, IsInjective
<1>8. ExistsBijection(1 .. num, Sealers(h))
  BY <1>7 DEF ExistsBijection
<1> HIDE DEF num, f
<1>9. IsFiniteSet(1 .. num) /\ Cardinality(1 .. num) = num
  BY <1>1, FS_Interval
<1>10. Cardinality(Sealers(h)) = num
  BY <1>8, <1>9, FS_Bijection
<1> QED
  BY <1>10 DEF num

\* Of a list of seals, whether one is of something else.
OneWrong(seals) == \E i \in DOMAIN seals : ~seals[i].own

\* The seals of a quorum are enough, and valid if none is of something else.
LEMMA QuorumSealsVerify ==
    ASSUME NEW Q \in SUBSET Validators, IsQuorum(Q), NEW Good
    PROVE  LET seals == SealsOf(Q, Good)
           IN /\ seals \in Seq(SealSet)
              /\ seals # <<>>
              /\ SealsValid(seals) <=> ~OneWrong(seals)
              /\ EnoughSeals(Len(seals))
<1> DEFINE seals == SealsOf(Q, Good)
           num == Cardinality(Q)
           order == CHOOSE o \in Bijection(1 .. num, Q) : TRUE
<1>1. IsFiniteSet(Q) /\ num \in Nat
  BY SubsetOfValidators
<1>2. order \in Bijection(1 .. num, Q)
  <2>1. ExistsBijection(1 .. num, Q)
    BY <1>1, FS_CountingElements, FS_NatBijection
  <2> QED
    BY <2>1 DEF ExistsBijection
<1>3. seals = [i \in 1 .. num |-> Seal(order[i], order[i] \in Good)]
  BY DEF SealsOf
<1>4. FaultTolerantNum(Size) \in Nat /\ 3 * FaultTolerantNum(Size) < Size
  BY SizeFacts, FaultTolerantNumFacts
<1>5. num > 2 * FaultTolerantNum(Size)
  BY <1>1, <1>4, SizeFacts DEF IsQuorum, reachThreshold
<1> HIDE DEF num, order, seals
<1>6. /\ \A i \in 1 .. num : order[i] \in Q
      /\ \A i, j \in 1 .. num : order[i] = order[j] => i = j
  BY <1>2 DEF Bijection, Injection, IsInjective
<1>7. \A i \in 1 .. num : seals[i].by = order[i]
  <2>1. \A v, own : Seal(v, own).by = v
    BY DEF Seal
  <2> QED
    BY <1>3, <2>1
<1>8. DOMAIN seals = 1 .. num
  BY <1>3
<1>9. seals \in [1 .. num -> SealSet]
  <2>1. ASSUME NEW i \in 1 .. num PROVE Seal(order[i], order[i] \in Good) \in SealSet
    <3>1. order[i] \in Signers /\ (order[i] \in Good) \in BOOLEAN
      BY <1>6 DEF Signers
    <3>2. \A v \in Signers, own \in BOOLEAN : Seal(v, own) \in SealSet
      BY DEF SealSet, Seal
    <3> QED
      BY <3>1, <3>2
  <2> QED
    BY <1>3, <2>1
<1>10. seals \in Seq(SealSet) /\ Len(seals) = num
  BY <1>1, <1>9
<1>11. SealsValid(seals) <=> ~OneWrong(seals)
  <2>1. ASSUME NEW i \in 1 .. num
        PROVE  seals[i].by \in Validators \ {seals[j].by : j \in 1 .. i - 1}
    <3>1. ASSUME NEW j \in 1 .. i - 1 PROVE seals[j].by # order[i]
      <4>1. j \in 1 .. num /\ j # i
        BY <1>1
      <4> QED
        BY <1>6, <1>7, <4>1
    <3> QED
      BY <1>6, <1>7, <3>1
  <2> QED
    BY <1>8, <2>1 DEF SealsValid, OneWrong
<1>12. EnoughSeals(Len(seals))
  BY <1>5, <1>10 DEF EnoughSeals
<1>13. seals # <<>>
  BY <1>1, <1>4, <1>5, <1>10
<1> QED
  BY <1>10, <1>11, <1>12, <1>13 DEF seals

-----------------------------------------------------------------------------
(* The chain. *)

\* The chain is a sequence of linked headers, each a block period after the one
\* before it, signed and sealed.
ChainInv ==
    /\ chain \in Seq(AnyHeader) /\ Len(chain) \in 1 .. MaxHeight + 1
    /\ now \in 0 .. MaxTime
    /\ chain[1] = Genesis
    /\ \A i \in 1 .. Len(chain) :
          chain[i].height = i - 1 /\ chain[i].time <= MaxTime + FaultTolerantTime
    /\ \A i \in 2 .. Len(chain) :
          /\ chain[i].parent = Hash(chain[i - 1])
          /\ Cardinality(Sealers(chain[i])) > 2 * FaultTolerantNum(Size)
          /\ chain[i].time >= chain[i - 1].time + BlockPeriod
          /\ chain[i].signer \in Validators /\ chain[i].voteSigned

\* What verification told of a header when it was the proposal: it is on top of
\* some header of the chain, which need not be the last one any more.
Accepted(h) ==
    /\ h.signer \in Validators
    /\ h.time <= now + FaultTolerantTime
    /\ \E i \in 1 .. Len(chain) : /\ h.parent = Hash(chain[i])
                                  /\ h.height = chain[i].height + 1
                                  /\ h.time >= chain[i].time + BlockPeriod

HeadersInv ==
    /\ ChainInv
    /\ proposal \in AnyHeader /\ (proposal # Genesis => Accepted(proposal))
    /\ block \in AnyHeader
    /\ block # Genesis => /\ Accepted(block)
                          /\ block.seals # <<>>
                          /\ SealsValid(block.seals) <=> ~OneWrong(block.seals)
                          /\ EnoughSeals(Len(block.seals))

LEMMA GenesisTyped == Genesis \in AnyHeader
<1>1. <<>> \in Seq(SealSet)
  OBVIOUS
<1> QED
  BY <1>1 DEF Genesis, AnyHeader, SignerIds

LEMMA CurrentFacts ==
    ASSUME ChainInv
    PROVE  /\ Len(chain) \in 1 .. Len(chain) /\ CurrentHeader = chain[Len(chain)]
           /\ CurrentHeader \in AnyHeader
           /\ CurrentHeader.height = Len(chain) - 1
           /\ Len(chain) \in Nat
<1>1. Len(chain) \in 1 .. Len(chain) /\ Len(chain) \in Nat
  BY HeadersAssumption DEF ChainInv
<1> QED
  BY <1>1 DEF ChainInv, CurrentHeader

LEMMA HashTyped ==
    ASSUME NEW h \in AnyHeader
    PROVE  Hash(h) \in Nat \X Nat \X SignerIds \X BOOLEAN
BY DEF Hash, AnyHeader

\* The headers that nodes make are headers.
LEMMA HeaderOnTyped ==
    ASSUME ChainInv, NEW time \in Nat, NEW signer \in Signers, NEW voteSigned \in BOOLEAN,
           NEW seals \in Seq(SealSet)
    PROVE  HeaderOn(CurrentHeader, time, signer, voteSigned, seals) \in AnyHeader
<1>1. CurrentHeader.height + 1 \in Nat
  BY CurrentFacts DEF AnyHeader
<1>2. Hash(CurrentHeader) \in Nat \X Nat \X SignerIds \X BOOLEAN
  BY CurrentFacts, HashTyped
<1> QED
  BY <1>1, <1>2 DEF HeaderOn, AnyHeader, SignerIds

LEMMA PeerHeadersTyped ==
    ASSUME ChainInv, NEW lists \in SUBSET Seq(SealSet), NEW h \in PeerHeaders(lists)
    PROVE  h \in AnyHeader
<1>1. PICK time \in 0 .. MaxTime, signer \in Signers, voteSigned \in BOOLEAN, seals \in lists :
         h = HeaderOn(CurrentHeader, time, signer, voteSigned, seals)
  BY DEF PeerHeaders
<1>2. time \in Nat /\ seals \in Seq(SealSet)
  BY HeadersAssumption
<1> QED
  BY <1>1, <1>2, HeaderOnTyped

LEMMA SealListsTyped == SealLists(MaxSeals) \in SUBSET Seq(SealSet)
<1>1. PeerSeals \subseteq SealSet
  <2>1. \A v \in Signers, own \in BOOLEAN : Seal(v, own) \in SealSet
    BY DEF SealSet
  <2>2. Faulty \subseteq Signers
    BY HeadersAssumption DEF Signers
  <2> QED
    BY <2>1, <2>2 DEF PeerSeals
<1>2. \A k \in 0 .. MaxSeals : [1 .. k -> PeerSeals] \subseteq Seq(SealSet)
  <2> SUFFICES ASSUME NEW k \in 0 .. MaxSeals, NEW f \in [1 .. k -> PeerSeals]
               PROVE  f \in Seq(SealSet)
    OBVIOUS
  <2>1. k \in Nat
    BY HeadersAssumption
  <2>2. f \in [1 .. k -> SealSet]
    BY <1>1
  <2> QED
    BY <2>1, <2>2
<1> QED
  BY <1>2 DEF SealLists

LEMMA PreparedTyped ==
    ASSUME ChainInv, NEW v \in Validators
    PROVE  Prepare(v) \in AnyHeader
<1>1. PreparedTime(CurrentHeader) \in Nat
  BY CurrentFacts, TimeAssumption, HeadersAssumption DEF PreparedTime, ChainInv, AnyHeader
<1>2. v \in Signers /\ <<>> \in Seq(SealSet)
  BY DEF Signers
<1> QED
  BY <1>1, <1>2, HeaderOnTyped DEF Prepare

LEMMA HeadersInit == Init => HeadersInv
<1> SUFFICES ASSUME Init PROVE HeadersInv
  OBVIOUS
<1>1. chain \in Seq(AnyHeader) /\ Len(chain) = 1 /\ chain[1] = Genesis
  BY GenesisTyped DEF Init
<1>2. Genesis.height = 0 /\ Genesis.time = 0
  BY DEF Genesis
<1>3. now \in 0 .. MaxTime /\ Len(chain) \in 1 .. MaxHeight + 1
  BY <1>1, HeadersAssumption DEF Init
<1>4. 0 <= MaxTime + FaultTolerantTime
  BY HeadersAssumption, TimeAssumption
<1>5. ChainInv
  BY <1>1, <1>2, <1>3, <1>4 DEF ChainInv
<1> QED
  BY <1>5, GenesisTyped DEF Init, HeadersInv

\* A verified proposal follows the current header.
LEMMA VerifiedAccepted ==
    ASSUME ChainInv, NEW h \in AnyHeader, Verify(now, CurrentHeader, h)
    PROVE  Accepted(h)
<1>1. /\ h.height = CurrentHeader.height + 1 /\ h.parent = Hash(CurrentHeader)
      /\ ~(CurrentHeader.time + BlockPeriod > h.time) /\ ~(h.time > now + FaultTolerantTime)
      /\ h.signer \in Validators
  BY AcceptedFacts
<1>2. h.time \in Nat /\ CurrentHeader.time \in Nat /\ now \in Nat
  BY CurrentFacts, HeadersAssumption DEF AnyHeader, ChainInv
<1>3. h.time >= CurrentHeader.time + BlockPeriod /\ h.time <= now + FaultTolerantTime
  BY <1>1, <1>2, TimeAssumption
<1> QED
  BY <1>1, <1>3, CurrentFacts DEF Accepted

\* Acceptance outlasts the growth of the chain and the clock.
LEMMA AcceptedStays ==
    ASSUME ChainInv, ChainInv', NEW h \in AnyHeader, Accepted(h), now' >= now,
           Len(chain') >= Len(chain), \A i \in 1 .. Len(chain) : chain'[i] = chain[i]
    PROVE  Accepted(h)'
<1>1. PICK i \in 1 .. Len(chain) : /\ h.parent = Hash(chain[i])
                                   /\ h.height = chain[i].height + 1
                                   /\ h.time >= chain[i].time + BlockPeriod
  BY DEF Accepted
<1>2. Len(chain) \in Nat /\ Len(chain') \in Nat
  BY HeadersAssumption DEF ChainInv
<1>3. i \in 1 .. Len(chain') /\ chain'[i] = chain[i]
  BY <1>2
<1>4. h.time <= now' + FaultTolerantTime
  BY HeadersAssumption, TimeAssumption DEF Accepted, ChainInv, AnyHeader
<1> QED
  BY <1>1, <1>3, <1>4 DEF Accepted

\* Inserting a verified header.
LEMMA InsertKeeps ==
    ASSUME HeadersInv, NEW h \in AnyHeader, Insert(h)
    PROVE  HeadersInv'
<1>0. ChainInv /\ Len(chain) \in Nat
  BY CurrentFacts DEF HeadersInv
<1>1. /\ chain' = Append(chain, h) /\ now' = now /\ proposal' = proposal /\ block' = block
      /\ Len(chain) <= MaxHeight /\ verifyHeader(now, CurrentHeader, h) = "nil"
  BY DEF Insert
<1>2. /\ chain' \in Seq(AnyHeader) /\ Len(chain') = Len(chain) + 1
      /\ \A i \in 1 .. Len(chain) : chain'[i] = chain[i]
      /\ chain'[Len(chain) + 1] = h
  BY <1>0, <1>1 DEF ChainInv
<1>3. /\ h.height = CurrentHeader.height + 1 /\ h.parent = Hash(CurrentHeader)
      /\ ~(CurrentHeader.time + BlockPeriod > h.time) /\ ~(h.time > now + FaultTolerantTime)
      /\ h.signer \in Validators
      /\ h.voteSigned /\ SealsValid(h.seals) /\ EnoughSeals(Len(h.seals))
  BY <1>1, AcceptedFacts, InsertedFacts
<1>4. h.time \in Nat /\ CurrentHeader.time \in Nat /\ now \in 0 .. MaxTime
  BY <1>0, CurrentFacts DEF AnyHeader, ChainInv
<1>5. h.time >= CurrentHeader.time + BlockPeriod /\ h.time <= MaxTime + FaultTolerantTime
  BY <1>3, <1>4, TimeAssumption, HeadersAssumption
<1>6. Cardinality(Sealers(h)) > 2 * FaultTolerantNum(Size)
  BY <1>3, ValidSealsDiffer DEF EnoughSeals
<1>7. h.height = Len(chain) /\ chain[Len(chain)] = CurrentHeader
  BY <1>0, <1>3, CurrentFacts
<1>8. ChainInv'
  <2>1. Len(chain') \in 1 .. MaxHeight + 1 /\ chain'[1] = Genesis /\ now' \in 0 .. MaxTime
    BY <1>0, <1>1, <1>2, HeadersAssumption DEF ChainInv
  <2>2. ASSUME NEW i \in 1 .. Len(chain')
        PROVE  chain'[i].height = i - 1 /\ chain'[i].time <= MaxTime + FaultTolerantTime
    <3>1. CASE i \in 1 .. Len(chain)
      BY <1>0, <1>2, <3>1 DEF ChainInv
    <3>2. CASE i = Len(chain) + 1
      BY <1>0, <1>2, <1>5, <1>7, <3>2
    <3> QED
      BY <1>0, <1>2, <3>1, <3>2
  <2>3. ASSUME NEW i \in 2 .. Len(chain')
        PROVE  /\ chain'[i].parent = Hash(chain'[i - 1])
               /\ Cardinality(Sealers(chain'[i])) > 2 * FaultTolerantNum(Size)
               /\ chain'[i].time >= chain'[i - 1].time + BlockPeriod
               /\ chain'[i].signer \in Validators /\ chain'[i].voteSigned
    <3>1. CASE i \in 2 .. Len(chain)
      <4>1. chain'[i] = chain[i] /\ chain'[i - 1] = chain[i - 1]
        BY <1>0, <1>2, <3>1
      <4> QED
        BY <3>1, <4>1 DEF HeadersInv, ChainInv
    <3>2. CASE i = Len(chain) + 1
      <4>1. chain'[i] = h /\ chain'[i - 1] = CurrentHeader
        BY <1>0, <1>2, <1>7, <3>2, CurrentFacts
      <4> QED
        BY <1>3, <1>5, <1>6, <4>1
    <3> QED
      BY <1>0, <1>2, <3>1, <3>2
  <2> QED
    BY <1>2, <2>1, <2>2, <2>3 DEF ChainInv, Sealers
<1>9. /\ now' >= now /\ Len(chain') >= Len(chain)
      /\ \A g \in AnyHeader : Accepted(g) => Accepted(g)'
  <2>1. now' >= now /\ Len(chain') >= Len(chain)
    BY <1>0, <1>1, <1>2, <1>4, HeadersAssumption
  <2> QED
    BY <1>0, <1>2, <1>8, <2>1, AcceptedStays
<1> QED
  BY <1>1, <1>8, <1>9 DEF HeadersInv, Genesis

LEMMA ProposeKeeps ==
    ASSUME HeadersInv, NEW h \in AnyHeader, Propose(h)
    PROVE  HeadersInv'
<1>1. /\ Verify(now, CurrentHeader, h) /\ proposal' = h
      /\ chain' = chain /\ now' = now /\ block' = block
  BY DEF Propose
<1>2. Accepted(h)
  BY <1>1, VerifiedAccepted DEF HeadersInv
<1>3. ChainInv'
  BY <1>1 DEF HeadersInv, ChainInv
<1>4. Accepted(proposal)' /\ (Accepted(block) => Accepted(block)')
  BY <1>1, <1>2 DEF Accepted
<1> QED
  BY <1>1, <1>3, <1>4 DEF HeadersInv, Genesis

LEMMA CommitKeeps ==
    ASSUME HeadersInv, NEW Q \in SUBSET Validators, NEW Good, Commit(Q, Good)
    PROVE  HeadersInv'
<1> DEFINE seals == SealsOf(Q, Good)
<1>1. /\ proposal # Genesis /\ IsQuorum(Q) /\ block' = [proposal EXCEPT !.seals = seals]
      /\ chain' = chain /\ now' = now /\ proposal' = proposal
  BY DEF Commit
<1>2. /\ seals \in Seq(SealSet) /\ seals # <<>>
      /\ SealsValid(seals) <=> ~OneWrong(seals)
      /\ EnoughSeals(Len(seals))
  BY <1>1, QuorumSealsVerify
<1> HIDE DEF seals
<1>3. proposal \in AnyHeader /\ Accepted(proposal)
  BY <1>1 DEF HeadersInv
<1>4. /\ block' \in AnyHeader /\ block'.seals = seals
      /\ block'.height = proposal.height /\ block'.parent = proposal.parent
      /\ block'.time = proposal.time /\ block'.signer = proposal.signer
  BY <1>1, <1>2, <1>3 DEF AnyHeader
<1>5. Accepted(block)' /\ Accepted(proposal)'
  BY <1>1, <1>3, <1>4 DEF Accepted
<1>6. ChainInv'
  BY <1>1 DEF HeadersInv, ChainInv
<1>7. /\ block'.seals # <<>> /\ EnoughSeals(Len(block'.seals))
      /\ SealsValid(block'.seals) <=> ~OneWrong(block'.seals)
  BY <1>2, <1>4
<1>8. /\ (SealsValid(block.seals) <=> ~OneWrong(block.seals))'
      /\ EnoughSeals(Len(block.seals))'
  BY <1>7 DEF SealsValid, OneWrong, EnoughSeals
<1> QED
  BY <1>1, <1>3, <1>4, <1>5, <1>6, <1>7, <1>8 DEF HeadersInv

LEMMA HeadersStep == HeadersInv /\ [Next]_vars => HeadersInv'
<1> SUFFICES ASSUME HeadersInv, [Next]_vars PROVE HeadersInv'
  OBVIOUS
<1>0. ChainInv /\ block \in AnyHeader
  BY DEF HeadersInv
<1>1. ASSUME NEW v \in Validators, Propose(Prepare(v)) PROVE HeadersInv'
  <2> DEFINE h == Prepare(v)
  <2>1. h \in AnyHeader /\ Propose(h)
    BY <1>0, <1>1, PreparedTyped
  <2> HIDE DEF h
  <2> QED
    BY <2>1, ProposeKeeps
<1>2. ASSUME NEW h \in PeerHeaders({<<>>}), Propose(h) PROVE HeadersInv'
  <2>1. {<<>>} \in SUBSET Seq(SealSet)
    OBVIOUS
  <2>2. h \in AnyHeader
    BY <1>0, <2>1, PeerHeadersTyped
  <2> QED
    BY <1>2, <2>2, ProposeKeeps
<1>3. ASSUME NEW Q \in SUBSET Validators, NEW Wrong \in SUBSET Faulty, Commit(Q, Q \ Wrong)
      PROVE  HeadersInv'
  BY <1>3, CommitKeeps
<1>4. CASE Insert(block)
  BY <1>0, <1>4, InsertKeeps
<1>5. ASSUME NEW h \in PeerHeaders(SealLists(MaxSeals)), Insert(h) PROVE HeadersInv'
  <2>1. h \in AnyHeader
    BY <1>0, SealListsTyped, PeerHeadersTyped
  <2> QED
    BY <1>5, <2>1, InsertKeeps
<1>6. CASE Tick
  <2>1. /\ chain' = chain /\ proposal' = proposal /\ block' = block
        /\ now' \in 0 .. MaxTime /\ now' >= now
    BY <1>0, <1>6, HeadersAssumption DEF Tick, ChainInv
  <2>2. ChainInv'
    BY <1>0, <2>1 DEF ChainInv
  <2>3. \A g \in AnyHeader : Accepted(g) => Accepted(g)'
    <3>1. Len(chain') >= Len(chain)
      BY <1>0, <2>1, CurrentFacts
    <3> QED
      BY <1>0, <2>1, <2>2, <3>1, AcceptedStays
  <2> QED
    BY <2>1, <2>2, <2>3 DEF HeadersInv, Genesis
<1>7. CASE UNCHANGED vars
  BY <1>7 DEF vars, HeadersInv, ChainInv, Accepted
<1> QED
  BY <1>1, <1>2, <1>3, <1>4, <1>5, <1>6, <1>7 DEF Next

LEMMA HeadersInvHolds == Spec => []HeadersInv
BY HeadersInit, HeadersStep, PTL DEF Spec

\* An accepted header is a header of the model's bounds.
LEMMA AcceptedInBounds ==
    ASSUME ChainInv, NEW h \in AnyHeader, h = Genesis \/ Accepted(h)
    PROVE  h \in Header
<1>1. /\ h.height \in 0 .. MaxHeight + 1 /\ h.time \in 0 .. MaxTime + FaultTolerantTime
      /\ h.parent \in {<<>>} \cup {Hash(chain[i]) : i \in DOMAIN chain}
  <2>1. CASE h = Genesis
    <3>1. h.height = 0 /\ h.time = 0 /\ h.parent = <<>>
      BY <2>1 DEF Genesis
    <3> QED
      BY <3>1, HeadersAssumption, TimeAssumption
  <2>2. CASE Accepted(h)
    <3>1. PICK i \in 1 .. Len(chain) : h.parent = Hash(chain[i]) /\ h.height = chain[i].height + 1
      BY <2>2 DEF Accepted
    <3>2. i \in DOMAIN chain
      BY DEF ChainInv
    <3>3. h.height = i /\ h.height \in 0 .. MaxHeight + 1
      BY <3>1, HeadersAssumption DEF ChainInv
    <3>4. h.time \in 0 .. MaxTime + FaultTolerantTime
      BY <2>2, HeadersAssumption, TimeAssumption DEF Accepted, ChainInv, AnyHeader
    <3> QED
      BY <3>1, <3>2, <3>3, <3>4
  <2> QED
    BY <2>1, <2>2
<1>2. h.seals \in Seq({Seal(v, own) : v \in Signers, own \in BOOLEAN})
  BY DEF AnyHeader, SealSet
<1> QED
  BY <1>1, <1>2 DEF AnyHeader, Header, SignerIds

\* The headers of the chain, the proposal and the committed block have their
\* types: their parents are in the chain, and no time is further ahead of the
\* clock than the tolerance (verifyHeader).
THEOREM HeadersTyped == Spec => []TypeOK
<1>1. HeadersInv => TypeOK
  <2> SUFFICES ASSUME HeadersInv PROVE TypeOK
    OBVIOUS
  <2>1. proposal \in Header /\ block \in Header
    BY AcceptedInBounds DEF HeadersInv
  <2>2. now \in 0 .. MaxTime
    BY DEF HeadersInv, ChainInv
  <2>3. ASSUME NEW i \in DOMAIN chain PROVE chain[i] \in Header
    <3>1. i \in 1 .. Len(chain) /\ Len(chain) \in Nat /\ chain[i] \in AnyHeader
      BY CurrentFacts DEF HeadersInv, ChainInv
    <3>2. chain[i].height = i - 1 /\ chain[i].time <= MaxTime + FaultTolerantTime
      BY <3>1 DEF HeadersInv, ChainInv
    <3>3. chain[i].height \in 0 .. MaxHeight + 1
      BY <3>1, <3>2, HeadersAssumption DEF HeadersInv, ChainInv
    <3>4. chain[i].time \in 0 .. MaxTime + FaultTolerantTime
      BY <3>1, <3>2, HeadersAssumption, TimeAssumption DEF AnyHeader
    <3>5. chain[i].parent \in {<<>>} \cup {Hash(chain[j]) : j \in DOMAIN chain}
      <4>1. CASE i = 1
        BY <4>1 DEF HeadersInv, ChainInv, Genesis
      <4>2. CASE i \in 2 .. Len(chain)
        <5>1. chain[i].parent = Hash(chain[i - 1])
          BY <4>2 DEF HeadersInv, ChainInv
        <5>2. i - 1 \in DOMAIN chain
          BY <3>1, <4>2 DEF HeadersInv, ChainInv
        <5> QED
          BY <5>1, <5>2
      <4> QED
        BY <3>1, <4>1, <4>2
    <3>6. chain[i].seals \in Seq({Seal(v, own) : v \in Signers, own \in BOOLEAN})
      BY <3>1 DEF AnyHeader, SealSet
    <3> QED
      BY <3>1, <3>3, <3>4, <3>5, <3>6 DEF AnyHeader, Header, SignerIds
  <2> QED
    BY <2>1, <2>2, <2>3 DEF TypeOK
<1> QED
  BY <1>1, HeadersInvHolds, PTL

\* Whatever headers peers send, with whatever seals, repeated, foreign or wrong,
\* each header of the chain is sealed by more than 2f different validators and
\* keeps the block period's distance (verifyHeader, verifyCommittedSeals).
THEOREM ChainIsSealed == Spec => []ChainSealed
<1>1. HeadersInv => ChainSealed
  BY DEF HeadersInv, ChainInv, ChainSealed
<1> QED
  BY <1>1, HeadersInvHolds, PTL

\* A block that the validators accepted and a quorum sealed passes every node's
\* verification on top of its parent, however late it comes; the only exceptions
\* are a vote without its manager's signature and a seal of something else, which
\* nobody looks at before (Verify, Commit, verifyHeader).
THEOREM CommittedBlocksVerify == Spec => []CommittedBlockVerifies
<1>1. HeadersInv => CommittedBlockVerifies
  <2> SUFFICES ASSUME HeadersInv, block # Genesis, block.parent = Hash(CurrentHeader)
               PROVE  verifyHeader(now, CurrentHeader, block) =
                        IF ~block.voteSigned THEN "errInvalidSignature"
                        ELSE IF OneWrong(block.seals) THEN "errInvalidCommittedSeals"
                        ELSE "nil"
    BY DEF CommittedBlockVerifies, OneWrong
  <2>1. PICK i \in 1 .. Len(chain) : /\ block.parent = Hash(chain[i])
                                     /\ block.height = chain[i].height + 1
                                     /\ block.time >= chain[i].time + BlockPeriod
    BY DEF HeadersInv, Accepted
  <2>2. chain[i].height = CurrentHeader.height /\ chain[i].time = CurrentHeader.time
    BY <2>1 DEF Hash
  <2>3. chain[i] \in AnyHeader /\ block \in AnyHeader /\ now \in Nat
    BY HeadersAssumption DEF HeadersInv, ChainInv
  <2>4. /\ block.height # 0 /\ block.height = CurrentHeader.height + 1
        /\ ~(block.time > now + FaultTolerantTime)
        /\ ~(CurrentHeader.time + BlockPeriod > block.time)
    <3>1. block.time <= now + FaultTolerantTime
      BY DEF HeadersInv, Accepted
    <3>2. chain[i].height \in Nat /\ chain[i].time \in Nat /\ block.time \in Nat
      BY <2>3 DEF AnyHeader
    <3> QED
      BY <2>1, <2>2, <2>3, <3>1, <3>2, TimeAssumption
  <2>5. /\ block.signer \in Validators /\ block.seals # <<>>
        /\ SealsValid(block.seals) <=> ~OneWrong(block.seals)
        /\ EnoughSeals(Len(block.seals))
    BY DEF HeadersInv, Accepted
  <2>6. verifySigner(block) = "nil"
    BY <2>5 DEF verifySigner
  <2>7. verifyCommittedSeals(block) =
          IF ~block.voteSigned THEN "errInvalidSignature"
          ELSE IF OneWrong(block.seals) THEN "errInvalidCommittedSeals"
          ELSE "nil"
    BY <2>5 DEF verifyCommittedSeals
  <2> QED
    BY <2>4, <2>6, <2>7 DEF verifyHeader, verifyCascadingFields
<1> QED
  BY <1>1, HeadersInvHolds, PTL

\* A header that a validator prepares on the current head passes the checks of
\* every validator, unless the head itself is ahead of their clocks (Prepare,
\* Verify).
THEOREM PreparedHeadersVerify == Spec => []PreparedVerifies
<1>1. HeadersInv => PreparedVerifies
  <2> SUFFICES ASSUME HeadersInv, NEW v \in Validators,
                      CurrentHeader.time + BlockPeriod <= now + FaultTolerantTime
               PROVE  Verify(now, CurrentHeader, Prepare(v))
    BY DEF PreparedVerifies
  <2> DEFINE h == Prepare(v)
  <2>1. /\ h.height = CurrentHeader.height + 1 /\ h.parent = Hash(CurrentHeader)
        /\ h.time = PreparedTime(CurrentHeader) /\ h.signer = v /\ h.seals = <<>>
    BY DEF Prepare, HeaderOn
  <2>2. CurrentHeader.time \in Nat /\ CurrentHeader.height \in Nat /\ now \in Nat
    BY CurrentFacts, HeadersAssumption DEF HeadersInv, ChainInv, AnyHeader
  <2>3. /\ h.height # 0
        /\ ~(h.time > now + FaultTolerantTime)
        /\ ~(CurrentHeader.time + BlockPeriod > h.time)
    BY <2>1, <2>2, TimeAssumption DEF PreparedTime
  <2> HIDE DEF h
  <2>4. verifySigner(h) = "nil" /\ verifyCommittedSeals(h) = "errEmptyCommittedSeals"
    BY <2>1 DEF verifySigner, verifyCommittedSeals
  <2>5. Verify(now, CurrentHeader, h)
    BY <2>1, <2>3, <2>4 DEF Verify, verifyHeader, verifyCascadingFields
  <2> QED
    BY <2>5 DEF h
<1> QED
  BY <1>1, HeadersInvHolds, PTL
=============================================================================
