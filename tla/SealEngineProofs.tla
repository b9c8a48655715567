-------------------------- MODULE SealEngineProofs --------------------------
(***************************************************************************)
(* Theorems about sealing, for any number of calls and commits.            *)
(***************************************************************************)
EXTENDS SealEngine, SequenceTheorems, TLAPS

\* Whatever can reach a call through commitCh has been committed.
IInv ==
    /\ TypeOK
    /\ ResultCommitted
    /\ \A b \in Blocks : offers[b] <= committed[b]
    /\ commitCh # <<>> => committed[Head(commitCh)] > 0

LEMMA ChannelFacts ==
    ASSUME TypeOK
    PROVE  /\ commitCh # <<>> => Head(commitCh) \in Blocks
           /\ commitCh # <<>> => Tail(commitCh) = <<>>
<1>1. commitCh \in Seq(Blocks) /\ Len(commitCh) <= 1
  BY DEF TypeOK
<1>2. ASSUME commitCh # <<>> PROVE Head(commitCh) \in Blocks /\ Tail(commitCh) = <<>>
  <2>1. Len(commitCh) \in Nat \ {0}
    BY <1>1, <1>2, EmptySeq
  <2>2. /\ Head(commitCh) \in Blocks /\ Tail(commitCh) \in Seq(Blocks)
        /\ Len(Tail(commitCh)) = Len(commitCh) - 1
    BY <1>1, <1>2, HeadTailProperties
  <2>3. Len(Tail(commitCh)) = 0
    BY <1>1, <2>1, <2>2
  <2> QED BY <2>2, <2>3, EmptySeq
<1> QED BY <1>2

\* The steps that touch neither the channel nor the commits.
LEMMA QuietSteps ==
    ASSUME IInv, NEW s \in Seals,
           Seal(s) \/ Delay(s) \/ Propose(s) \/ RequestCore(s) \/ Lock(s) \/ GiveUp(s)
             \/ Unlock(s) \/ TakeResult(s) \/ Cancel(s)
    PROVE  IInv'
<1>1. UNCHANGED <<commitCh, offers, committed>>
  BY DEF Seal, Delay, Propose, RequestCore, Lock, GiveUp, Unlock, TakeResult, Cancel
<1>2. result' = result \/ result' = [result EXCEPT ![s] = NoHash]
  BY DEF Seal, Delay, Propose, RequestCore, Lock, GiveUp, Unlock, TakeResult, Cancel, Return
<1>3. \E p \in Phases : phase' = [phase EXCEPT ![s] = p] \/ phase' = phase
  BY DEF Seal, Delay, Propose, RequestCore, Lock, GiveUp, Unlock, TakeResult, Cancel, Return, Phases
<1>4. /\ sealLock' \in Seals \cup {NoSeal} /\ proposedBlockHash' \in Seals \cup {NoHash}
      /\ requested' \subseteq Seals /\ cancelled' \subseteq Seals
  BY DEF IInv, TypeOK, Seal, Delay, Propose, RequestCore, Lock, GiveUp, Unlock, TakeResult, Cancel
<1>5. TypeOK'
  BY <1>1, <1>2, <1>3, <1>4 DEF IInv, TypeOK
<1>6. ResultCommitted'
  BY <1>1, <1>2 DEF IInv, TypeOK, ResultCommitted
<1> QED BY <1>1, <1>5, <1>6 DEF IInv

LEMMA ClearStep ==
    ASSUME IInv, NEW s \in Seals, clearCommitChannel(s) PROVE IInv'
<1>1. UNCHANGED <<result, sealLock, proposedBlockHash, requested, offers, committed, cancelled>>
  BY DEF clearCommitChannel
<1>2. commitCh' = commitCh \/ commitCh' = <<>>
  BY ChannelFacts DEF clearCommitChannel, IInv
<1>3. phase' = phase \/ phase' = [phase EXCEPT ![s] = "locking"]
  BY DEF clearCommitChannel
<1>4. commitCh' \in Seq(Blocks) /\ Len(commitCh') <= 1
  <2>1. commitCh \in Seq(Blocks) /\ Len(commitCh) <= 1
    BY DEF IInv, TypeOK
  <2>2. <<>> \in Seq(Blocks) /\ Len(<<>>) <= 1
    BY EmptySeq
  <2>3. CASE commitCh' = commitCh
    BY <2>1, <2>3
  <2>4. CASE commitCh' = <<>>
    BY <2>2, <2>4
  <2> QED BY <1>2, <2>3, <2>4
<1>5. phase' \in [Seals -> Phases]
  BY <1>3 DEF IInv, TypeOK, Phases
<1>6. TypeOK'
  BY <1>1, <1>4, <1>5 DEF IInv, TypeOK
<1> QED BY <1>1, <1>2, <1>6 DEF IInv, ResultCommitted

LEMMA ReceiveStep ==
    ASSUME IInv, NEW s \in Seals, ReceiveCommit(s) PROVE IInv'
<1> DEFINE b == Head(commitCh)
<1>1. /\ UNCHANGED <<requested, sealLock, proposedBlockHash, offers, committed, cancelled>>
      /\ phase' = [phase EXCEPT ![s] = "returning"]
      /\ result' = [result EXCEPT ![s] = Verdict(s, b)]
      /\ commitCh # <<>> /\ commitCh' = Tail(commitCh)
  BY DEF ReceiveCommit, Return
<1>2. commitCh' = <<>> /\ b \in Blocks /\ committed[b] > 0
  BY <1>1, ChannelFacts DEF IInv
<1> HIDE DEF b
<1>3. Verdict(s, b) = NoHash \/ (Verdict(s, b) = s /\ committed[s] > 0)
  BY <1>2 DEF Verdict
<1>4. TypeOK'
  BY <1>1, <1>2, <1>3 DEF IInv, TypeOK, Phases, Blocks
<1>5. ResultCommitted'
  BY <1>1, <1>3 DEF IInv, TypeOK, ResultCommitted
<1> QED BY <1>1, <1>2, <1>4, <1>5 DEF IInv

LEMMA CommitStep ==
    ASSUME IInv, NEW b \in Blocks, Commit(b) PROVE IInv'
<1>1. /\ UNCHANGED <<phase, result, sealLock, proposedBlockHash, commitCh, requested, cancelled>>
      /\ committed[b] < MaxCommits
      /\ committed' = [committed EXCEPT ![b] = @ + 1]
      /\ offers' = [offers EXCEPT ![b] = @ + 1]
  BY DEF Commit
<1>2. /\ committed \in [Blocks -> 0 .. MaxCommits] /\ offers \in [Blocks -> 0 .. MaxCommits]
      /\ offers[b] <= committed[b] /\ MaxCommits \in Nat
  BY SealAssumption DEF IInv, TypeOK
<1>3. /\ committed' \in [Blocks -> 0 .. MaxCommits] /\ offers' \in [Blocks -> 0 .. MaxCommits]
      /\ \A x \in Blocks : committed[x] > 0 => committed'[x] > 0
      /\ \A x \in Blocks : offers'[x] <= committed'[x]
  BY <1>1, <1>2 DEF IInv
<1>4. TypeOK'
  BY <1>1, <1>3 DEF IInv, TypeOK
<1>5. ResultCommitted'
  BY <1>1, <1>3 DEF IInv, ResultCommitted, Blocks
<1>6. (commitCh # <<>> => committed[Head(commitCh)] > 0)'
  BY <1>1, <1>3, ChannelFacts DEF IInv
<1> QED BY <1>3, <1>4, <1>5, <1>6 DEF IInv

LEMMA OfferStep ==
    ASSUME IInv, NEW b \in Blocks, Offer(b) PROVE IInv'
<1>1. /\ UNCHANGED <<phase, result, sealLock, proposedBlockHash, requested, committed, cancelled>>
      /\ offers[b] > 0 /\ offers' = [offers EXCEPT ![b] = @ - 1]
      /\ commitCh' = commitCh \/ commitCh' = <<b>>
  BY DEF Offer
<1>2. /\ committed \in [Blocks -> 0 .. MaxCommits] /\ offers \in [Blocks -> 0 .. MaxCommits]
      /\ offers[b] <= committed[b] /\ MaxCommits \in Nat
  BY SealAssumption DEF IInv, TypeOK
<1>3. /\ offers' \in [Blocks -> 0 .. MaxCommits] /\ committed[b] > 0
      /\ \A x \in Blocks : offers'[x] <= committed[x]
  BY <1>1, <1>2 DEF IInv
<1>4. commitCh' \in Seq(Blocks) /\ Len(commitCh') <= 1
  <2>1. <<b>> \in Seq(Blocks) /\ Len(<<b>>) = 1
    OBVIOUS
  <2>2. commitCh \in Seq(Blocks) /\ Len(commitCh) <= 1
    BY DEF IInv, TypeOK
  <2>3. CASE commitCh' = commitCh
    BY <2>2, <2>3
  <2>4. CASE commitCh' = <<b>>
    BY <2>1, <2>4
  <2> QED BY <1>1, <2>3, <2>4
<1>5. TypeOK'
  BY <1>1, <1>3, <1>4 DEF IInv, TypeOK
<1>6. commitCh' # <<>> => committed[Head(commitCh')] > 0
  BY <1>1, <1>3 DEF IInv
<1> QED BY <1>1, <1>3, <1>5, <1>6 DEF IInv, ResultCommitted

LEMMA IInvHolds == Spec => []IInv
<1>1. Init => IInv
  <2> SUFFICES ASSUME Init PROVE IInv
    OBVIOUS
  <2>1. TypeOK
    BY SealAssumption DEF Init, TypeOK, Phases
  <2> QED BY <2>1 DEF Init, IInv, ResultCommitted
<1>2. IInv /\ [Next]_vars => IInv'
  <2> SUFFICES ASSUME IInv, [Next]_vars PROVE IInv'
    OBVIOUS
  <2>1. CASE UNCHANGED vars
    BY <2>1 DEF IInv, TypeOK, ResultCommitted, vars
  <2>2. ASSUME NEW s \in Seals, Seal(s) \/ Step(s) \/ TakeResult(s) \/ Cancel(s) PROVE IInv'
    BY <2>2, QuietSteps, ClearStep, ReceiveStep DEF Step
  <2>3. ASSUME NEW b \in Blocks, Commit(b) \/ Offer(b) PROVE IInv'
    BY <2>3, CommitStep, OfferStep
  <2> QED BY <2>1, <2>2, <2>3 DEF Next
<1> QED BY <1>1, <1>2, PTL DEF Spec

\* commitCh never holds more than one block, however many goroutines of Commit
\* offer theirs at once.
THEOREM TypeCorrect == Spec => []TypeOK
<1>1. IInv => TypeOK
  BY DEF IInv
<1> QED BY <1>1, IInvHolds, PTL

\* What Seal returns is its own block, after the core committed it.
THEOREM ResultsCommitted == Spec => []ResultCommitted
<1>1. IInv => ResultCommitted
  BY DEF IInv
<1> QED BY <1>1, IInvHolds, PTL
=============================================================================
