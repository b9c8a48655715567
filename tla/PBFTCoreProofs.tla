--------------------------- MODULE PBFTCoreProofs ---------------------------
(***************************************************************************)
(* Theorems about the consensus core, for every validator set, every set   *)
(* of running validators, every environment of peers and all bounds.  The  *)
(* first half is about the handlers: types, timers, requests and backlog.  *)
(* The second is about votes: what a single step may do to the votes of a  *)
(* validator, and what follows for the behaviours of all of them, namely   *)
(* the action properties of PBFTCore, the seals of a committed block, the  *)
(* implementation of ViewVoting, and agreement inside a view.              *)
(***************************************************************************)
EXTENDS CoreVoting, CoreHeaders, FiniteSetTheorems, TLAPS

-----------------------------------------------------------------------------
(* What the thresholds of a validator set guarantee, for every set. *)

LEMMA SizeFacts ==
    Size \in Nat /\ Size > 0 /\ DOMAIN ValList = 1 .. Size
BY ValListAssumption DEF Size

LEMMA ValidatorsCardinality ==
    IsFiniteSet(Validators) /\ Cardinality(Validators) = Size
<1>1. IsFiniteSet(1 .. Size) /\ Cardinality(1 .. Size) = Size
  BY SizeFacts, FS_Interval
<1> DEFINE f == [i \in 1 .. Size |-> ValList[i]]
<1>2. f \in Surjection(1 .. Size, Validators)
  BY SizeFacts DEF Surjection, Validators
<1>3. f \in Injection(1 .. Size, Validators)
  <2>1. f \in [1 .. Size -> Validators]
    BY SizeFacts DEF Validators
  <2>2. \A i, j \in 1 .. Size : f[i] = f[j] => i = j
    BY SizeFacts, ValListAssumption
  <2> QED BY <2>1, <2>2 DEF Injection, IsInjective
<1>4. f \in Bijection(1 .. Size, Validators)
  BY <1>2, <1>3 DEF Bijection
<1>5. ExistsBijection(1 .. Size, Validators)
  BY <1>4 DEF ExistsBijection
<1> QED BY <1>1, <1>5, FS_Bijection

LEMMA FaultTolerantNumFacts ==
    ASSUME NEW n \in Nat, n > 0
    PROVE  /\ FaultTolerantNum(n) \in Nat
           /\ 3 * FaultTolerantNum(n) < n /\ n <= 3 * FaultTolerantNum(n) + 3
BY DEF FaultTolerantNum

LEMMA SubsetOfValidators ==
    ASSUME NEW Q \in SUBSET Validators
    PROVE  IsFiniteSet(Q) /\ Cardinality(Q) \in Nat /\ Cardinality(Q) <= Size
BY ValidatorsCardinality, FS_Subset, FS_CardinalityType

\* More votes never undo a decision, although reachThreshold asks for exactly
\* all validators when no fault is tolerated.
LEMMA QuorumMonotone ==
    ASSUME NEW Q1 \in SUBSET Validators, NEW Q2 \in SUBSET Validators,
           Q1 \subseteq Q2, IsQuorum(Q1)
    PROVE  IsQuorum(Q2)
<1>1. Cardinality(Q1) <= Cardinality(Q2)
  BY SubsetOfValidators, FS_Subset
<1>2. Cardinality(Q1) \in Nat /\ Cardinality(Q2) \in Nat /\ Cardinality(Q2) <= Size
  BY SubsetOfValidators
<1>3. FaultTolerantNum(Size) \in Nat /\ Size \in Nat
  BY SizeFacts, FaultTolerantNumFacts
<1> QED BY <1>1, <1>2, <1>3 DEF IsQuorum, reachThreshold

\* Any two sets of validators that reach the threshold (reachThreshold) have
\* more than f members in common, f = FaultTolerantNum(), provided the size of
\* the set is 3f + 1, or f is 0.
THEOREM QuorumsIntersect ==
    ASSUME NEW Q1 \in SUBSET Validators, NEW Q2 \in SUBSET Validators,
           IsQuorum(Q1), IsQuorum(Q2),
           FaultTolerantNum(Size) = 0 \/ Size = 3 * FaultTolerantNum(Size) + 1
    PROVE  Cardinality(Q1 \cap Q2) > FaultTolerantNum(Size)
<1> DEFINE f == FaultTolerantNum(Size)
<1>1. f \in Nat /\ Size \in Nat /\ Size > 0
  BY SizeFacts, FaultTolerantNumFacts
<1>2. /\ IsFiniteSet(Q1) /\ Cardinality(Q1) \in Nat
      /\ IsFiniteSet(Q2) /\ Cardinality(Q2) \in Nat
      /\ Cardinality(Q1 \cap Q2) \in Nat
      /\ Cardinality(Q1 \cup Q2) \in Nat /\ Cardinality(Q1 \cup Q2) <= Size
  <2>1. Q1 \cap Q2 \in SUBSET Validators /\ Q1 \cup Q2 \in SUBSET Validators
    OBVIOUS
  <2> QED BY <2>1, SubsetOfValidators
<1>3. Cardinality(Q1 \cup Q2)
        = Cardinality(Q1) + Cardinality(Q2) - Cardinality(Q1 \cap Q2)
  BY <1>2, FS_Union
<1>4. IF f = 0 THEN Cardinality(Q1) = Size /\ Cardinality(Q2) = Size
               ELSE Cardinality(Q1) > 2 * f /\ Cardinality(Q2) > 2 * f
  BY DEF IsQuorum, reachThreshold
<1> HIDE DEF f
<1>5. f = 0 \/ Size = 3 * f + 1
  BY DEF f
<1>6. Cardinality(Q1 \cap Q2) > f
  BY <1>1, <1>2, <1>3, <1>4, <1>5
<1> QED BY <1>6 DEF f

-----------------------------------------------------------------------------
(* The operators the handlers are made of keep a core state well typed. *)

LEMMA ProposerType ==
    ASSUME NEW p, NEW r \in Nat
    PROVE  CalcProposer(p, r) \in Validators
<1>1. Size \in Nat /\ Size > 0 /\ DOMAIN ValList = 1 .. Size
  BY SizeFacts
<1>2. calcSeed(p, r) \in Nat
  <2>1. CASE p \in Validators
    <3>1. \E i \in DOMAIN ValList : ValList[i] = p
      BY <2>1 DEF Validators
    <3>2. (CHOOSE i \in DOMAIN ValList : ValList[i] = p) \in 1 .. Size
      BY <3>1, <1>1
    <3> QED BY <2>1, <3>2, <1>1 DEF calcSeed
  <2>2. CASE p \notin Validators
    BY <2>2 DEF calcSeed
  <2> QED BY <2>1, <2>2
<1>3. ASSUME NEW x \in Nat PROVE GetByIndex(x % Size) \in Validators
  <2>1. (x % Size) + 1 \in DOMAIN ValList
    BY <1>1
  <2> QED BY <2>1 DEF GetByIndex, Validators
<1>4. calcSeed(p, r) + 1 \in Nat
  BY <1>2
<1> QED BY <1>2, <1>3, <1>4 DEF CalcProposer, roundRobinProposer, stickyProposer

LEMMA ProcessBacklogType ==
    ASSUME NEW c \in CoreState, NEW first PROVE ProcessBacklog(c, first) \in CoreState
BY DEF ProcessBacklog, CoreState

LEMMA SetStateType ==
    ASSUME NEW c \in CoreState, NEW s \in 0 .. 3, NEW first
    PROVE  setState(c, s, first) \in CoreState
<1> DEFINE c1 == [c EXCEPT !.state = s]
<1>1. c1 \in CoreState
  BY DEF CoreState, AcceptRequest, Committed
<1>2. ProcessPendingRequests(c1) \in CoreState
  BY <1>1 DEF ProcessPendingRequests, CoreState
<1> QED BY <1>1, <1>2, ProcessBacklogType DEF setState

LEMMA LockType ==
    ASSUME NEW c \in CoreState
    PROVE  LockHash(c) \in CoreState /\ UnlockHash(c) \in CoreState
BY DEF LockHash, UnlockHash, CoreState, Hashes

LEMMA AcceptType ==
    ASSUME NEW c \in CoreState, NEW m \in Message
    PROVE  /\ acceptPrePrepare(c, m.digest) \in CoreState
           /\ acceptPrepare(c, m) \in CoreState
           /\ acceptCommit(c, m) \in CoreState
           /\ Take(c, m) \in CoreState
<1>1. /\ m.digest \in Hashes /\ m.from \in Validators
      /\ [from |-> m.from, seal |-> m.seal] \in Vote
  BY DEF Message, Vote
<1>2. acceptPrePrepare(c, m.digest) \in CoreState
  BY <1>1 DEF acceptPrePrepare, CoreState
<1>3. acceptPrepare(c, m) \in CoreState
  BY <1>1 DEF acceptPrepare, CoreState
<1>4. acceptCommit(c, m) \in CoreState
  BY <1>1 DEF acceptCommit, CoreState
<1>5. Take(c, m) \in CoreState
  BY DEF Take, CoreState
<1> QED BY <1>2, <1>3, <1>4, <1>5

LEMMA UpdateRoundStateType ==
    ASSUME NEW c \in CoreState, NEW s \in SeqNumbers, NEW r \in Rounds,
           NEW roundChange \in BOOLEAN
    PROVE  updateRoundState(c, s, r, roundChange) \in CoreState
<1>1. ASSUME NEW l \in Hashes, NEW p \in Hashes, NEW q \in Hashes
      PROVE  newRoundState(c, s, r, l, p, q) \in CoreState
  BY DEF newRoundState, CoreState
<1>2. c.lockedHash \in Hashes /\ c.prePrepare \in Hashes /\ c.pendingRequest \in Hashes
      /\ NoBlock \in Hashes
  BY DEF CoreState, Hashes
<1> QED BY <1>1, <1>2 DEF updateRoundState

-----------------------------------------------------------------------------
(* What the operators leave alone and what they establish. *)

\* Old, Future and Current look at the view, the state and waiting only.
SameView(c, d) ==
    /\ d.seq = c.seq /\ d.round = c.round
    /\ d.state = c.state /\ d.waiting = c.waiting

\* The votes, the lock and the timer: all that setState does not touch.
SameVotes(c, d) ==
    /\ d.seq = c.seq /\ d.round = c.round /\ d.waiting = c.waiting
    /\ d.prePrepare = c.prePrepare /\ d.lockedHash = c.lockedHash
    /\ d.commits = c.commits /\ d.proposer = c.proposer
    /\ d.timer = c.timer /\ d.timeouts = c.timeouts

LEMMA MessageFields ==
    ASSUME NEW m \in Message
    PROVE  /\ m.seq \in Nat /\ m.round \in 0 .. MaxRound
           /\ m.type \in {"PrePrepare", "Prepare", "Commit", "RoundChange"}
BY BoundsAssumption DEF Message, SeqNumbers, Rounds

\* What BacklogWaits says of one core.
Waits(c) ==
    \A m \in c.backlog : Current(c, m) => \E q \in c.backlog : HeldUpBy(m, q)

LEMMA SameWaits ==
    ASSUME NEW c, NEW d, Waits(c), SameView(c, d), d.backlog = c.backlog
    PROVE  Waits(d)
BY DEF Waits, SameView, Current, Old, Future

\* A message that can be handled now belongs before every future message.
LEMMA CurrentFirst ==
    ASSUME NEW c \in CoreState, NEW m \in Message, NEW q \in Message,
           Current(c, m), Future(c, q)
    PROVE  Before(m, q)
<1>1. c.seq \in Nat /\ c.round \in Nat
  BY BoundsAssumption DEF CoreState, SeqNumbers, Rounds
<1>2. msgPriority["PrePrepare"] = 1 /\ msgPriority["Commit"] = 2 /\ msgPriority["Prepare"] = 3
  BY DEF msgPriority
<1> QED BY <1>1, <1>2, MessageFields DEF Current, Old, Future, Before

LEMMA ProcessBacklogFacts ==
    ASSUME NEW c \in CoreState, NEW first
    PROVE  LET d == ProcessBacklog(c, first) IN
           /\ SameVotes(c, d) /\ d.state = c.state
           /\ d.backlog \subseteq c.backlog
           /\ d.backlogCh \subseteq c.backlogCh \cup c.backlog
           /\ Waits(d)
<1> DEFINE d == ProcessBacklog(c, first)
           popped == {m \in c.backlog :
                        \A q \in c.backlog : Future(c, q) => ~NotAhead(m, q, first)}
<1>1. /\ SameVotes(c, d) /\ d.state = c.state
      /\ d.backlog = c.backlog \ popped
      /\ d.backlogCh \subseteq c.backlogCh \cup c.backlog
  BY DEF ProcessBacklog, SameVotes, CoreState
<1> HIDE DEF d
<1>2. ASSUME NEW m \in d.backlog, Current(d, m)
      PROVE  \E q \in d.backlog : HeldUpBy(m, q)
  <2>1. m \in c.backlog /\ m \in Message /\ m \notin popped
    BY <1>1 DEF CoreState
  <2>2. Current(c, m)
    BY <1>1, <1>2 DEF Current, Old, Future, SameVotes
  <2>3. PICK q \in c.backlog : Future(c, q) /\ NotAhead(m, q, first)
    BY <2>1
  <2>4. q \in d.backlog
    <3>1. NotAhead(q, q, first)
      BY DEF NotAhead
    <3> QED BY <1>1, <2>3, <3>1
  <2>5. q \in Message
    BY DEF CoreState
  <2>6. Before(m, q)
    BY <2>1, <2>2, <2>3, <2>5, CurrentFirst
  <2> QED BY <2>3, <2>4, <2>6 DEF NotAhead, HeldUpBy
<1> QED BY <1>1, <1>2 DEF Waits, d

LEMMA SetStateFacts ==
    ASSUME NEW c \in CoreState, NEW s \in 0 .. 3, NEW first
    PROVE  LET d == setState(c, s, first) IN
           /\ SameVotes(c, d) /\ d.state = s
           /\ d.backlog \subseteq c.backlog
           /\ d.backlogCh \subseteq c.backlogCh \cup c.backlog
           /\ Waits(d)
<1> DEFINE c1 == [c EXCEPT !.state = s]
           c2 == ProcessPendingRequests(c1)
<1>1. /\ c1 \in CoreState /\ SameVotes(c, c1) /\ c1.state = s
      /\ c1.backlog = c.backlog /\ c1.backlogCh = c.backlogCh
  BY DEF CoreState, AcceptRequest, Committed, SameVotes
<1>2. /\ c2 \in CoreState /\ SameVotes(c1, c2) /\ c2.state = s
      /\ c2.backlog = c1.backlog /\ c2.backlogCh = c1.backlogCh
  BY <1>1 DEF ProcessPendingRequests, CoreState, SameVotes
<1> HIDE DEF c1, c2
<1>3. setState(c, s, first) \in {ProcessBacklog(c1, first), ProcessBacklog(c2, first)}
  BY DEF setState, c1, c2
<1> QED BY <1>1, <1>2, <1>3, ProcessBacklogFacts DEF SameVotes

LEMMA CatchUpFacts ==
    ASSUME NEW c \in CoreState, NEW r \in Rounds
    PROVE  LET d == catchUpRound(c, r) IN
           /\ d \in CoreState
           /\ d.seq = c.seq /\ d.round = r /\ d.waiting = TRUE /\ d.state = c.state
           /\ d.lockedHash = c.lockedHash
           /\ d.prePrepare = IF IsHashLocked(c) THEN c.prePrepare ELSE NoBlock
           /\ d.commits = {} /\ d.timer = TRUE
           /\ d.backlog = c.backlog /\ d.backlogCh \subseteq c.backlogCh
<1> DEFINE c1 == [c EXCEPT !.waiting = TRUE]
           c2 == updateRoundState(c1, c.seq, r, TRUE)
           c3 == roundChangeSetClear(c2, r)
<1>1. c1 \in CoreState /\ c1.waiting = TRUE /\ c1.seq = c.seq /\ c1.state = c.state
      /\ c1.lockedHash = c.lockedHash /\ c1.prePrepare = c.prePrepare
      /\ c1.backlog = c.backlog /\ c1.backlogCh = c.backlogCh /\ c.seq \in SeqNumbers
  BY DEF CoreState
<1> HIDE DEF c1
<1>2. c2 \in CoreState
  BY <1>1, UpdateRoundStateType
<1>3. /\ c2.seq = c.seq /\ c2.round = r /\ c2.waiting = TRUE /\ c2.state = c.state
      /\ c2.lockedHash = c.lockedHash
      /\ c2.prePrepare = IF IsHashLocked(c) THEN c.prePrepare ELSE NoBlock
      /\ c2.commits = {}
      /\ c2.backlog = c.backlog /\ c2.backlogCh \subseteq c.backlogCh
  BY <1>1 DEF updateRoundState, newRoundState, IsHashLocked, CoreState
<1> HIDE DEF c2
<1>4. /\ c3 \in CoreState
      /\ c3.seq = c2.seq /\ c3.round = c2.round /\ c3.waiting = c2.waiting
      /\ c3.state = c2.state /\ c3.lockedHash = c2.lockedHash
      /\ c3.prePrepare = c2.prePrepare /\ c3.commits = c2.commits
      /\ c3.backlog = c2.backlog /\ c3.backlogCh = c2.backlogCh
  BY <1>2 DEF roundChangeSetClear, CoreState
<1> HIDE DEF c3
<1> DEFINE d == [c3 EXCEPT !.timer = TRUE]
<1>5. catchUpRound(c, r) = d
  BY DEF catchUpRound, newRoundChangeTimer, c1, c2, c3
<1>6. /\ d \in CoreState /\ d.timer = TRUE /\ SameView(c3, d)
      /\ d.lockedHash = c3.lockedHash /\ d.prePrepare = c3.prePrepare
      /\ d.commits = c3.commits
      /\ d.backlog = c3.backlog /\ d.backlogCh = c3.backlogCh
  BY <1>4 DEF CoreState, SameView
<1> HIDE DEF d
<1> QED BY <1>3, <1>4, <1>5, <1>6 DEF SameView

\* d is the state in which round r of height s starts after state c.
Entered(n, c, s, r, roundChange, d) ==
    /\ d \in CoreState
    /\ d.seq = s /\ d.round = r /\ d.waiting = FALSE /\ d.state = AcceptRequest
    /\ d.lockedHash = IF roundChange THEN c.lockedHash ELSE NoBlock
    /\ d.prePrepare = IF roundChange /\ IsHashLocked(c) THEN c.prePrepare ELSE NoBlock
    /\ d.commits = {} /\ d.timer = TRUE
    /\ d.proposer = CalcProposer(LastProposer(n), r)
    /\ d.backlog \subseteq c.backlog
    /\ d.backlogCh \subseteq c.backlogCh \cup c.backlog
    /\ Waits(d)

LEMMA EnterRoundFacts ==
    ASSUME NEW n \in Running, NEW c \in CoreState, NEW s \in SeqNumbers,
           NEW r \in Rounds, NEW roundChange \in BOOLEAN, NEW first
    PROVE  Entered(n, c, s, r, roundChange, EnterRound(n, c, s, r, roundChange, first))
<1> DEFINE c1 == updateRoundState(c, s, r, roundChange)
           c2 == [c1 EXCEPT !.roundChanges = [k \in Rounds |-> {}],
                            !.proposer = CalcProposer(LastProposer(n), r),
                            !.waiting = FALSE]
           c3 == setState(c2, AcceptRequest, first)
<1>1. c1 \in CoreState
  BY UpdateRoundStateType
<1>2. /\ c1.seq = s /\ c1.round = r
      /\ c1.lockedHash = IF roundChange THEN c.lockedHash ELSE NoBlock
      /\ c1.prePrepare = IF roundChange /\ IsHashLocked(c) THEN c.prePrepare ELSE NoBlock
      /\ c1.commits = {}
      /\ c1.backlog = c.backlog /\ c1.backlogCh \subseteq c.backlogCh
  BY DEF updateRoundState, newRoundState, CoreState
<1> HIDE DEF c1
<1>3. CalcProposer(LastProposer(n), r) \in Validators /\ AcceptRequest \in 0 .. 3
  BY ProposerType DEF Rounds, AcceptRequest
<1>4. /\ c2 \in CoreState
      /\ c2.seq = s /\ c2.round = r /\ c2.waiting = FALSE
      /\ c2.lockedHash = c1.lockedHash /\ c2.prePrepare = c1.prePrepare
      /\ c2.commits = c1.commits /\ c2.proposer = CalcProposer(LastProposer(n), r)
      /\ c2.backlog = c1.backlog /\ c2.backlogCh = c1.backlogCh
  BY <1>1, <1>2, <1>3 DEF CoreState
<1> HIDE DEF c2
<1>5. /\ c3 \in CoreState
      /\ SameVotes(c2, c3) /\ c3.state = AcceptRequest
      /\ c3.backlog \subseteq c2.backlog
      /\ c3.backlogCh \subseteq c2.backlogCh \cup c2.backlog
      /\ Waits(c3)
  BY <1>3, <1>4, SetStateType, SetStateFacts
<1> HIDE DEF c3
<1> DEFINE d == [c3 EXCEPT !.timer = TRUE]
<1>6. EnterRound(n, c, s, r, roundChange, first) = d
  BY DEF EnterRound, newRoundChangeTimer, c1, c2, c3
<1>7. /\ d \in CoreState /\ d.timer = TRUE /\ SameView(c3, d)
      /\ d.lockedHash = c3.lockedHash /\ d.prePrepare = c3.prePrepare
      /\ d.commits = c3.commits /\ d.proposer = c3.proposer
      /\ d.backlog = c3.backlog /\ d.backlogCh = c3.backlogCh
  BY <1>5 DEF CoreState, SameView
<1> HIDE DEF d
<1>8. Waits(d)
  BY <1>5, <1>7, SameWaits
<1> QED BY <1>2, <1>4, <1>5, <1>6, <1>7, <1>8 DEF SameVotes, SameView, Entered

-----------------------------------------------------------------------------
(* The inductive invariant. *)

\* Every recorded Commit was sent, in this view and for this proposal, and
\* there is one per sender.
VotesBacked(c, ms) ==
    /\ \A v \in c.commits : \E m \in ms \cup PeerMessages :
          /\ m.type = "Commit" /\ m.from = v.from /\ m.digest = c.prePrepare
          /\ m.seq = c.seq /\ m.round = c.round
    /\ \A v, w \in c.commits : v.from = w.from => v = w

\* The part about one validator n with core c when the running validators have
\* sent ms.  What holds even in the middle of a timeout, when the lock is gone:
\* a lock is a lock on the proposal, and whatever waits in a queue was sent.
ViewInv(n, c, ms) ==
    /\ c.seq <= Height(n) + 1
    /\ IsHashLocked(c) => c.prePrepare = c.lockedHash
    /\ c.prePrepare # NoBlock => c.prePrepare.height = c.seq
    /\ c.backlog \cup c.backlogCh \subseteq ms \cup PeerMessages
    /\ Waits(c)
    /\ \A m \in ms : m.from = n => ~Future(c, m)

\* What holds between handlers: proposal, lock and proposer support the state,
\* and no Commit is recorded outside the voting states.
VoteInv(n, c, ms) ==
    /\ ~c.waiting => /\ c.state >= PrePrepared => c.prePrepare # NoBlock
                     /\ c.state >= Prepared => IsHashLocked(c)
                     /\ c.proposer = CalcProposer(GetProposer(n, c.seq - 1), c.round)
    /\ c.commits # {} => ~c.waiting /\ c.state >= PrePrepared
    /\ c.timer \/ c.timeouts > 0
    /\ VotesBacked(c, ms)

LocalInv(n, c, ms) == ViewInv(n, c, ms) /\ VoteInv(n, c, ms)

\* What n may broadcast.
SentBy(n, out) == out \subseteq Message /\ \A m \in out : m.from = n /\ WellFormed(m)

IInv ==
    /\ TypeOK
    /\ \A m \in msgs : m.from \in Running /\ WellFormed(m)
    /\ \A n \in Running : Height(n) <= MaxHeight
    /\ \A n \in Running : LocalInv(n, core[n], msgs)
    /\ CommitCertificate

-----------------------------------------------------------------------------
(* From one validator's step to the invariant of all. *)

LEMMA LocalInvMonotone ==
    ASSUME NEW p, NEW c, NEW ms, NEW out, LocalInv(p, c, ms),
           \A m \in out : m.from # p
    PROVE  LocalInv(p, c, ms \cup out)
<1>1. VotesBacked(c, ms \cup out)
  BY DEF LocalInv, VoteInv, VotesBacked
<1>2. ViewInv(p, c, ms \cup out)
  BY DEF LocalInv, ViewInv
<1> QED BY <1>1, <1>2 DEF LocalInv, VoteInv

\* The certificate of a commitment survives when more messages are sent.
LEMMA CertificateMonotone ==
    ASSUME NEW e, NEW ms, NEW ns, ms \subseteq ns, IsQuorum(CommitSenders(e, ms))
    PROVE  IsQuorum(CommitSenders(e, ns))
<1>1. /\ CommitSenders(e, ms) \in SUBSET Validators
      /\ CommitSenders(e, ns) \in SUBSET Validators
      /\ CommitSenders(e, ms) \subseteq CommitSenders(e, ns)
  BY DEF CommitSenders
<1> QED BY <1>1, QuorumMonotone

LEMMA BecomeStep ==
    ASSUME IInv, NEW n \in Running, NEW d \in CoreState, NEW out,
           SentBy(n, out), LocalInv(n, d, msgs \cup out), Become(n, d, out)
    PROVE  /\ core' \in [Running -> CoreState] /\ msgs' \subseteq Message
           /\ chain' \in [Running -> Seq(Blocks)] /\ sealed' \subseteq Blocks
           /\ (\A m \in msgs : m.from \in Running /\ WellFormed(m))'
           /\ (\A p \in Running : Height(p) <= MaxHeight)'
           /\ (\A p \in Running : LocalInv(p, core[p], msgs))'
           /\ UNCHANGED committed => CommitCertificate'
<1>1. /\ core' = [core EXCEPT ![n] = d] /\ msgs' = msgs \cup out
      /\ chain' = chain /\ sealed' = sealed
  BY DEF Become
<1>2. TypeOK
  BY DEF IInv
<1>3. core' \in [Running -> CoreState] /\ msgs' \subseteq Message
      /\ chain' \in [Running -> Seq(Blocks)] /\ sealed' \subseteq Blocks
  BY <1>1, <1>2 DEF TypeOK, SentBy
<1>4. \A m \in msgs' : m.from \in Running /\ WellFormed(m)
  BY <1>1 DEF IInv, SentBy
<1>5. ASSUME NEW p \in Running PROVE LocalInv(p, core'[p], msgs')
  <2>1. CASE p = n
    BY <2>1, <1>1, <1>2 DEF TypeOK
  <2>2. CASE p # n
    <3>1. core'[p] = core[p]
      BY <2>2, <1>1, <1>2 DEF TypeOK
    <3>2. LocalInv(p, core[p], msgs)
      BY DEF IInv
    <3>3. \A m \in out : m.from # p
      BY <2>2 DEF SentBy
    <3>4. LocalInv(p, core[p], msgs \cup out)
      BY <3>2, <3>3, LocalInvMonotone
    <3> QED BY <1>1, <3>1, <3>4
  <2> QED BY <2>1, <2>2
<1>6. \A p \in Running : LocalInv(p, core[p], msgs)'
  BY <1>1, <1>5 DEF LocalInv, ViewInv, VoteInv, Height, GetProposer, VotesBacked
<1>7. \A p \in Running : Height(p)' <= MaxHeight
  BY <1>1 DEF IInv, Height
<1>8. ASSUME committed' = committed PROVE CommitCertificate'
  <2>1. CommitCertificate /\ msgs \subseteq msgs'
    BY <1>1 DEF IInv
  <2> QED BY <1>8, <2>1, CertificateMonotone DEF CommitCertificate
<1> QED BY <1>3, <1>4, <1>6, <1>7, <1>8 DEF WellFormed

-----------------------------------------------------------------------------
(* How the operators carry the local invariant. *)

\* Broadcasting messages that are not early for their sender.
LEMMA SendLocal ==
    ASSUME NEW n, NEW d, NEW ms, NEW out, LocalInv(n, d, ms),
           \A m \in out : ~Future(d, m)
    PROVE  LocalInv(n, d, ms \cup out)
<1>1. VotesBacked(d, ms \cup out)
  BY DEF LocalInv, VoteInv, VotesBacked
<1>2. ViewInv(n, d, ms \cup out)
  BY DEF LocalInv, ViewInv
<1> QED BY <1>1, <1>2 DEF LocalInv, VoteInv

\* Steps that only take messages out of the channels, or touch fields that the
\* invariant does not mention.
LEMMA SameLocal ==
    ASSUME NEW n, NEW c \in CoreState, NEW d \in CoreState, NEW ms, LocalInv(n, c, ms),
           SameVotes(c, d), d.state = c.state,
           d.backlog = c.backlog, d.backlogCh \subseteq c.backlogCh
    PROVE  LocalInv(n, d, ms)
<1>1. Waits(d) /\ \A m : Future(d, m) <=> Future(c, m)
  BY SameWaits DEF LocalInv, ViewInv, SameVotes, SameView, Future
<1>2. ViewInv(n, d, ms)
  BY <1>1 DEF LocalInv, ViewInv, SameVotes, IsHashLocked
<1>3. VoteInv(n, d, ms)
  BY DEF LocalInv, VoteInv, SameVotes, IsHashLocked, VotesBacked
<1> QED BY <1>2, <1>3 DEF LocalInv

\* Advancing the state inside a view.
LEMMA SetStateLocal ==
    ASSUME NEW n, NEW c \in CoreState, NEW s \in 1 .. 3, NEW first, NEW ms,
           ~c.waiting, c.seq <= Height(n) + 1,
           IsHashLocked(c) => c.prePrepare = c.lockedHash,
           s >= 2 => IsHashLocked(c),
           c.prePrepare # NoBlock, c.prePrepare.height = c.seq,
           c.proposer = CalcProposer(GetProposer(n, c.seq - 1), c.round),
           c.timer \/ c.timeouts > 0,
           c.backlog \cup c.backlogCh \subseteq ms \cup PeerMessages,
           \A m \in ms : m.from = n => ~Future(c, m),
           VotesBacked(c, ms)
    PROVE  LocalInv(n, setState(c, s, first), ms)
<1> DEFINE d == setState(c, s, first)
<1>1. /\ SameVotes(c, d) /\ d.state = s
      /\ d.backlog \subseteq c.backlog
      /\ d.backlogCh \subseteq c.backlogCh \cup c.backlog
      /\ Waits(d)
  BY SetStateFacts
<1> HIDE DEF d
<1>2. \A m : ~Future(c, m) => ~Future(d, m)
  BY <1>1 DEF SameVotes, Future, AcceptRequest
<1>3. ViewInv(n, d, ms)
  BY <1>1, <1>2 DEF ViewInv, SameVotes, IsHashLocked
<1>4. VotesBacked(d, ms)
  BY <1>1 DEF VotesBacked, SameVotes
<1>5. VoteInv(n, d, ms)
  BY <1>1, <1>4 DEF VoteInv, SameVotes, IsHashLocked, PrePrepared, Prepared
<1> QED BY <1>3, <1>5 DEF LocalInv, d

\* Leaving a round for a later one, to wait there.
LEMMA CatchUpLocal ==
    ASSUME NEW n, NEW c \in CoreState, NEW r \in Rounds, r > c.round, NEW ms,
           ms \subseteq Message, ViewInv(n, c, ms)
    PROVE  LocalInv(n, catchUpRound(c, r), ms)
<1> DEFINE d == catchUpRound(c, r)
<1>1. /\ d \in CoreState
      /\ d.seq = c.seq /\ d.round = r /\ d.waiting = TRUE /\ d.state = c.state
      /\ d.lockedHash = c.lockedHash
      /\ d.prePrepare = IF IsHashLocked(c) THEN c.prePrepare ELSE NoBlock
      /\ d.commits = {} /\ d.timer = TRUE
      /\ d.backlog = c.backlog /\ d.backlogCh \subseteq c.backlogCh
  BY CatchUpFacts
<1> HIDE DEF d
<1>2. c.seq \in Nat /\ c.round \in Nat /\ r \in Nat /\ c.backlog \subseteq Message
  BY BoundsAssumption DEF CoreState, SeqNumbers, Rounds
<1>3. Waits(d)
  <2>1. ASSUME NEW m \in Message, Current(d, m) PROVE Current(c, m)
    BY <1>1, <1>2, <2>1, MessageFields DEF Current, Old, Future
  <2> QED BY <1>1, <1>2, <2>1 DEF ViewInv, Waits
<1>4. ASSUME NEW m \in Message, ~Future(c, m) PROVE ~Future(d, m)
  BY <1>1, <1>2, <1>4, MessageFields DEF Future
<1>5. ViewInv(n, d, ms)
  BY <1>1, <1>2, <1>3, <1>4 DEF ViewInv, IsHashLocked
<1>6. VoteInv(n, d, ms)
  BY <1>1 DEF VoteInv, VotesBacked
<1> QED BY <1>5, <1>6 DEF LocalInv, d

\* The author of the last block is the proposer of the height it has.
LEMMA HeadProposer ==
    ASSUME NEW n, chain[n] \in Seq(Blocks)
    PROVE  /\ LastProposer(n) = GetProposer(n, Height(n))
           /\ Height(n) \in Nat /\ Height(n) >= GenesisHeight
<1>1. /\ Len(chain[n]) \in Nat /\ GenesisHeight \in Nat
      /\ chain[n] = <<>> <=> Len(chain[n]) = 0
  BY BoundsAssumption
<1>2. Height(n) - GenesisHeight = Len(chain[n])
  BY <1>1 DEF Height
<1>3. Height(n) \in Nat /\ Height(n) >= GenesisHeight
  BY <1>1 DEF Height
<1> QED BY <1>1, <1>2, <1>3 DEF LastProposer, GetProposer

\* Starting a round: of the next height, or a later one (or the awaited one)
\* of the same height.
LEMMA EnterRoundLocal ==
    ASSUME NEW n \in Running, chain[n] \in Seq(Blocks), NEW c \in CoreState,
           NEW s \in SeqNumbers, NEW r \in Rounds, NEW roundChange \in BOOLEAN, NEW first,
           NEW ms, ms \subseteq Message, ViewInv(n, c, ms),
           s = Height(n) + 1, roundChange => s = c.seq,
           s = c.seq => r >= c.round /\ (c.waiting \/ r > c.round)
    PROVE  LocalInv(n, EnterRound(n, c, s, r, roundChange, first), ms)
<1> DEFINE d == EnterRound(n, c, s, r, roundChange, first)
<1>1. Entered(n, c, s, r, roundChange, d)
  BY EnterRoundFacts
<1> HIDE DEF d
<1>2. /\ c.seq \in Nat /\ c.round \in Nat /\ r \in Nat /\ s \in Nat
      /\ Height(n) \in Nat /\ s - 1 = Height(n) /\ c.seq <= s
  BY BoundsAssumption, HeadProposer DEF CoreState, SeqNumbers, Rounds, ViewInv
<1>3. ASSUME NEW m \in Message, ~Future(c, m) PROVE ~Future(d, m)
  BY <1>1, <1>2, <1>3, MessageFields DEF Future, Entered
<1>4. \A m \in ms : m.from = n => ~Future(d, m)
  BY <1>3 DEF ViewInv
<1>5. ViewInv(n, d, ms)
  BY <1>1, <1>2, <1>4 DEF ViewInv, IsHashLocked, Entered
<1>6. d.proposer = CalcProposer(GetProposer(n, d.seq - 1), d.round)
  BY <1>1, <1>2, HeadProposer DEF Entered
<1>7. VoteInv(n, d, ms)
  BY <1>1, <1>6 DEF Entered, VoteInv, VotesBacked, AcceptRequest, PrePrepared, Prepared
<1> QED BY <1>5, <1>7 DEF LocalInv, d

LEMMA TakeFacts ==
    ASSUME NEW c \in CoreState, NEW m \in Message
    PROVE  LET d == Take(c, m) IN
           /\ d \in CoreState /\ SameVotes(c, d) /\ d.state = c.state
           /\ d.backlog = c.backlog /\ d.backlogCh \subseteq c.backlogCh
           /\ d.roundChanges = c.roundChanges
<1>1. Take(c, m) \in CoreState
  BY AcceptType
<1> QED BY <1>1 DEF Take, CoreState, SameVotes

LEMMA TakeLocal ==
    ASSUME NEW n, NEW c \in CoreState, NEW m \in Message, NEW ms, LocalInv(n, c, ms)
    PROVE  LocalInv(n, Take(c, m), ms)
BY TakeFacts, SameLocal

\* A handler that changes nothing but the core of n and what n has sent.
LEMMA HandlerStep ==
    ASSUME IInv, NEW n \in Running, NEW d \in CoreState, NEW out,
           SentBy(n, out), LocalInv(n, d, msgs \cup out), Become(n, d, out),
           UNCHANGED committed
    PROVE  IInv'
<1>1. /\ core' \in [Running -> CoreState] /\ msgs' \subseteq Message
      /\ chain' \in [Running -> Seq(Blocks)] /\ sealed' \subseteq Blocks
      /\ (\A m \in msgs : m.from \in Running /\ WellFormed(m))'
      /\ (\A p \in Running : Height(p) <= MaxHeight)'
      /\ (\A p \in Running : LocalInv(p, core[p], msgs))'
      /\ CommitCertificate'
  BY BecomeStep
<1>2. TypeOK'
  BY <1>1 DEF IInv, TypeOK
<1> QED BY <1>1, <1>2 DEF IInv

\* The same when nothing is sent.
LEMMA QuietStep ==
    ASSUME IInv, NEW n \in Running, NEW d \in CoreState,
           LocalInv(n, d, msgs), Become(n, d, {}), UNCHANGED committed
    PROVE  IInv'
<1>1. SentBy(n, {}) /\ msgs \cup {} = msgs
  BY DEF SentBy
<1> QED BY <1>1, HandlerStep

\* What a handler may rely on when it starts.
LEMMA HandlerStart ==
    ASSUME IInv, NEW n \in Running
    PROVE  /\ core[n] \in CoreState /\ chain[n] \in Seq(Blocks)
           /\ LocalInv(n, core[n], msgs) /\ msgs \subseteq Message
           /\ n \in Validators /\ Height(n) <= MaxHeight
           /\ core[n].seq \in Nat /\ core[n].round \in Nat /\ core[n].timeouts \in Nat
           /\ core[n].seq \in SeqNumbers /\ core[n].round \in Rounds
BY CoreAssumption, BoundsAssumption DEF IInv, TypeOK, CoreState, SeqNumbers, Rounds

LEMMA DeliverableType ==
    ASSUME IInv, NEW n \in Running, NEW m \in Deliverable(n)
    PROVE  /\ m \in Message /\ WellFormed(m) /\ m \in msgs \cup PeerMessages
           /\ m.seq \in Nat /\ m.round \in Rounds /\ m.round \in Nat
           /\ m.from \in Validators
<1>1. m \in msgs \cup PeerMessages
  <2>1. core[n].backlogCh \subseteq msgs \cup PeerMessages
    BY HandlerStart DEF LocalInv, ViewInv
  <2> QED BY <2>1 DEF Deliverable
<1>2. m \in Message /\ WellFormed(m)
  BY <1>1, CoreAssumption DEF IInv, TypeOK
<1> QED BY <1>1, <1>2, MessageFields, BoundsAssumption DEF Message, Rounds

-----------------------------------------------------------------------------
(* Messages. *)

LEMMA CurrentView ==
    ASSUME NEW c \in CoreState, NEW m \in Message, Current(c, m)
    PROVE  /\ m.seq = c.seq /\ m.round >= c.round
           /\ m.type # "RoundChange" => m.round = c.round /\ ~c.waiting
           /\ m.type \in {"Prepare", "Commit"} => c.state # AcceptRequest
<1>1. c.seq \in Nat /\ c.round \in Nat
  BY BoundsAssumption DEF CoreState, SeqNumbers, Rounds
<1> QED BY <1>1, MessageFields DEF Current, Old, Future

LEMMA FinalizeType ==
    ASSUME NEW n \in Validators, NEW c \in CoreState, NEW s \in SeqNumbers, NEW r \in Rounds,
           NEW hash \in Hashes, NEW type \in {"PrePrepare", "Prepare", "Commit", "RoundChange"}
    PROVE  LET m == finalizeMessage(n, c, type, s, r, hash) IN
           /\ m \in Message
           /\ m.type = type /\ m.from = n /\ m.seq = s /\ m.round = r /\ m.digest = hash
<1>1. c.prePrepare \in Hashes /\ NoBlock \in Hashes
  BY DEF CoreState, Hashes
<1> QED BY <1>1 DEF finalizeMessage, Message

\* A vote is never early for its own sender.
LEMMA VoteSent ==
    ASSUME NEW n \in Validators, NEW d \in CoreState, ~d.waiting, d.state # AcceptRequest,
           d.prePrepare # NoBlock, d.prePrepare.height = d.seq
    PROVE  /\ SentBy(n, SendPrepare(n, d)) /\ \A m \in SendPrepare(n, d) : ~Future(d, m)
           /\ SentBy(n, SendCommit(n, d)) /\ \A m \in SendCommit(n, d) : ~Future(d, m)
<1>1. /\ d.seq \in SeqNumbers /\ d.round \in Rounds /\ d.prePrepare \in Blocks
      /\ d.prePrepare \in Hashes /\ d.seq \in Nat /\ d.round \in Nat
  BY BoundsAssumption DEF CoreState, Hashes, SeqNumbers, Rounds
<1>2. ASSUME NEW type \in {"Prepare", "Commit"},
             NEW m, m = finalizeMessage(n, d, type, d.seq, d.round, d.prePrepare)
      PROVE  m \in Message /\ m.from = n /\ WellFormed(m) /\ ~Future(d, m)
  <2>1. /\ m \in Message /\ m.type = type /\ m.from = n /\ m.seq = d.seq
        /\ m.round = d.round /\ m.digest = d.prePrepare
    BY <1>1, <1>2, FinalizeType
  <2> QED BY <1>1, <2>1 DEF WellFormed, Future
<1> QED BY <1>2 DEF SendPrepare, SendCommit, SentBy

LEMMA ProposalSent ==
    ASSUME NEW n \in Validators, NEW c \in CoreState, ~c.waiting, NEW b \in Blocks
    PROVE  /\ SentBy(n, SendPrePrepare(n, c, b))
           /\ \A m \in SendPrePrepare(n, c, b) : ~Future(c, m)
<1> DEFINE m == finalizeMessage(n, c, "PrePrepare", c.seq, c.round, b)
<1>1. /\ c.seq \in SeqNumbers /\ c.round \in Rounds /\ b \in Hashes
      /\ c.seq \in Nat /\ c.round \in Nat
  BY BoundsAssumption DEF CoreState, Hashes, SeqNumbers, Rounds
<1>2. /\ m \in Message /\ m.type = "PrePrepare" /\ m.from = n /\ m.seq = c.seq
      /\ m.round = c.round /\ m.digest = b
  BY <1>1, FinalizeType
<1> HIDE DEF m
<1>3. SendPrePrepare(n, c, b) = {} \/ (c.seq = b.height /\ SendPrePrepare(n, c, b) = {m})
  BY DEF SendPrePrepare, m
<1> QED BY <1>1, <1>2, <1>3 DEF SentBy, WellFormed, Future

LEMMA RoundChangeSent ==
    ASSUME NEW n \in Validators, NEW c \in CoreState, NEW r \in Rounds, r > 0
    PROVE  /\ SentBy(n, RoundChangeMsg(n, c, r))
           /\ \A m \in RoundChangeMsg(n, c, r) : m.type = "RoundChange" /\ m.seq = c.seq
<1> DEFINE m == finalizeMessage(n, c, "RoundChange", c.seq, r, NoBlock)
<1>1. c.seq \in SeqNumbers /\ NoBlock \in Hashes
  BY DEF CoreState, Hashes
<1>2. /\ m \in Message /\ m.type = "RoundChange" /\ m.from = n /\ m.seq = c.seq
      /\ m.round = r /\ m.digest = NoBlock
  BY <1>1, FinalizeType
<1> HIDE DEF m
<1>3. RoundChangeMsg(n, c, r) = {m}
  BY DEF RoundChangeMsg, m
<1> QED BY <1>2, <1>3 DEF SentBy, WellFormed

\* Asking for a later round, from any state the handlers pass through.
LEMMA AskRoundStep ==
    ASSUME IInv, NEW n \in Running, NEW c \in CoreState, ViewInv(n, c, msgs),
           NEW r \in Rounds, r > c.round, NEW e \in CoreState, e.seq = c.seq,
           Become(n, catchUpRound(c, r), RoundChangeMsg(n, e, r)), UNCHANGED committed
    PROVE  IInv'
<1> DEFINE d == catchUpRound(c, r)
           out == RoundChangeMsg(n, e, r)
<1>1. d \in CoreState /\ d.seq = c.seq
  BY CatchUpFacts
<1>2. c.round \in Nat /\ r > 0 /\ c.seq \in Nat /\ n \in Validators
  BY BoundsAssumption, CoreAssumption DEF CoreState, SeqNumbers, Rounds
<1>3. SentBy(n, out) /\ \A m \in out : m.type = "RoundChange" /\ m.seq = c.seq
  BY <1>2, RoundChangeSent
<1>4. LocalInv(n, d, msgs)
  BY HandlerStart, CatchUpLocal
<1> HIDE DEF d, out
<1>5. \A m \in out : ~Future(d, m)
  BY <1>1, <1>2, <1>3 DEF Future
<1>6. LocalInv(n, d, msgs \cup out)
  BY <1>4, <1>5, SendLocal
<1> QED BY <1>1, <1>3, <1>6, HandlerStep DEF d, out

-----------------------------------------------------------------------------
(* One lemma per operation. *)

LEMMA RequestStep ==
    ASSUME IInv, NEW n \in Running, NEW b \in Blocks, Request(n, b) PROVE IInv'
<1> DEFINE d == [core[n] EXCEPT !.requestCh = @ \cup {b}]
<1>1. core[n] \in CoreState /\ LocalInv(n, core[n], msgs)
  BY HandlerStart
<1>2. /\ d \in CoreState /\ SameVotes(core[n], d) /\ d.state = core[n].state
      /\ d.backlog = core[n].backlog /\ d.backlogCh = core[n].backlogCh
  BY <1>1 DEF CoreState, SameVotes
<1>3. core' = [core EXCEPT ![n] = d] /\ msgs' = msgs /\ chain' = chain
      /\ committed' = committed /\ sealed' = sealed \cup {b}
  BY DEF Request
<1> HIDE DEF d
<1>4. LocalInv(n, d, msgs)
  BY <1>1, <1>2, SameLocal
<1>5. TypeOK'
  BY <1>2, <1>3 DEF IInv, TypeOK
<1>6. ASSUME NEW p \in Running PROVE LocalInv(p, core'[p], msgs)
  BY <1>3, <1>4 DEF IInv, TypeOK
<1>7. \A p \in Running : LocalInv(p, core[p], msgs)'
  BY <1>3, <1>6 DEF LocalInv, ViewInv, VoteInv, Height, GetProposer, VotesBacked
<1>8. CommitCertificate' /\ \A p \in Running : Height(p)' <= MaxHeight
  BY <1>3 DEF IInv, CommitCertificate, CommitSenders, Height
<1>9. (\A m \in msgs : m.from \in Running /\ WellFormed(m))'
  BY <1>3 DEF IInv, WellFormed
<1> QED BY <1>5, <1>7, <1>8, <1>9 DEF IInv

LEMMA HandleRequestStep ==
    ASSUME IInv, NEW n \in Running, NEW b \in core[n].requestCh,
           HandleRequest(n, b) \/ DeferRequest(n, b)
    PROVE  IInv'
<1> DEFINE c == [core[n] EXCEPT !.requestCh = @ \ {b}]
           c1 == [c EXCEPT !.pendingRequest = b]
           c2 == [c EXCEPT !.pendingRequests = @ \cup {b}]
<1>1. core[n] \in CoreState /\ LocalInv(n, core[n], msgs) /\ n \in Validators
  BY HandlerStart
<1>2. b \in Blocks /\ b \in Hashes
  BY <1>1 DEF CoreState, Hashes
<1>3. /\ c \in CoreState /\ SameVotes(core[n], c) /\ c.state = core[n].state
      /\ c.backlog = core[n].backlog /\ c.backlogCh = core[n].backlogCh
  BY <1>1 DEF CoreState, SameVotes
<1> USE DEF HandleRequest, DeferRequest
<1>4. Become(n, c, {}) \/ Become(n, c2, {}) \/ Become(n, c1, {})
      \/ (~c.waiting /\ Become(n, c1, SendPrePrepare(n, c, b)))
  OBVIOUS
<1>5. UNCHANGED committed
  OBVIOUS
<1> HIDE DEF c, HandleRequest, DeferRequest
<1>6. /\ c1 \in CoreState /\ SameVotes(c, c1) /\ c1.state = c.state
      /\ c1.backlog = c.backlog /\ c1.backlogCh = c.backlogCh
      /\ c2 \in CoreState /\ SameVotes(c, c2) /\ c2.state = c.state
      /\ c2.backlog = c.backlog /\ c2.backlogCh = c.backlogCh
  BY <1>2, <1>3 DEF CoreState, SameVotes
<1> HIDE DEF c1, c2
<1>7. LocalInv(n, c, msgs)
  BY <1>1, <1>3, SameLocal
<1>8. LocalInv(n, c1, msgs) /\ LocalInv(n, c2, msgs)
  BY <1>3, <1>6, <1>7, SameLocal
<1>9. ASSUME ~c.waiting, Become(n, c1, SendPrePrepare(n, c, b)) PROVE IInv'
  <2>1. /\ SentBy(n, SendPrePrepare(n, c, b))
        /\ \A m \in SendPrePrepare(n, c, b) : ~Future(c, m)
    BY <1>1, <1>2, <1>3, <1>9, ProposalSent
  <2>2. \A m \in SendPrePrepare(n, c, b) : ~Future(c1, m)
    BY <2>1, <1>6 DEF Future, SameVotes
  <2>3. LocalInv(n, c1, msgs \cup SendPrePrepare(n, c, b))
    BY <1>8, <2>2, SendLocal
  <2> QED BY <1>5, <1>6, <1>9, <2>1, <2>3, HandlerStep
<1> QED BY <1>3, <1>4, <1>5, <1>6, <1>7, <1>8, <1>9, QuietStep

LEMMA HandlePrePrepareStep ==
    ASSUME IInv, NEW n \in Running, NEW m \in Deliverable(n),
           HandlePrePrepare(n, m) \/ HandleLockedPrePrepare(n, m)
    PROVE  IInv'
<1> DEFINE c0 == core[n]
           c1 == Take(c0, m)
           c2 == acceptPrePrepare(c1, m.digest)
<1>1. /\ c0 \in CoreState /\ LocalInv(n, c0, msgs) /\ n \in Validators
      /\ m \in Message /\ WellFormed(m)
  BY HandlerStart, DeliverableType
<1>2. m.type = "PrePrepare" /\ Current(c0, m) /\ c0.state = AcceptRequest /\ UNCHANGED committed
  BY DEF HandlePrePrepare, HandleLockedPrePrepare, ProposalArrives
<1>pick. PICK first :
        \/ LET c3 == setState(c2, PrePrepared, first)
           IN ~IsHashLocked(c0) /\ Become(n, c3, SendPrepare(n, c3))
        \/ LET c4 == setState(c2, Prepared, first)
           IN m.digest = c0.lockedHash /\ Become(n, c4, SendCommit(n, c4))
  BY DEF HandlePrePrepare, HandleLockedPrePrepare
<1> DEFINE c3 == setState(c2, PrePrepared, first)
           c4 == setState(c2, Prepared, first)
<1> HIDE DEF c0
<1>3. m.seq = c0.seq /\ m.round = c0.round /\ ~c0.waiting
  BY <1>1, <1>2, CurrentView
<1>4. m.digest \in Blocks /\ m.digest # NoBlock /\ m.digest.height = c0.seq
  BY <1>1, <1>2, <1>3, CoreAssumption DEF WellFormed
<1>5. c1 \in CoreState /\ SameVotes(c0, c1) /\ c1.state = c0.state
      /\ c1.backlog = c0.backlog /\ c1.backlogCh \subseteq c0.backlogCh
  BY <1>1, TakeFacts
<1> HIDE DEF c1
<1>6. /\ c2 \in CoreState /\ c2.seq = c1.seq /\ c2.round = c1.round
      /\ c2.waiting = c1.waiting /\ c2.state = c1.state /\ c2.prePrepare = m.digest
      /\ c2.lockedHash = c1.lockedHash /\ c2.commits = c1.commits
      /\ c2.proposer = c1.proposer /\ c2.timer = c1.timer /\ c2.timeouts = c1.timeouts
      /\ c2.backlog = c1.backlog /\ c2.backlogCh = c1.backlogCh
  BY <1>1, <1>5, AcceptType DEF acceptPrePrepare, CoreState
<1> HIDE DEF c2
<1>7. c2.commits = {}
  BY <1>1, <1>2, <1>5, <1>6 DEF LocalInv, VoteInv, SameVotes, AcceptRequest, PrePrepared
<1>8. /\ ~c2.waiting /\ c2.seq <= Height(n) + 1
      /\ c2.prePrepare # NoBlock /\ c2.prePrepare.height = c2.seq
      /\ c2.proposer = CalcProposer(GetProposer(n, c2.seq - 1), c2.round)
      /\ c2.timer \/ c2.timeouts > 0
      /\ c2.backlog \cup c2.backlogCh \subseteq msgs \cup PeerMessages
      /\ VotesBacked(c2, msgs)
  BY <1>1, <1>3, <1>4, <1>5, <1>6, <1>7
     DEF LocalInv, ViewInv, VoteInv, SameVotes, VotesBacked
<1>9. \A q \in msgs : q.from = n => ~Future(c2, q)
  <2>1. \A q \in msgs : q.from = n => ~Future(c0, q)
    BY <1>1 DEF LocalInv, ViewInv
  <2> QED BY <2>1, <1>5, <1>6 DEF Future, SameVotes
<1>10. PrePrepared \in 1 .. 3 /\ PrePrepared < 2 /\ PrePrepared # AcceptRequest
       /\ Prepared \in 1 .. 3 /\ Prepared # AcceptRequest
  BY DEF PrePrepared, Prepared, AcceptRequest
<1>11. ASSUME NEW s \in {PrePrepared, Prepared}, s >= 2 => IsHashLocked(c2),
              IsHashLocked(c2) => c2.prePrepare = c2.lockedHash
       PROVE  LET d == setState(c2, s, first) IN
              /\ d \in CoreState /\ LocalInv(n, d, msgs)
              /\ SentBy(n, SendPrepare(n, d)) /\ \A q \in SendPrepare(n, d) : ~Future(d, q)
              /\ SentBy(n, SendCommit(n, d)) /\ \A q \in SendCommit(n, d) : ~Future(d, q)
  <2> DEFINE d == setState(c2, s, first)
  <2>1. s \in 0 .. 3 /\ s \in 1 .. 3 /\ s # AcceptRequest
    BY <1>10
  <2>2. d \in CoreState /\ SameVotes(c2, d) /\ d.state = s
    BY <1>6, <2>1, SetStateType, SetStateFacts
  <2>3. LocalInv(n, d, msgs)
    BY <1>6, <1>8, <1>9, <1>11, <2>1, SetStateLocal
  <2> HIDE DEF d
  <2>4. ~d.waiting /\ d.state # AcceptRequest
        /\ d.prePrepare # NoBlock /\ d.prePrepare.height = d.seq
    BY <1>8, <2>1, <2>2 DEF SameVotes
  <2>5. /\ SentBy(n, SendPrepare(n, d)) /\ \A q \in SendPrepare(n, d) : ~Future(d, q)
        /\ SentBy(n, SendCommit(n, d)) /\ \A q \in SendCommit(n, d) : ~Future(d, q)
    BY <1>1, <2>2, <2>4, VoteSent
  <2> QED BY <2>2, <2>3, <2>5 DEF d
<1>12. ASSUME ~IsHashLocked(c0), Become(n, c3, SendPrepare(n, c3)) PROVE IInv'
  <2>1. ~IsHashLocked(c2)
    BY <1>5, <1>6, <1>12 DEF IsHashLocked, SameVotes
  <2>2. /\ c3 \in CoreState /\ LocalInv(n, c3, msgs)
        /\ SentBy(n, SendPrepare(n, c3)) /\ \A q \in SendPrepare(n, c3) : ~Future(c3, q)
    BY <1>10, <1>11, <2>1
  <2> HIDE DEF c3
  <2>3. LocalInv(n, c3, msgs \cup SendPrepare(n, c3))
    BY <2>2, SendLocal
  <2> QED BY <1>2, <1>12, <2>2, <2>3, HandlerStep
<1>13. ASSUME m.digest = c0.lockedHash, Become(n, c4, SendCommit(n, c4)) PROVE IInv'
  <2>1. IsHashLocked(c2) /\ c2.prePrepare = c2.lockedHash
    BY <1>4, <1>5, <1>6, <1>13 DEF IsHashLocked, SameVotes
  <2>2. /\ c4 \in CoreState /\ LocalInv(n, c4, msgs)
        /\ SentBy(n, SendCommit(n, c4)) /\ \A q \in SendCommit(n, c4) : ~Future(c4, q)
    BY <1>10, <1>11, <2>1
  <2> HIDE DEF c4
  <2>3. LocalInv(n, c4, msgs \cup SendCommit(n, c4))
    BY <2>2, SendLocal
  <2> QED BY <1>2, <1>13, <2>2, <2>3, HandlerStep
<1> QED BY <1>12, <1>13, <1>pick

LEMMA HandleConflictingPrePrepareStep ==
    ASSUME IInv, NEW n \in Running, NEW m \in Deliverable(n),
           HandleConflictingPrePrepare(n, m)
    PROVE  IInv'
<1> DEFINE r == core[n].round + 1
           c == Take(core[n], m)
<1>1. /\ core[n] \in CoreState /\ LocalInv(n, core[n], msgs) /\ m \in Message
      /\ core[n].round \in Nat
  BY HandlerStart, DeliverableType
<1>2. /\ core[n].round < MaxRound /\ UNCHANGED committed
      /\ Become(n, catchUpRound(c, r), RoundChangeMsg(n, catchUpRound(c, r), r))
  BY DEF HandleConflictingPrePrepare
<1>3. c \in CoreState /\ SameVotes(core[n], c) /\ LocalInv(n, c, msgs)
  BY <1>1, TakeFacts, TakeLocal
<1> HIDE DEF c
<1>4. r \in Rounds /\ r > c.round /\ ViewInv(n, c, msgs)
  BY <1>1, <1>2, <1>3, BoundsAssumption DEF Rounds, SameVotes, LocalInv
<1> HIDE DEF r
<1>5. catchUpRound(c, r) \in CoreState /\ catchUpRound(c, r).seq = c.seq
  BY <1>3, <1>4, CatchUpFacts
<1> QED BY <1>2, <1>3, <1>4, <1>5, AskRoundStep

LEMMA HandleOldPrePrepareStep ==
    ASSUME IInv, NEW n \in Running, NEW m \in Deliverable(n), HandleOldPrePrepare(n, m)
    PROVE  IInv'
<1> DEFINE c == Take(core[n], m)
           q == finalizeMessage(n, c, "Commit", m.seq, m.round, m.digest)
           out == sendCommitForOldBlock(n, c, m)
<1>1. /\ core[n] \in CoreState /\ LocalInv(n, core[n], msgs) /\ n \in Validators
      /\ core[n].seq \in Nat /\ core[n].round \in Nat
      /\ m \in Message /\ WellFormed(m) /\ m.seq \in Nat /\ m.round \in Nat
  BY HandlerStart, DeliverableType
<1>2. m.type = "PrePrepare" /\ Old(core[n], m) /\ UNCHANGED committed /\ Become(n, c, out)
  BY DEF HandleOldPrePrepare, ProposedOldBlock
<1>3. c \in CoreState /\ SameVotes(core[n], c) /\ LocalInv(n, c, msgs)
  BY <1>1, TakeFacts, TakeLocal
<1> HIDE DEF c
<1>4. m.seq \in SeqNumbers /\ m.round \in Rounds /\ m.digest \in Hashes
  BY <1>1 DEF Message
<1>5. /\ q \in Message /\ q.type = "Commit" /\ q.from = n /\ q.seq = m.seq
      /\ q.round = m.round /\ q.digest = m.digest
  BY <1>1, <1>3, <1>4, FinalizeType
<1>6. out = {q}
  BY DEF sendCommitForOldBlock
<1> HIDE DEF q, out
<1>7. SentBy(n, out) /\ \A x \in out : ~Future(c, x)
  BY <1>1, <1>2, <1>3, <1>5, <1>6 DEF SentBy, WellFormed, Old, Future, SameVotes
<1>8. LocalInv(n, c, msgs \cup out)
  BY <1>3, <1>7, SendLocal
<1> QED BY <1>2, <1>3, <1>7, <1>8, HandlerStep

\* Locking the accepted proposal and advancing to Prepared or Committed.
LEMMA LockLocal ==
    ASSUME NEW n, NEW c \in CoreState, NEW s \in 2 .. 3, NEW first, NEW ms, LocalInv(n, c, ms),
           ~c.waiting, c.state # AcceptRequest, c.prePrepare # NoBlock
    PROVE  LET d == setState(LockHash(c), s, first) IN
           /\ d \in CoreState /\ LocalInv(n, d, ms) /\ d.state = s /\ ~d.waiting
           /\ d.seq = c.seq /\ d.round = c.round /\ d.prePrepare = c.prePrepare
           /\ d.commits = c.commits
<1> DEFINE l == LockHash(c)
           d == setState(l, s, first)
<1>1. /\ l \in CoreState /\ l.lockedHash = c.prePrepare
      /\ l.seq = c.seq /\ l.round = c.round /\ l.waiting = c.waiting /\ l.state = c.state
      /\ l.prePrepare = c.prePrepare /\ l.commits = c.commits /\ l.proposer = c.proposer
      /\ l.timer = c.timer /\ l.timeouts = c.timeouts
      /\ l.backlog = c.backlog /\ l.backlogCh = c.backlogCh
  BY LockType DEF LockHash, CoreState
<1> HIDE DEF l
<1>2. s \in 0 .. 3 /\ s \in 1 .. 3
  OBVIOUS
<1>3. d \in CoreState /\ SameVotes(l, d) /\ d.state = s
  BY <1>1, <1>2, SetStateType, SetStateFacts
<1>4. /\ ~l.waiting /\ l.seq <= Height(n) + 1 /\ IsHashLocked(l)
      /\ l.prePrepare = l.lockedHash /\ l.prePrepare # NoBlock /\ l.prePrepare.height = l.seq
      /\ l.proposer = CalcProposer(GetProposer(n, l.seq - 1), l.round)
      /\ l.timer \/ l.timeouts > 0
      /\ l.backlog \cup l.backlogCh \subseteq ms \cup PeerMessages
      /\ VotesBacked(l, ms)
  BY <1>1 DEF LocalInv, ViewInv, VoteInv, VotesBacked, IsHashLocked
<1>5. \A m \in ms : m.from = n => ~Future(l, m)
  BY <1>1 DEF LocalInv, ViewInv, Future
<1>6. LocalInv(n, d, ms)
  BY <1>1, <1>2, <1>4, <1>5, SetStateLocal
<1> HIDE DEF d
<1>7. /\ d.state = s /\ ~d.waiting /\ d.seq = c.seq /\ d.round = c.round
      /\ d.prePrepare = c.prePrepare /\ d.commits = c.commits
  BY <1>1, <1>3 DEF SameVotes
<1> QED BY <1>3, <1>6, <1>7 DEF d, l

LEMMA HandlePrepareStep ==
    ASSUME IInv, NEW n \in Running, NEW m \in Deliverable(n), HandlePrepare(n, m)
    PROVE  IInv'
<1> DEFINE c1 == Take(core[n], m)
           c == acceptPrepare(c1, m)
<1>1. /\ core[n] \in CoreState /\ LocalInv(n, core[n], msgs) /\ n \in Validators
      /\ m \in Message
  BY HandlerStart, DeliverableType
<1>2. /\ m.type = "Prepare" /\ Current(core[n], m) /\ core[n].prePrepare # NoBlock
      /\ UNCHANGED committed
  BY DEF HandlePrepare, VoteArrives
<1>pick. PICK first :
        \/ Become(n, c, {})
        \/ LET d == setState(LockHash(c), Prepared, first) IN Become(n, d, SendCommit(n, d))
  BY DEF HandlePrepare
<1> DEFINE d == setState(LockHash(c), Prepared, first)
<1>3. /\ c1 \in CoreState /\ SameVotes(core[n], c1) /\ c1.state = core[n].state
      /\ LocalInv(n, c1, msgs)
  BY <1>1, TakeFacts, TakeLocal
<1> HIDE DEF c1
<1>4. /\ c \in CoreState /\ SameVotes(c1, c) /\ c.state = c1.state
      /\ c.backlog = c1.backlog /\ c.backlogCh = c1.backlogCh
  BY <1>1, <1>3, AcceptType DEF acceptPrepare, CoreState, SameVotes
<1> HIDE DEF c
<1>5. LocalInv(n, c, msgs)
  BY <1>3, <1>4, SameLocal
<1>6. ~c.waiting /\ c.state # AcceptRequest /\ c.prePrepare # NoBlock
  BY <1>1, <1>2, <1>3, <1>4, CurrentView DEF SameVotes
<1>7. Prepared \in 2 .. 3 /\ Prepared # AcceptRequest
  BY DEF Prepared, AcceptRequest
<1>8. /\ d \in CoreState /\ LocalInv(n, d, msgs) /\ d.state = Prepared /\ ~d.waiting
      /\ d.seq = c.seq /\ d.prePrepare = c.prePrepare
  BY <1>4, <1>5, <1>6, <1>7, LockLocal
<1> HIDE DEF d
<1>9. d.prePrepare.height = d.seq
  BY <1>5, <1>6, <1>8 DEF LocalInv, ViewInv
<1>10. SentBy(n, SendCommit(n, d)) /\ \A q \in SendCommit(n, d) : ~Future(d, q)
  BY <1>1, <1>6, <1>7, <1>8, <1>9, VoteSent
<1>11. LocalInv(n, d, msgs \cup SendCommit(n, d))
  BY <1>8, <1>10, SendLocal
<1>13. CASE Become(n, c, {})
  BY <1>2, <1>4, <1>5, <1>13, QuietStep
<1>14. CASE Become(n, d, SendCommit(n, d))
  BY <1>2, <1>8, <1>10, <1>11, <1>14, HandlerStep
<1> QED BY <1>pick, <1>13, <1>14 DEF d

\* A Commit for the accepted proposal is recorded.
LEMMA AcceptCommitLocal ==
    ASSUME NEW n, NEW c \in CoreState, NEW ms, LocalInv(n, c, ms),
           NEW m \in Message, m \in ms \cup PeerMessages, m.type = "Commit",
           Current(c, m), m.digest = c.prePrepare
    PROVE  LET d == acceptCommit(c, m) IN
           /\ d \in CoreState /\ LocalInv(n, d, ms) /\ SameView(c, d)
           /\ d.prePrepare = c.prePrepare
<1> DEFINE d == acceptCommit(c, m)
<1>1. /\ d \in CoreState /\ d.seq = c.seq /\ d.round = c.round /\ d.waiting = c.waiting
      /\ d.state = c.state /\ d.prePrepare = c.prePrepare /\ d.lockedHash = c.lockedHash
      /\ d.proposer = c.proposer /\ d.timer = c.timer /\ d.timeouts = c.timeouts
      /\ d.backlog = c.backlog /\ d.backlogCh = c.backlogCh
      /\ d.commits = {v \in c.commits : v.from # m.from}
                       \cup {[from |-> m.from, seal |-> m.seal]}
  BY AcceptType DEF acceptCommit, CoreState
<1> HIDE DEF d
<1>2. m.seq = c.seq /\ m.round = c.round /\ ~c.waiting /\ c.state # AcceptRequest
  BY CurrentView
<1>3. c.state >= PrePrepared
  BY <1>2 DEF CoreState, AcceptRequest, PrePrepared, Committed
<1>4. ViewInv(n, d, ms)
  <2>1. Waits(d) /\ \A q : Future(d, q) <=> Future(c, q)
    BY <1>1, SameWaits DEF LocalInv, ViewInv, SameView, Future
  <2> QED BY <1>1, <2>1 DEF LocalInv, ViewInv, IsHashLocked
<1>5. VotesBacked(d, ms)
  <2>1. VotesBacked(c, ms)
    BY DEF LocalInv, VoteInv
  <2>2. ASSUME NEW v \in d.commits
        PROVE  \E q \in ms \cup PeerMessages :
                  /\ q.type = "Commit" /\ q.from = v.from /\ q.digest = d.prePrepare
                  /\ q.seq = d.seq /\ q.round = d.round
    BY <1>1, <1>2, <2>1 DEF VotesBacked
  <2>3. \A v, w \in d.commits : v.from = w.from => v = w
    BY <1>1, <2>1 DEF VotesBacked
  <2> QED BY <2>2, <2>3 DEF VotesBacked
<1>6. VoteInv(n, d, ms)
  BY <1>1, <1>2, <1>3, <1>5 DEF LocalInv, VoteInv, IsHashLocked
<1> QED BY <1>1, <1>4, <1>6 DEF LocalInv, SameView, d

\* What the three cases of a Commit have in common.
LEMMA CommitAccepted ==
    ASSUME IInv, NEW n \in Running, NEW m \in Deliverable(n),
           m.type = "Commit", VoteArrives(n, m)
    PROVE  LET c == acceptCommit(Take(core[n], m), m) IN
           /\ c \in CoreState /\ LocalInv(n, c, msgs) /\ SameView(core[n], c)
           /\ ~c.waiting /\ c.state # AcceptRequest
           /\ c.prePrepare # NoBlock /\ c.prePrepare \in Blocks
<1> DEFINE c1 == Take(core[n], m)
           c == acceptCommit(c1, m)
<1>1. /\ core[n] \in CoreState /\ LocalInv(n, core[n], msgs)
      /\ m \in Message /\ m \in msgs \cup PeerMessages
  BY HandlerStart, DeliverableType
<1>2. Current(core[n], m) /\ core[n].prePrepare # NoBlock /\ m.digest = core[n].prePrepare
  BY DEF VoteArrives
<1>3. /\ c1 \in CoreState /\ SameVotes(core[n], c1) /\ c1.state = core[n].state
      /\ LocalInv(n, c1, msgs)
  BY <1>1, TakeFacts, TakeLocal
<1> HIDE DEF c1
<1>4. Current(c1, m) /\ m.digest = c1.prePrepare
  BY <1>2, <1>3 DEF SameVotes, Current, Old, Future
<1>5. /\ c \in CoreState /\ LocalInv(n, c, msgs) /\ SameView(c1, c)
      /\ c.prePrepare = c1.prePrepare
  BY <1>1, <1>3, <1>4, AcceptCommitLocal
<1> HIDE DEF c
<1>6. ~c1.waiting /\ c1.state # AcceptRequest
  BY <1>1, <1>3, <1>4, CurrentView
<1>7. /\ SameView(core[n], c) /\ ~c.waiting /\ c.state # AcceptRequest
      /\ c.prePrepare # NoBlock
  BY <1>2, <1>3, <1>5, <1>6 DEF SameView, SameVotes
<1>8. c.prePrepare \in Blocks
  BY <1>5, <1>7 DEF CoreState, Hashes
<1> QED BY <1>5, <1>7, <1>8 DEF c, c1

LEMMA HandleCommitStep ==
    ASSUME IInv, NEW n \in Running, NEW m \in Deliverable(n), HandleCommit(n, m)
    PROVE  IInv'
<1> DEFINE c == acceptCommit(Take(core[n], m), m)
<1>1. m.type = "Commit" /\ VoteArrives(n, m) /\ Become(n, c, {}) /\ UNCHANGED committed
  BY DEF HandleCommit
<1>2. c \in CoreState /\ LocalInv(n, c, msgs)
  BY <1>1, CommitAccepted
<1> HIDE DEF c
<1> QED BY <1>1, <1>2, QuietStep

\* There are as many senders as recorded Commits.
LEMMA CommitsCount ==
    ASSUME NEW c \in CoreState, NEW ms, VotesBacked(c, ms)
    PROVE  /\ {v.from : v \in c.commits} \in SUBSET Validators
           /\ Cardinality({v.from : v \in c.commits}) = Cardinality(c.commits)
<1> DEFINE S == c.commits
           T == {v.from : v \in S}
           f == [v \in S |-> v.from]
<1>1. T \in SUBSET Validators
  BY DEF CoreState, Vote
<1>2. IsFiniteSet(T)
  BY <1>1, SubsetOfValidators
<1>3. \A v, w \in S : v.from = w.from => v = w
  BY DEF VotesBacked
<1> HIDE DEF S
<1>4. f \in Injection(S, T) /\ f \in Surjection(S, T)
  BY <1>3 DEF Injection, Surjection, IsInjective
<1> HIDE DEF T, f
<1>5. Cardinality(S) = Cardinality(T)
  BY <1>2, <1>4, FS_Injection
<1> QED BY <1>1, <1>5 DEF S, T

LEMMA HandleDecidingCommitStep ==
    ASSUME IInv, NEW n \in Running, NEW m \in Deliverable(n), HandleDecidingCommit(n, m)
    PROVE  IInv'
<1> DEFINE c == acceptCommit(Take(core[n], m), m)
<1>pick. PICK first :
        LET d == setState(LockHash(c), Committed, first)
        IN /\ Become(n, d, {})
           /\ committed' = committed \cup
                {[node |-> n, seq |-> d.seq, round |-> d.round,
                  block |-> d.prePrepare, votes |-> d.commits]}
  BY DEF HandleDecidingCommit
<1> DEFINE d == setState(LockHash(c), Committed, first)
           e == [node |-> n, seq |-> d.seq, round |-> d.round,
                 block |-> d.prePrepare, votes |-> d.commits]
<1>1. /\ m.type = "Commit" /\ VoteArrives(n, m) /\ CommitQuorum(c)
      /\ Become(n, d, {}) /\ committed' = committed \cup {e}
  BY <1>pick DEF HandleDecidingCommit
<1>2. /\ c \in CoreState /\ LocalInv(n, c, msgs) /\ ~c.waiting /\ c.state # AcceptRequest
      /\ c.prePrepare # NoBlock /\ c.prePrepare \in Blocks
  BY <1>1, CommitAccepted
<1> HIDE DEF c
<1>3. Committed \in 2 .. 3
  BY DEF Committed
<1>4. /\ d \in CoreState /\ LocalInv(n, d, msgs) /\ d.prePrepare = c.prePrepare
      /\ d.commits = c.commits
  BY <1>2, <1>3, LockLocal
<1> HIDE DEF d
<1>5. SentBy(n, {}) /\ msgs \cup {} = msgs
  BY DEF SentBy
<1>6. /\ core' \in [Running -> CoreState] /\ msgs' \subseteq Message
      /\ chain' \in [Running -> Seq(Blocks)] /\ sealed' \subseteq Blocks
      /\ (\A q \in msgs : q.from \in Running /\ WellFormed(q))'
      /\ (\A p \in Running : Height(p) <= MaxHeight)'
      /\ (\A p \in Running : LocalInv(p, core[p], msgs))'
  BY <1>1, <1>4, <1>5, BecomeStep
<1>7. e \in Commitment
  BY <1>2, <1>4, HandlerStart DEF Commitment, CoreState
<1>8. e.block = d.prePrepare /\ e.seq = d.seq /\ e.round = d.round
  OBVIOUS
<1> HIDE DEF e
<1>9. TypeOK'
  BY <1>1, <1>6, <1>7 DEF IInv, TypeOK
<1>10. IsQuorum(CommitSenders(e, msgs))
  <2> DEFINE Q == {v.from : v \in d.commits}
  <2>1. VotesBacked(d, msgs)
    BY <1>4 DEF LocalInv, VoteInv
  <2>2. Q \in SUBSET Validators /\ Cardinality(Q) = Cardinality(d.commits)
    BY <1>4, <2>1, CommitsCount
  <2>3. IsQuorum(Q)
    BY <1>1, <1>4, <2>2 DEF CommitQuorum, IsQuorum
  <2>4. Q \subseteq CommitSenders(e, msgs)
    BY <1>8, <2>1, <2>2 DEF CommitSenders, VotesBacked
  <2>5. CommitSenders(e, msgs) \in SUBSET Validators
    BY DEF CommitSenders
  <2> HIDE DEF Q
  <2> QED BY <2>2, <2>3, <2>4, <2>5, QuorumMonotone
<1>11. CommitCertificate'
  <2>1. msgs' = msgs
    BY <1>1 DEF Become
  <2>2. \A x \in committed' : IsQuorum(CommitSenders(x, msgs))
    BY <1>1, <1>10 DEF IInv, CommitCertificate
  <2> QED BY <2>1, <2>2 DEF CommitCertificate
<1> QED BY <1>6, <1>9, <1>11 DEF IInv

LEMMA HandleFailedCommitStep ==
    ASSUME IInv, NEW n \in Running, NEW m \in Deliverable(n), HandleFailedCommit(n, m)
    PROVE  IInv'
<1> DEFINE c == acceptCommit(Take(core[n], m), m)
<1>pick. PICK first :
        LET d == setState(LockHash(c), Committed, first)
            next == catchUpRound(UnlockHash(d), d.round + 1)
        IN Become(n, next, RoundChangeMsg(n, next, next.round))
  BY DEF HandleFailedCommit
<1> DEFINE d == setState(LockHash(c), Committed, first)
           u == UnlockHash(d)
           r == d.round + 1
<1>1. /\ m.type = "Commit" /\ VoteArrives(n, m) /\ core[n].round < MaxRound
      /\ UNCHANGED committed
      /\ Become(n, catchUpRound(u, r),
                RoundChangeMsg(n, catchUpRound(u, r), catchUpRound(u, r).round))
  BY <1>pick DEF HandleFailedCommit
<1>2. /\ c \in CoreState /\ LocalInv(n, c, msgs) /\ ~c.waiting /\ c.state # AcceptRequest
      /\ c.prePrepare # NoBlock /\ SameView(core[n], c)
  BY <1>1, CommitAccepted
<1> HIDE DEF c
<1>3. Committed \in 2 .. 3
  BY DEF Committed
<1>4. d \in CoreState /\ LocalInv(n, d, msgs) /\ d.round = c.round
  BY <1>2, <1>3, LockLocal
<1> HIDE DEF d
<1>5. /\ u \in CoreState /\ u.lockedHash = NoBlock /\ SameView(d, u)
      /\ u.prePrepare = d.prePrepare /\ u.backlog = d.backlog /\ u.backlogCh = d.backlogCh
  BY <1>4, LockType DEF UnlockHash, CoreState, SameView
<1> HIDE DEF u
<1>6. ViewInv(n, u, msgs)
  BY <1>4, <1>5, SameWaits DEF LocalInv, ViewInv, IsHashLocked, SameView, Future
<1>7. r \in Rounds /\ r > u.round
  BY <1>1, <1>2, <1>4, <1>5, HandlerStart, BoundsAssumption DEF SameView, Rounds
<1> HIDE DEF r
<1>8. /\ catchUpRound(u, r) \in CoreState /\ catchUpRound(u, r).seq = u.seq
      /\ catchUpRound(u, r).round = r
  BY <1>5, <1>7, CatchUpFacts
<1> QED BY <1>1, <1>5, <1>6, <1>7, <1>8, AskRoundStep

\* The chain has reached the current height: start the next one.
LEMMA NextHeightStep ==
    ASSUME IInv, NEW n \in Running, NEW c \in CoreState, ViewInv(n, c, msgs), NEW r, NEW first,
           Height(n) >= c.seq, Become(n, StartNewRound(n, c, r, first), {}), UNCHANGED committed
    PROVE  IInv'
<1> DEFINE s == Height(n) + 1
           d == EnterRound(n, c, s, 0, FALSE, first)
<1>1. /\ chain[n] \in Seq(Blocks) /\ Height(n) <= MaxHeight
      /\ Height(n) \in Nat /\ Height(n) >= GenesisHeight /\ msgs \subseteq Message
  BY HandlerStart, HeadProposer
<1>2. StartNewRound(n, c, r, first) = d
  BY DEF StartNewRound
<1>3. s \in SeqNumbers /\ 0 \in Rounds /\ c.seq \in Nat /\ s # c.seq
  BY <1>1, BoundsAssumption DEF SeqNumbers, Rounds, CoreState
<1>4. s = Height(n) + 1
  OBVIOUS
<1> HIDE DEF s
<1>5. LocalInv(n, d, msgs)
  BY <1>1, <1>3, <1>4, EnterRoundLocal
<1>6. d \in CoreState
  <2>1. Entered(n, c, s, 0, FALSE, d)
    BY <1>3, EnterRoundFacts
  <2> QED BY <2>1 DEF Entered
<1> HIDE DEF d
<1> QED BY <1>2, <1>5, <1>6, QuietStep

LEMMA ReproposeSent ==
    ASSUME NEW n \in Validators, NEW c \in CoreState, ~c.waiting,
           IsHashLocked(c) => c.prePrepare = c.lockedHash
    PROVE  SentBy(n, Repropose(n, c)) /\ \A m \in Repropose(n, c) : ~Future(c, m)
<1>1. Repropose(n, c) = {} \/ \E b \in Blocks : Repropose(n, c) = SendPrePrepare(n, c, b)
  <2>1. c.prePrepare \in Blocks \cup {NoBlock} /\ c.pendingRequest \in Blocks \cup {NoBlock}
    BY DEF CoreState, Hashes
  <2> QED BY <2>1 DEF Repropose, IsHashLocked
<1>2. SentBy(n, {})
  BY DEF SentBy
<1> QED BY <1>1, <1>2, ProposalSent

LEMMA HandleRoundChangeStep ==
    ASSUME IInv, NEW n \in Running, NEW m \in Deliverable(n), HandleRoundChange(n, m)
    PROVE  IInv'
<1> DEFINE c1 == Take(core[n], m)
           c == roundChangeSetAdd(c1, m)
           joined == catchUpRound(c, m.round)
<1>1. /\ core[n] \in CoreState /\ LocalInv(n, core[n], msgs) /\ n \in Validators
      /\ chain[n] \in Seq(Blocks) /\ Height(n) <= MaxHeight /\ msgs \subseteq Message
      /\ m \in Message /\ WellFormed(m) /\ m.round \in Rounds /\ m.round \in Nat
      /\ m.from \in Validators
  BY HandlerStart, DeliverableType
<1>2. /\ m.type = "RoundChange" /\ Current(core[n], m) /\ UNCHANGED committed
  BY DEF HandleRoundChange
<1>pick. PICK first :
        \/ LET started == StartNewRound(n, c, m.round, first)
           IN /\ StartsRound(c, m)
              /\ Become(n, started, IF Height(n) < c.seq THEN Repropose(n, started) ELSE {})
        \/ /\ JoinsRound(c, m)
           /\ Become(n, joined, RoundChangeMsg(n, joined, m.round))
        \/ Become(n, c, {})
  BY DEF HandleRoundChange
<1> DEFINE started == StartNewRound(n, c, m.round, first)
<1>3. /\ c1 \in CoreState /\ SameVotes(core[n], c1) /\ c1.state = core[n].state
      /\ LocalInv(n, c1, msgs)
  BY <1>1, TakeFacts, TakeLocal
<1> HIDE DEF c1
<1>4. /\ c \in CoreState /\ SameVotes(c1, c) /\ c.state = c1.state
      /\ c.backlog = c1.backlog /\ c.backlogCh = c1.backlogCh
  BY <1>1, <1>3 DEF roundChangeSetAdd, CoreState, SameVotes
<1> HIDE DEF c
<1>5. LocalInv(n, c, msgs) /\ ViewInv(n, c, msgs)
  BY <1>3, <1>4, SameLocal DEF LocalInv
<1>6. m.seq = c.seq /\ m.round >= c.round /\ m.round # 0
  BY <1>1, <1>2, <1>3, <1>4, CurrentView DEF SameVotes, WellFormed
<1>7. ASSUME JoinsRound(c, m), Become(n, joined, RoundChangeMsg(n, joined, m.round))
      PROVE  IInv'
  <2>1. m.round > c.round
    BY <1>1, <1>4, <1>7 DEF JoinsRound, CoreState, Rounds
  <2>2. joined \in CoreState /\ joined.seq = c.seq
    BY <1>1, <1>4, CatchUpFacts
  <2> QED BY <1>1, <1>2, <1>4, <1>5, <1>7, <2>1, <2>2, AskRoundStep
<1>8. ASSUME StartsRound(c, m),
             Become(n, started, IF Height(n) < c.seq THEN Repropose(n, started) ELSE {})
      PROVE  IInv'
  <2>1. Height(n) \in Nat /\ c.seq \in Nat /\ c.seq <= Height(n) + 1 /\ c.seq \in SeqNumbers
        /\ c.round \in Nat
    BY <1>1, <1>4, <1>5, HeadProposer, BoundsAssumption
       DEF ViewInv, CoreState, SeqNumbers, Rounds
  <2>2. CASE Height(n) >= c.seq
    <3>1. Become(n, started, {})
      BY <1>8, <2>1, <2>2
    <3> QED BY <1>2, <1>4, <1>5, <2>2, <3>1, NextHeightStep
  <2>3. CASE Height(n) < c.seq
    <3> DEFINE d == EnterRound(n, c, c.seq, m.round, TRUE, first)
    <3>1. Height(n) = c.seq - 1 /\ c.seq = Height(n) + 1
      BY <2>1, <2>3
    <3>2. started = d
      <4>1. ~(Height(n) >= c.seq) /\ Height(n) = c.seq - 1
        BY <2>1, <2>3, <3>1
      <4> QED BY <1>6, <4>1, Zenon DEF StartNewRound
    <3>3. c.waiting \/ m.round > c.round
      BY <1>1, <1>8, <2>1 DEF StartsRound
    <3>4. Entered(n, c, c.seq, m.round, TRUE, d)
      BY <1>1, <1>4, <2>1, EnterRoundFacts
    <3>5. LocalInv(n, d, msgs)
      BY <1>1, <1>4, <1>5, <1>6, <2>1, <3>1, <3>3, EnterRoundLocal
    <3> HIDE DEF d, started
    <3>6. /\ d \in CoreState /\ ~d.waiting
          /\ IsHashLocked(d) => d.prePrepare = d.lockedHash
      BY <3>4, <3>5 DEF Entered, LocalInv, ViewInv
    <3>7. SentBy(n, Repropose(n, d)) /\ \A q \in Repropose(n, d) : ~Future(d, q)
      BY <1>1, <3>6, ReproposeSent
    <3>8. LocalInv(n, d, msgs \cup Repropose(n, d))
      BY <3>5, <3>7, SendLocal
    <3>9. Become(n, d, Repropose(n, d))
      BY <1>8, <2>3, <3>2
    <3> QED BY <1>2, <3>6, <3>7, <3>8, <3>9, HandlerStep
  <2> QED BY <2>1, <2>2, <2>3
<1> QED BY <1>2, <1>4, <1>5, <1>7, <1>8, <1>pick, QuietStep

LEMMA HandleFutureMessageStep ==
    ASSUME IInv, NEW n \in Running, NEW m \in Deliverable(n), HandleFutureMessage(n, m)
    PROVE  IInv'
<1> DEFINE c == Take(core[n], m)
           d == [c EXCEPT !.backlog = @ \cup {m}]
<1>1. /\ core[n] \in CoreState /\ LocalInv(n, core[n], msgs)
      /\ m \in Message /\ m \in msgs \cup PeerMessages
  BY HandlerStart, DeliverableType
<1>2. /\ Future(core[n], m) /\ UNCHANGED committed
      /\ Become(n, c, {}) \/ Become(n, d, {})
  BY DEF HandleFutureMessage, StoreBacklog
<1>3. /\ c \in CoreState /\ SameVotes(core[n], c) /\ c.state = core[n].state
      /\ LocalInv(n, c, msgs)
  BY <1>1, TakeFacts, TakeLocal
<1> HIDE DEF c
<1>4. ~Current(c, m)
  BY <1>2, <1>3 DEF Current, Future, SameVotes
<1>5. /\ d \in CoreState /\ SameVotes(c, d) /\ d.state = c.state
      /\ d.backlog = c.backlog \cup {m} /\ d.backlogCh = c.backlogCh
  BY <1>1, <1>3 DEF CoreState, SameVotes
<1> HIDE DEF d
<1>6. /\ \A q : Future(d, q) <=> Future(c, q)
      /\ Waits(d)
  <2>1. \A q : (Current(d, q) <=> Current(c, q)) /\ (Future(d, q) <=> Future(c, q))
    BY <1>5 DEF SameVotes, Current, Old, Future
  <2>2. Waits(c)
    BY <1>3 DEF LocalInv, ViewInv
  <2> QED BY <1>4, <1>5, <2>1, <2>2 DEF Waits
<1>7. ViewInv(n, d, msgs)
  BY <1>1, <1>3, <1>4, <1>5, <1>6 DEF LocalInv, ViewInv, SameVotes, IsHashLocked
<1>8. VoteInv(n, d, msgs)
  BY <1>3, <1>5 DEF LocalInv, VoteInv, SameVotes, IsHashLocked, VotesBacked
<1> QED BY <1>2, <1>3, <1>5, <1>7, <1>8, QuietStep DEF LocalInv

LEMMA IgnoreMessageStep ==
    ASSUME IInv, NEW n \in Running, NEW m \in Deliverable(n), IgnoreMessage(n, m)
    PROVE  IInv'
<1>1. core[n] \in CoreState /\ LocalInv(n, core[n], msgs) /\ m \in Message
  BY HandlerStart, DeliverableType
<1>2. Take(core[n], m) \in CoreState /\ LocalInv(n, Take(core[n], m), msgs)
  BY <1>1, TakeFacts, TakeLocal
<1>3. Become(n, Take(core[n], m), {}) /\ UNCHANGED committed
  BY DEF IgnoreMessage
<1> QED BY <1>2, <1>3, QuietStep

LEMMA HandleFinalCommittedStep ==
    ASSUME IInv, NEW n \in Running, HandleFinalCommitted(n) PROVE IInv'
<1>1. core[n] \in CoreState /\ ViewInv(n, core[n], msgs)
  BY HandlerStart DEF LocalInv
<1>2. Height(n) >= core[n].seq /\ UNCHANGED committed
  BY DEF HandleFinalCommitted
<1>3. PICK first : Become(n, StartNewRound(n, core[n], 0, first), {})
  BY DEF HandleFinalCommitted
<1> QED BY <1>1, <1>2, <1>3, NextHeightStep

LEMMA TimeoutEventStep ==
    ASSUME IInv, NEW n \in Running, TimerFires(n) \/ RequestTimeout(n) PROVE IInv'
<1> DEFINE c == core[n]
           d == [c EXCEPT !.timer = FALSE, !.timeouts = @ + 1]
<1>1. c \in CoreState /\ LocalInv(n, c, msgs)
  BY HandlerStart
<1>2. c.timeouts < MaxTimeouts /\ Become(n, d, {}) /\ UNCHANGED committed
  BY DEF TimerFires, RequestTimeout
<1> HIDE DEF c
<1>3. c.timeouts + 1 \in 0 .. MaxTimeouts /\ c.timeouts + 1 > 0
  BY <1>1, <1>2, BoundsAssumption DEF CoreState
<1>4. /\ d \in CoreState /\ SameView(c, d) /\ d.timeouts > 0
      /\ d.prePrepare = c.prePrepare /\ d.lockedHash = c.lockedHash
      /\ d.commits = c.commits /\ d.proposer = c.proposer
      /\ d.backlog = c.backlog /\ d.backlogCh = c.backlogCh
  BY <1>1, <1>3 DEF CoreState, SameView
<1> HIDE DEF d
<1>5. ViewInv(n, d, msgs)
  BY <1>1, <1>4, SameWaits DEF LocalInv, ViewInv, IsHashLocked, SameView, Future
<1>6. VoteInv(n, d, msgs)
  BY <1>1, <1>4 DEF LocalInv, VoteInv, VotesBacked, IsHashLocked, SameView
<1> QED BY <1>2, <1>4, <1>5, <1>6, QuietStep DEF LocalInv

LEMMA HandleTimeoutStep ==
    ASSUME IInv, NEW n \in Running, handleTimeoutMsg(n) PROVE IInv'
<1> DEFINE c0 == core[n]
           c == TimedOut(c0)
<1>1. c0 \in CoreState /\ LocalInv(n, c0, msgs)
  BY HandlerStart
<1>2. c0.timeouts > 0 /\ UNCHANGED committed
  BY DEF handleTimeoutMsg
<1>pick. PICK first :
        \/ \E r \in RoundsAhead(c) :
              Become(n, catchUpRound(c, r), RoundChangeMsg(n, c, r))
        \/ Height(n) >= c.seq /\ Become(n, StartNewRound(n, c, 0, first), {})
        \/ /\ c.round < MaxRound
           /\ Become(n, catchUpRound(c, c.round + 1), RoundChangeMsg(n, c, c.round + 1))
  BY DEF handleTimeoutMsg
<1> HIDE DEF c0
<1>3. c0.timeouts - 1 \in 0 .. MaxTimeouts /\ NoBlock \in Hashes
  BY <1>1, <1>2, BoundsAssumption DEF CoreState, Hashes
<1>4. /\ c \in CoreState /\ SameView(c0, c) /\ c.lockedHash = NoBlock
      /\ c.prePrepare = c0.prePrepare
      /\ c.backlog = c0.backlog /\ c.backlogCh = c0.backlogCh
  BY <1>1, <1>3 DEF TimedOut, UnlockHash, CoreState, SameView
<1> HIDE DEF c
<1>5. ViewInv(n, c, msgs)
  BY <1>1, <1>4, SameWaits DEF LocalInv, ViewInv, IsHashLocked, SameView, Future
<1>6. ASSUME NEW r \in Rounds, r > c.round,
             Become(n, catchUpRound(c, r), RoundChangeMsg(n, c, r))
      PROVE  IInv'
  BY <1>2, <1>4, <1>5, <1>6, AskRoundStep
<1>7. RoundsAhead(c) \subseteq {r \in Rounds : r > c.round}
  BY DEF RoundsAhead, RoundsWanted
<1>8. c.round < MaxRound => c.round + 1 \in Rounds /\ c.round + 1 > c.round
  BY <1>4, BoundsAssumption DEF CoreState, Rounds
<1>9. ASSUME Height(n) >= c.seq, Become(n, StartNewRound(n, c, 0, first), {}) PROVE IInv'
  BY <1>2, <1>4, <1>5, <1>9, NextHeightStep
<1> QED BY <1>6, <1>7, <1>8, <1>9, <1>pick

LEMMA InsertBlockStep ==
    ASSUME IInv, NEW n \in Running, InsertBlock(n) PROVE IInv'
<1>1. PICK b \in PeerBlocks \cup {e.block : e \in committed} :
        b.height = Height(n) + 1 /\ chain' = [chain EXCEPT ![n] = Append(@, b)]
  BY DEF InsertBlock
<1>2. UNCHANGED <<core, msgs, sealed, committed>>
  BY DEF InsertBlock
<1>3. b \in Blocks /\ b.height \in Heights
  BY CoreAssumption DEF IInv, TypeOK, Commitment, Blocks
<1>4. chain[n] \in Seq(Blocks)
  BY HandlerStart
<1>5. /\ chain'[n] = Append(chain[n], b) /\ chain'[n] \in Seq(Blocks)
      /\ Len(chain'[n]) = Len(chain[n]) + 1 /\ Len(chain[n]) \in Nat
      /\ \A i \in 1 .. Len(chain[n]) : chain'[n][i] = chain[n][i]
      /\ \A p \in Running : p # n => chain'[p] = chain[p]
  BY <1>1, <1>3, <1>4 DEF IInv, TypeOK
<1>6. TypeOK'
  BY <1>1, <1>2, <1>3 DEF IInv, TypeOK
<1>7. \A p \in Running : Height(p)' <= MaxHeight
  BY <1>1, <1>3, <1>5, BoundsAssumption DEF IInv, Height, Heights
<1>8. ASSUME NEW p \in Running PROVE LocalInv(p, core[p], msgs)'
  <2>1. /\ core[p] \in CoreState /\ LocalInv(p, core[p], msgs)
        /\ core[p].seq \in Nat /\ core[p].seq > GenesisHeight
    BY HandlerStart, BoundsAssumption DEF CoreState, SeqNumbers
  <2>2. CASE p # n
    <3>1. chain'[p] = chain[p]
      BY <1>5, <2>2
    <3> QED BY <1>2, <2>1, <3>1 DEF LocalInv, ViewInv, VoteInv, Height, GetProposer, VotesBacked
  <2>3. CASE p = n
    <3>1. core[n].seq <= Height(n) + 1
      BY <2>1, <2>3 DEF LocalInv, ViewInv
    <3>2. core[n].seq - 1 - GenesisHeight <= Len(chain[n])
      BY <1>5, <2>1, <2>3, <3>1, BoundsAssumption DEF Height
    <3>3. GetProposer(n, core[n].seq - 1)' = GetProposer(n, core[n].seq - 1)
      BY <1>2, <1>5, <2>1, <2>3, <3>2, BoundsAssumption DEF GetProposer
    <3>4. core[n].seq <= Height(n)' + 1
      BY <1>5, <2>1, <2>3, <3>1, BoundsAssumption DEF Height
    <3>5. ViewInv(n, core[n], msgs)'
      BY <1>2, <2>1, <2>3, <3>4 DEF LocalInv, ViewInv
    <3>6. VoteInv(n, core[n], msgs)'
      BY <1>2, <2>1, <2>3, <3>3 DEF LocalInv, VoteInv, VotesBacked
    <3> QED BY <2>3, <3>5, <3>6 DEF LocalInv
  <2> QED BY <2>2, <2>3
<1>9. CommitCertificate' /\ (\A m \in msgs : m.from \in Running /\ WellFormed(m))'
  BY <1>2 DEF IInv, CommitCertificate, CommitSenders, WellFormed
<1> QED BY <1>6, <1>7, <1>8, <1>9 DEF IInv

-----------------------------------------------------------------------------
(* The invariant, and what it implies. *)

LEMMA InitIInv ==
    ASSUME Init PROVE IInv
<1> DEFINE c0 == [seq |-> GenesisHeight + 1, round |-> 0, state |-> AcceptRequest,
                  waiting |-> FALSE, prePrepare |-> NoBlock, prepares |-> {},
                  commits |-> {}, lockedHash |-> NoBlock, pendingRequest |-> NoBlock,
                  roundChanges |-> [k \in Rounds |-> {}],
                  proposer |-> CalcProposer(NoValidator, 0),
                  timer |-> TRUE, timeouts |-> 0, known |-> {}, backlog |-> {},
                  backlogCh |-> {}, requestCh |-> {}, pendingRequests |-> {}]
<1>1. /\ core = [n \in Running |-> c0] /\ msgs = {} /\ chain = [n \in Running |-> <<>>]
      /\ sealed = {} /\ committed = {}
  BY DEF Init
<1>2. CalcProposer(NoValidator, 0) \in Validators
  BY ProposerType
<1>3. c0 \in CoreState
  BY <1>2, BoundsAssumption
     DEF CoreState, SeqNumbers, Rounds, Hashes, AcceptRequest, Committed
<1>4. /\ c0.seq = GenesisHeight + 1 /\ c0.round = 0 /\ c0.state = AcceptRequest
      /\ c0.waiting = FALSE /\ c0.prePrepare = NoBlock /\ c0.commits = {}
      /\ c0.lockedHash = NoBlock /\ c0.proposer = CalcProposer(NoValidator, 0)
      /\ c0.timer = TRUE /\ c0.backlog = {} /\ c0.backlogCh = {}
  OBVIOUS
<1> HIDE DEF c0
<1>5. TypeOK
  BY <1>1, <1>3 DEF TypeOK
<1>6. ASSUME NEW n \in Running PROVE LocalInv(n, core[n], msgs) /\ Height(n) <= MaxHeight
  <2>1. core[n] = c0 /\ chain[n] = <<>> /\ Len(chain[n]) = 0
    BY <1>1
  <2>2. Height(n) = GenesisHeight /\ GenesisHeight \in Nat
    BY <2>1, BoundsAssumption DEF Height
  <2>3. GetProposer(n, c0.seq - 1) = NoValidator
    BY <1>4, <2>1, <2>2 DEF GetProposer
  <2>4. ViewInv(n, c0, msgs)
    BY <1>1, <1>4, <2>2 DEF ViewInv, Waits, IsHashLocked
  <2>5. VoteInv(n, c0, msgs)
    BY <1>4, <2>3 DEF VoteInv, VotesBacked, AcceptRequest, PrePrepared, Prepared
  <2> QED BY <2>1, <2>2, <2>4, <2>5, BoundsAssumption DEF LocalInv
<1> QED BY <1>1, <1>5, <1>6 DEF IInv, CommitCertificate

LEMMA StutterIInv ==
    ASSUME IInv, UNCHANGED vars PROVE IInv'
<1>1. UNCHANGED <<core, msgs, chain, sealed, committed>>
  BY DEF vars
<1>2. TypeOK' /\ CommitCertificate'
  BY <1>1 DEF IInv, TypeOK, CommitCertificate, CommitSenders
<1>3. (\A m \in msgs : m.from \in Running /\ WellFormed(m))'
  BY <1>1 DEF IInv, WellFormed
<1>4. (\A n \in Running : Height(n) <= MaxHeight)'
  BY <1>1 DEF IInv, Height
<1>5. (\A n \in Running : LocalInv(n, core[n], msgs))'
  BY <1>1 DEF IInv, LocalInv, ViewInv, VoteInv, VotesBacked, Height, GetProposer
<1> QED BY <1>2, <1>3, <1>4, <1>5 DEF IInv

LEMMA NextIInv ==
    ASSUME IInv, Next PROVE IInv'
<1>1. PICK n \in Running :
        \/ \E b \in Blocks : Request(n, b)
        \/ \E b \in core[n].requestCh : HandleRequest(n, b) \/ DeferRequest(n, b)
        \/ ReceiveMessage(n)
        \/ HandleFinalCommitted(n)
        \/ TimerFires(n)
        \/ RequestTimeout(n)
        \/ handleTimeoutMsg(n)
        \/ InsertBlock(n)
  BY DEF Next
<1>2. CASE \E b \in Blocks : Request(n, b)
  BY <1>2, RequestStep
<1>3. CASE \E b \in core[n].requestCh : HandleRequest(n, b) \/ DeferRequest(n, b)
  BY <1>3, HandleRequestStep
<1>4. CASE ReceiveMessage(n)
  <2>1. PICK m \in Deliverable(n) : handleMsg(n, m)
    BY <1>4 DEF ReceiveMessage
  <2> QED BY <2>1, HandlePrePrepareStep, HandleConflictingPrePrepareStep,
             HandleOldPrePrepareStep, HandlePrepareStep, HandleCommitStep,
             HandleDecidingCommitStep, HandleFailedCommitStep, HandleRoundChangeStep,
             HandleFutureMessageStep, IgnoreMessageStep
          DEF handleMsg
<1>5. CASE HandleFinalCommitted(n)
  BY <1>5, HandleFinalCommittedStep
<1>6. CASE TimerFires(n) \/ RequestTimeout(n)
  BY <1>6, TimeoutEventStep
<1>7. CASE handleTimeoutMsg(n)
  BY <1>7, HandleTimeoutStep
<1>8. CASE InsertBlock(n)
  BY <1>8, InsertBlockStep
<1> QED BY <1>1, <1>2, <1>3, <1>4, <1>5, <1>6, <1>7, <1>8

\* IInv is an inductive invariant of the specification.
THEOREM IInvHolds == Spec => []IInv
<1>1. Init => IInv
  BY InitIInv
<1>2. IInv /\ [Next]_vars => IInv'
  BY NextIInv, StutterIInv
<1> QED BY <1>1, <1>2, PTL DEF Spec

\* Every core, message, chain and commitment keeps its type: no handler leaves
\* the range of states, or asks for a height that the node cannot have.
THEOREM TypeCorrect == Spec => []TypeOK
<1>1. IInv => TypeOK
  BY DEF IInv
<1> QED BY <1>1, IInvHolds, PTL

\* A lock always is a lock on the proposal that the round state holds, at the
\* current height (LockHash, updateRoundState, handleTimeoutMsg).
THEOREM LocksAreProposals == Spec => []LockIsProposal
<1>1. IInv => LockIsProposal
  <2> SUFFICES ASSUME IInv, NEW n \in Running, IsHashLocked(core[n])
               PROVE  /\ core[n].prePrepare = core[n].lockedHash
                      /\ core[n].lockedHash.height = core[n].seq
    BY DEF LockIsProposal
  <2>1. ViewInv(n, core[n], msgs)
    BY DEF IInv, LocalInv
  <2> QED BY <2>1 DEF ViewInv, IsHashLocked
<1> QED BY <1>1, IInvHolds, PTL

\* Whoever votes has a proposal to vote for, and a lock from Prepared on
\* (Subject, SendPrepare, SendCommit).
THEOREM VotersHaveProposals == Spec => []VotingHasProposal
<1>1. IInv => VotingHasProposal
  BY DEF IInv, LocalInv, VoteInv, VotingHasProposal
<1> QED BY <1>1, IInvHolds, PTL

\* A message that could be handled waits in the backlog only behind a later one
\* of its sender that toPriority does not put after it (ProcessBacklog), at any
\* height and in any round.
THEOREM BacklogHeldUp == Spec => []BacklogWaits
<1>1. IInv => BacklogWaits
  BY DEF IInv, LocalInv, ViewInv, Waits, BacklogWaits
<1> QED BY <1>1, IInvHolds, PTL

\* Below 2^24 float32 is exact.
LEMMA ExactPriority ==
    ASSUME NEW k \in Nat, k < 2^24 PROVE float32(k) = k
<1>1. k \div 1 = k /\ k % 1 = 0
  OBVIOUS
<1> QED BY <1>1 DEF float32

\* Where the heights are small enough for float32, and no round passes 99, the
\* round and the type take the last three digits of the priority.
LEMMA PriorityValue ==
    ASSUME MaxRound <= 99, (MaxHeight + 2) * 1000 < 2^24, NEW m \in Message
    PROVE  /\ m.type = "RoundChange" => toPriority(m) = m.seq * 1000
           /\ m.type = "PrePrepare" => toPriority(m) = m.seq * 1000 + (m.round * 10 + 1)
           /\ m.type = "Commit" => toPriority(m) = m.seq * 1000 + (m.round * 10 + 2)
           /\ m.type = "Prepare" => toPriority(m) = m.seq * 1000 + (m.round * 10 + 3)
<1>1. msgPriority["PrePrepare"] = 1 /\ msgPriority["Commit"] = 2 /\ msgPriority["Prepare"] = 3
  BY DEF msgPriority
<1>2. MaxRound \in Nat /\ MaxHeight \in Nat /\ 2^24 \in Nat
  BY BoundsAssumption
<1>3. m.seq \in Nat /\ m.seq <= MaxHeight + 1 /\ m.round \in 0 .. 99
  BY <1>2, MessageFields, BoundsAssumption DEF Message, SeqNumbers
<1>4. CASE m.type = "RoundChange"
  <2>1. m.seq * 1000 \in Nat /\ m.seq * 1000 + 0 = m.seq * 1000 /\ m.seq * 1000 < 2^24
    BY <1>2, <1>3
  <2> QED BY <1>4, <2>1, ExactPriority DEF toPriority
<1>5. CASE m.type = "PrePrepare"
  <2> DEFINE k == m.seq * 1000 + (m.round * 10 + 1)
  <2>1. m.type # "RoundChange" /\ msgPriority[m.type] = 1
    BY <1>1, <1>5
  <2>2. k \in Nat /\ k < 2^24
    BY <1>2, <1>3
  <2>3. toPriority(m) = float32(k)
    BY <2>1 DEF toPriority
  <2> HIDE DEF k
  <2>4. toPriority(m) = k
    BY <2>2, <2>3, ExactPriority
  <2> QED BY <1>5, <2>4 DEF k
<1>6. CASE m.type = "Commit"
  <2> DEFINE k == m.seq * 1000 + (m.round * 10 + 2)
  <2>1. m.type # "RoundChange" /\ msgPriority[m.type] = 2
    BY <1>1, <1>6
  <2>2. k \in Nat /\ k < 2^24
    BY <1>2, <1>3
  <2>3. toPriority(m) = float32(k)
    BY <2>1 DEF toPriority
  <2> HIDE DEF k
  <2>4. toPriority(m) = k
    BY <2>2, <2>3, ExactPriority
  <2> QED BY <1>6, <2>4 DEF k
<1>7. CASE m.type = "Prepare"
  <2> DEFINE k == m.seq * 1000 + (m.round * 10 + 3)
  <2>1. m.type # "RoundChange" /\ msgPriority[m.type] = 3
    BY <1>1, <1>7
  <2>2. k \in Nat /\ k < 2^24
    BY <1>2, <1>3
  <2>3. toPriority(m) = float32(k)
    BY <2>1 DEF toPriority
  <2> HIDE DEF k
  <2>4. toPriority(m) = k
    BY <2>2, <2>3, ExactPriority
  <2> QED BY <1>7, <2>4 DEF k
<1> QED BY <1>4, <1>5, <1>6, <1>7, MessageFields

\* There the priorities order what a sender sent as it becomes current.
LEMMA PriorityOrder ==
    ASSUME MaxRound <= 99, (MaxHeight + 2) * 1000 < 2^24,
           NEW m \in Message, NEW q \in Message, Before(m, q)
    PROVE  /\ toPriority(m) \in Nat /\ toPriority(q) \in Nat
           /\ toPriority(m) < toPriority(q)
<1>1. msgPriority["PrePrepare"] = 1 /\ msgPriority["Commit"] = 2 /\ msgPriority["Prepare"] = 3
  BY DEF msgPriority
<1>2. MaxRound \in Nat
  BY BoundsAssumption
<1> QED BY <1>1, <1>2, PriorityValue, MessageFields DEF Before

\* Within these bounds no message that could be handled stays in the backlog
\* (ProcessBacklog).  Beyond them the code's priorities collide.
THEOREM BacklogDrained ==
    ASSUME MaxRound <= 99, (MaxHeight + 2) * 1000 < 2^24
    PROVE  Spec => []NoStuckBacklog
<1>1. IInv => NoStuckBacklog
  <2> SUFFICES ASSUME IInv, NEW n \in Running, NEW m \in core[n].backlog, Current(core[n], m)
               PROVE  FALSE
    BY DEF NoStuckBacklog
  <2>1. core[n].backlog \subseteq Message /\ Waits(core[n])
    BY DEF IInv, TypeOK, CoreState, LocalInv, ViewInv
  <2>2. PICK q \in core[n].backlog : HeldUpBy(m, q)
    BY <2>1 DEF Waits
  <2>3. m \in Message /\ q \in Message /\ Before(m, q)
    BY <2>1, <2>2 DEF HeldUpBy
  <2>4. /\ toPriority(m) \in Nat /\ toPriority(q) \in Nat
        /\ toPriority(m) < toPriority(q)
    BY <2>3, PriorityOrder
  <2> QED BY <2>2, <2>4 DEF HeldUpBy
<1> QED BY <1>1, IInvHolds, PTL

\* A validator's own messages are never early when they come back to it, so
\* StoreBacklog loses none of them.
THEOREM OwnMessagesInTime == Spec => []OwnMessagesNotFuture
<1>1. IInv => OwnMessagesNotFuture
  <2> SUFFICES ASSUME IInv, NEW m \in msgs PROVE ~Future(core[m.from], m)
    BY DEF OwnMessagesNotFuture
  <2>1. m.from \in Running
    BY DEF IInv
  <2>2. ViewInv(m.from, core[m.from], msgs)
    BY <2>1 DEF IInv, LocalInv
  <2> QED BY <2>2 DEF ViewInv
<1> QED BY <1>1, IInvHolds, PTL

\* There always is a timer running or a timeout event waiting
\* (newRoundChangeTimer).
THEOREM TimersAlive == Spec => []TimerAlive
<1>1. IInv => TimerAlive
  BY DEF IInv, LocalInv, VoteInv, TimerAlive
<1> QED BY <1>1, IInvHolds, PTL

\* A block handed to backend.Commit has a quorum of Commits, all sent for this
\* block in this view (HandleCommit).
THEOREM CommitsCertified == Spec => []CommitCertificate
<1>1. IInv => CommitCertificate
  BY DEF IInv
<1> QED BY <1>1, IInvHolds, PTL

\* The proposer followed is the one that the previous block and the round
\* determine (StartNewRound, CalcProposer).
THEOREM ProposersDetermined == Spec => []ProposerOfView
<1>1. IInv => ProposerOfView
  BY DEF IInv, LocalInv, VoteInv, ProposerOfView
<1> QED BY <1>1, IInvHolds, PTL


-----------------------------------------------------------------------------
(* What a step of a validator may do, told without its handlers. *)

IsVote(m) == m.type \in {"Prepare", "Commit"}

\* A vote that the core sends when it goes from c to d: the one vote of its
\* kind in the view, or a Commit for a block of the chain in an older view.
NewVote(n, c, d, m) ==
    \/ /\ m.seq = c.seq /\ m.round = c.round
       /\ m.type = "Prepare" => c.state = AcceptRequest
       /\ m.type = "Commit" => c.state < Prepared /\ d.state >= Prepared
    \/ m.type = "Commit" /\ Old(c, m) /\ HasProposal(n, m.digest)

\* The step stays in the view.
Stays(n, c, d, out) ==
    /\ d.seq = c.seq /\ d.round = c.round /\ d.waiting = c.waiting /\ d.state >= c.state
    /\ ~c.waiting /\ c.state >= PrePrepared => d.prePrepare = c.prePrepare
    /\ \A m \in out : IsVote(m) => NewVote(n, c, d, m)

\* The step leaves the view, or starts the round it was waiting for.
Leaves(c, d, out) ==
    /\ \/ d.seq > c.seq
       \/ d.seq = c.seq /\ d.round > c.round
       \/ d.seq = c.seq /\ d.round = c.round /\ c.waiting
    /\ \A m \in out : ~IsVote(m)

\* Validator n goes to state d and sends at most one message.
MovesTo(n, d, out) ==
    /\ core' = [core EXCEPT ![n] = d] /\ msgs' = msgs \cup out
    /\ \A m \in out : m.from = n
    /\ \A m1, m2 \in out : m1 = m2
    /\ Stays(n, core[n], d, out) \/ Leaves(core[n], d, out)

Moves(n) == \E d \in CoreState, out \in SUBSET Message : MovesTo(n, d, out)

\* A commitment whose votes are a quorum, of one vote per validator.
Supported(e) ==
    /\ reachThreshold(Size, Cardinality(e.votes))
    /\ \A v, w \in e.votes : v.from = w.from => v = w
    /\ e.block.height = e.seq

\* Validator n hands a block to the backend.
Decides(n) ==
    /\ msgs' = msgs
    /\ \E e \in Commitment :
          committed' = committed \cup {e} /\ e.node = n /\ Supported(e)

LEMMA StatesOrdered ==
    AcceptRequest = 0 /\ PrePrepared = 1 /\ Prepared = 2 /\ Committed = 3
BY DEF AcceptRequest, PrePrepared, Prepared, Committed

\* Nothing happens to the view, the state, the proposal; no vote is sent.
LEMMA QuietMoves ==
    ASSUME IInv, NEW n \in Running, NEW d \in CoreState, NEW out \in SUBSET Message,
           core' = [core EXCEPT ![n] = d], msgs' = msgs \cup out,
           \A m \in out : m.from = n /\ ~IsVote(m), \A m1, m2 \in out : m1 = m2,
           SameView(core[n], d), d.prePrepare = core[n].prePrepare
    PROVE  Moves(n)
<1>1. core[n].state \in 0 .. 3
  BY HandlerStart, StatesOrdered DEF CoreState
<1>2. Stays(n, core[n], d, out)
  BY <1>1 DEF Stays, SameView
<1> QED BY <1>2 DEF Moves, MovesTo

\* The same when nothing is sent.
LEMMA SilentMoves ==
    ASSUME IInv, NEW n \in Running, NEW d \in CoreState,
           core' = [core EXCEPT ![n] = d], msgs' = msgs,
           SameView(core[n], d), d.prePrepare = core[n].prePrepare
    PROVE  Moves(n)
<1> DEFINE out == {}
<1>1. /\ out \in SUBSET Message /\ msgs' = msgs \cup out
      /\ \A m \in out : m.from = n /\ ~IsVote(m)
      /\ \A m1, m2 \in out : m1 = m2
  OBVIOUS
<1> HIDE DEF out
<1> QED BY <1>1, QuietMoves

LEMMA RequestMoves ==
    ASSUME IInv, NEW n \in Running, NEW b \in Blocks, Request(n, b) PROVE Moves(n)
<1> DEFINE d == [core[n] EXCEPT !.requestCh = @ \cup {b}]
<1>1. core[n] \in CoreState
  BY HandlerStart
<1>2. d \in CoreState /\ SameView(core[n], d) /\ d.prePrepare = core[n].prePrepare
  BY <1>1 DEF CoreState, SameView
<1>3. core' = [core EXCEPT ![n] = d] /\ msgs' = msgs
  BY DEF Request
<1> HIDE DEF d
<1> QED BY <1>2, <1>3, SilentMoves

LEMMA ProposalOnly ==
    ASSUME NEW n \in Validators, NEW c \in CoreState, ~c.waiting, NEW b \in Blocks
    PROVE  LET out == SendPrePrepare(n, c, b) IN
           /\ out \in SUBSET Message /\ \A m1, m2 \in out : m1 = m2
           /\ \A m \in out : m.from = n /\ ~IsVote(m)
<1> DEFINE q == finalizeMessage(n, c, "PrePrepare", c.seq, c.round, b)
<1>1. SentBy(n, SendPrePrepare(n, c, b))
  BY ProposalSent
<1>2. q.type = "PrePrepare"
  BY DEF finalizeMessage
<1> HIDE DEF q
<1>3. SendPrePrepare(n, c, b) = {} \/ SendPrePrepare(n, c, b) = {q}
  BY DEF SendPrePrepare, q
<1> QED BY <1>1, <1>2, <1>3 DEF SentBy, IsVote

LEMMA HandleRequestMoves ==
    ASSUME IInv, NEW n \in Running, NEW b \in core[n].requestCh,
           HandleRequest(n, b) \/ DeferRequest(n, b)
    PROVE  Moves(n)
<1> DEFINE c == [core[n] EXCEPT !.requestCh = @ \ {b}]
           c1 == [c EXCEPT !.pendingRequest = b]
           c2 == [c EXCEPT !.pendingRequests = @ \cup {b}]
<1>1. core[n] \in CoreState /\ n \in Validators
  BY HandlerStart
<1>2. b \in Blocks /\ b \in Hashes
  BY <1>1 DEF CoreState, Hashes
<1>3. c \in CoreState /\ SameView(core[n], c) /\ c.prePrepare = core[n].prePrepare
  BY <1>1 DEF CoreState, SameView
<1>4. Become(n, c, {}) \/ Become(n, c2, {}) \/ Become(n, c1, {})
      \/ (~c.waiting /\ Become(n, c1, SendPrePrepare(n, c, b)))
  BY DEF HandleRequest, DeferRequest
<1> HIDE DEF c
<1>5. /\ c1 \in CoreState /\ SameView(core[n], c1) /\ c1.prePrepare = core[n].prePrepare
      /\ c2 \in CoreState /\ SameView(core[n], c2) /\ c2.prePrepare = core[n].prePrepare
  BY <1>2, <1>3 DEF CoreState, SameView
<1> HIDE DEF c1, c2
<1>6. ASSUME ~c.waiting, Become(n, c1, SendPrePrepare(n, c, b)) PROVE Moves(n)
  <2> DEFINE out == SendPrePrepare(n, c, b)
  <2>1. /\ out \in SUBSET Message /\ \A m1, m2 \in out : m1 = m2
        /\ \A m \in out : m.from = n /\ ~IsVote(m)
    BY <1>1, <1>2, <1>3, <1>6, ProposalOnly
  <2> HIDE DEF out
  <2>2. core' = [core EXCEPT ![n] = c1] /\ msgs' = msgs \cup out
    BY <1>6 DEF Become, out
  <2> QED BY <1>5, <2>1, <2>2, QuietMoves
<1>7. ASSUME NEW d \in {c, c1, c2}, Become(n, d, {}) PROVE Moves(n)
  <2>1. core' = [core EXCEPT ![n] = d] /\ msgs' = msgs
    BY <1>7 DEF Become
  <2> QED BY <1>3, <1>5, <1>7, <2>1, SilentMoves
<1> QED BY <1>4, <1>6, <1>7

\* A step of this validator to d, which sends one message.
LEMMA OneMessage ==
    ASSUME NEW n \in Running, NEW d \in CoreState, NEW q \in Message, q.from = n,
           Become(n, d, {q}), Stays(n, core[n], d, {q}) \/ Leaves(core[n], d, {q})
    PROVE  Moves(n)
<1> DEFINE out == {q}
<1>1. /\ out \in SUBSET Message /\ \A m \in out : m.from = n
      /\ \A m1, m2 \in out : m1 = m2
      /\ core' = [core EXCEPT ![n] = d] /\ msgs' = msgs \cup out
      /\ Stays(n, core[n], d, out) \/ Leaves(core[n], d, out)
  BY DEF Become
<1> HIDE DEF out
<1> QED BY <1>1 DEF Moves, MovesTo

\* The proposal is accepted, with a Prepare or, on a lock, with a Commit.
LEMMA HandlePrePrepareMoves ==
    ASSUME IInv, NEW n \in Running, NEW m \in Deliverable(n),
           HandlePrePrepare(n, m) \/ HandleLockedPrePrepare(n, m)
    PROVE  Moves(n)
<1> DEFINE c == core[n]
           c1 == Take(c, m)
           c2 == acceptPrePrepare(c1, m.digest)
<1>1. c \in CoreState /\ n \in Validators /\ m \in Message
  BY HandlerStart, DeliverableType
<1>2. c.state = AcceptRequest
  BY DEF HandlePrePrepare, HandleLockedPrePrepare, ProposalArrives
<1>pick. PICK first :
        \/ LET d == setState(c2, PrePrepared, first) IN Become(n, d, SendPrepare(n, d))
        \/ LET d == setState(c2, Prepared, first) IN Become(n, d, SendCommit(n, d))
  BY DEF HandlePrePrepare, HandleLockedPrePrepare
<1> HIDE DEF c
<1>3. c1 \in CoreState /\ SameVotes(c, c1)
  BY <1>1, TakeFacts
<1> HIDE DEF c1
<1>4. /\ c2 \in CoreState /\ c2.seq = c1.seq /\ c2.round = c1.round
      /\ c2.waiting = c1.waiting
  BY <1>1, <1>3, AcceptType DEF acceptPrePrepare, CoreState
<1> HIDE DEF c2
<1>5. ASSUME NEW s \in 1 .. 2, NEW type \in {"Prepare", "Commit"},
             type = "Commit" => s = 2, NEW d, d = setState(c2, s, first),
             Become(n, d, {finalizeMessage(n, d, type, d.seq, d.round, d.prePrepare)})
      PROVE  Moves(n)
  <2> DEFINE q == finalizeMessage(n, d, type, d.seq, d.round, d.prePrepare)
  <2>1. s \in 0 .. 3
    OBVIOUS
  <2>2. d \in CoreState /\ SameVotes(c2, d) /\ d.state = s
    BY <1>4, <1>5, <2>1, SetStateType, SetStateFacts
  <2>3. d.seq \in SeqNumbers /\ d.round \in Rounds /\ d.prePrepare \in Hashes
    BY <2>2 DEF CoreState
  <2>4. /\ q \in Message /\ q.type = type /\ q.from = n /\ q.seq = d.seq
        /\ q.round = d.round
    BY <1>1, <2>2, <2>3, FinalizeType
  <2> HIDE DEF q
  <2>5. d.seq = c.seq /\ d.round = c.round /\ d.waiting = c.waiting
    BY <1>3, <1>4, <2>2 DEF SameVotes
  <2>6. Stays(n, c, d, {q})
    BY <1>2, <1>5, <2>2, <2>4, <2>5, StatesOrdered DEF Stays, NewVote
  <2> QED BY <1>5, <2>2, <2>4, <2>6, OneMessage DEF q, c
<1> QED BY <1>pick, <1>5, StatesOrdered DEF SendPrepare, SendCommit

\* The round is left for a later one of the same height.
LEMMA CatchUpMoves ==
    ASSUME IInv, NEW n \in Running, NEW c \in CoreState, c.seq = core[n].seq,
           NEW r \in Rounds, r > core[n].round, NEW e \in CoreState,
           Become(n, catchUpRound(c, r), RoundChangeMsg(n, e, r))
    PROVE  Moves(n)
<1> DEFINE d == catchUpRound(c, r)
           q == finalizeMessage(n, e, "RoundChange", e.seq, r, NoBlock)
<1>1. d \in CoreState /\ d.seq = c.seq /\ d.round = r
  BY CatchUpFacts
<1> HIDE DEF d
<1>2. n \in Validators /\ e.seq \in SeqNumbers /\ NoBlock \in Hashes
  BY CoreAssumption DEF CoreState, Hashes
<1>3. q \in Message /\ q.type = "RoundChange" /\ q.from = n
  BY <1>2, FinalizeType
<1> HIDE DEF q
<1>4. Become(n, d, {q})
  BY DEF RoundChangeMsg, d, q
<1>5. Leaves(core[n], d, {q})
  BY <1>1, <1>3 DEF Leaves, IsVote
<1> QED BY <1>1, <1>3, <1>4, <1>5, OneMessage

LEMMA HandleConflictingPrePrepareMoves ==
    ASSUME IInv, NEW n \in Running, NEW m \in Deliverable(n),
           HandleConflictingPrePrepare(n, m)
    PROVE  Moves(n)
<1> DEFINE r == core[n].round + 1
           c == Take(core[n], m)
<1>1. core[n] \in CoreState /\ m \in Message /\ core[n].round \in Nat
  BY HandlerStart, DeliverableType
<1>2. /\ core[n].round < MaxRound
      /\ Become(n, catchUpRound(c, r), RoundChangeMsg(n, catchUpRound(c, r), r))
  BY DEF HandleConflictingPrePrepare
<1>3. c \in CoreState /\ c.seq = core[n].seq
  BY <1>1, TakeFacts DEF SameVotes
<1> HIDE DEF c
<1>4. r \in Rounds /\ r > core[n].round
  BY <1>1, <1>2, BoundsAssumption DEF Rounds
<1> HIDE DEF r
<1>5. catchUpRound(c, r) \in CoreState
  BY <1>3, <1>4, CatchUpFacts
<1> QED BY <1>2, <1>3, <1>4, <1>5, CatchUpMoves

LEMMA HandleOldPrePrepareMoves ==
    ASSUME IInv, NEW n \in Running, NEW m \in Deliverable(n), HandleOldPrePrepare(n, m)
    PROVE  Moves(n)
<1> DEFINE c == Take(core[n], m)
           q == finalizeMessage(n, c, "Commit", m.seq, m.round, m.digest)
<1>1. core[n] \in CoreState /\ n \in Validators /\ m \in Message
  BY HandlerStart, DeliverableType
<1>2. Old(core[n], m) /\ HasProposal(n, m.digest) /\ Become(n, c, {q})
  BY DEF HandleOldPrePrepare, ProposedOldBlock, sendCommitForOldBlock
<1>3. c \in CoreState /\ SameVotes(core[n], c) /\ c.state = core[n].state
  BY <1>1, TakeFacts
<1> HIDE DEF c
<1>4. m.seq \in SeqNumbers /\ m.round \in Rounds /\ m.digest \in Hashes
      /\ core[n].state \in 0 .. 3
  BY <1>1, StatesOrdered DEF Message, CoreState
<1>5. /\ q \in Message /\ q.type = "Commit" /\ q.from = n /\ q.seq = m.seq
      /\ q.round = m.round /\ q.digest = m.digest
  BY <1>1, <1>3, <1>4, FinalizeType
<1> HIDE DEF q
<1>6. NewVote(n, core[n], c, q)
  BY <1>2, <1>5 DEF NewVote, Old
<1>7. Stays(n, core[n], c, {q})
  BY <1>3, <1>4, <1>6 DEF Stays, SameVotes
<1> QED BY <1>2, <1>3, <1>5, <1>7, OneMessage

LEMMA HandlePrepareMoves ==
    ASSUME IInv, NEW n \in Running, NEW m \in Deliverable(n), HandlePrepare(n, m)
    PROVE  Moves(n)
<1> DEFINE c1 == Take(core[n], m)
           c == acceptPrepare(c1, m)
           l == LockHash(c)
<1>1. core[n] \in CoreState /\ n \in Validators /\ m \in Message
  BY HandlerStart, DeliverableType
<1>pick. PICK first :
        \/ Become(n, c, {})
        \/ LET d == setState(l, Prepared, first)
           IN c.state < Prepared /\ Become(n, d, SendCommit(n, d))
  BY DEF HandlePrepare
<1> DEFINE d == setState(l, Prepared, first)
           q == finalizeMessage(n, d, "Commit", d.seq, d.round, d.prePrepare)
<1>2. Become(n, c, {}) \/ (c.state < Prepared /\ Become(n, d, {q}))
  BY <1>pick DEF SendCommit
<1>3. c1 \in CoreState /\ SameVotes(core[n], c1) /\ c1.state = core[n].state
  BY <1>1, TakeFacts
<1> HIDE DEF c1
<1>4. c \in CoreState /\ SameView(core[n], c) /\ c.prePrepare = core[n].prePrepare
  BY <1>1, <1>3, AcceptType DEF acceptPrepare, CoreState, SameVotes, SameView
<1> HIDE DEF c
<1>5. /\ l \in CoreState /\ l.seq = c.seq /\ l.round = c.round /\ l.waiting = c.waiting
      /\ l.prePrepare = c.prePrepare
  BY <1>4, LockType DEF LockHash, CoreState
<1> HIDE DEF l
<1>6. d \in CoreState /\ SameVotes(l, d) /\ d.state = Prepared
  BY <1>5, StatesOrdered, SetStateType, SetStateFacts
<1> HIDE DEF d
<1>7. d.seq \in SeqNumbers /\ d.round \in Rounds /\ d.prePrepare \in Hashes
  BY <1>6 DEF CoreState
<1>8. q \in Message /\ q.type = "Commit" /\ q.from = n /\ q.seq = d.seq /\ q.round = d.round
  BY <1>1, <1>6, <1>7, FinalizeType
<1> HIDE DEF q
<1>9. ASSUME c.state < Prepared, Become(n, d, {q}) PROVE Moves(n)
  <2>1. core[n].state \in 0 .. 3
    BY <1>1, StatesOrdered DEF CoreState
  <2>2. Stays(n, core[n], d, {q})
    BY <1>4, <1>5, <1>6, <1>8, <1>9, <2>1, StatesOrdered
       DEF Stays, NewVote, SameVotes, SameView
  <2> QED BY <1>6, <1>8, <1>9, <2>2, OneMessage
<1>10. ASSUME Become(n, c, {}) PROVE Moves(n)
  BY <1>4, <1>10, SilentMoves DEF Become
<1> QED BY <1>2, <1>9, <1>10

\* A Commit is recorded and changes nothing else of the view.
LEMMA CommitKeepsView ==
    ASSUME IInv, NEW n \in Running, NEW m \in Deliverable(n)
    PROVE  LET c == acceptCommit(Take(core[n], m), m) IN
           /\ c \in CoreState /\ SameView(core[n], c)
           /\ c.prePrepare = core[n].prePrepare
<1> DEFINE c1 == Take(core[n], m)
           c == acceptCommit(c1, m)
<1>1. core[n] \in CoreState /\ m \in Message
  BY HandlerStart, DeliverableType
<1>2. c1 \in CoreState /\ SameVotes(core[n], c1) /\ c1.state = core[n].state
  BY <1>1, TakeFacts
<1> HIDE DEF c1
<1>3. c \in CoreState /\ SameView(core[n], c) /\ c.prePrepare = core[n].prePrepare
  BY <1>1, <1>2, AcceptType DEF acceptCommit, CoreState, SameVotes, SameView
<1> QED BY <1>3 DEF c1

LEMMA HandleCommitMoves ==
    ASSUME IInv, NEW n \in Running, NEW m \in Deliverable(n), HandleCommit(n, m)
    PROVE  Moves(n)
<1> DEFINE c == acceptCommit(Take(core[n], m), m)
<1>1. c \in CoreState /\ SameView(core[n], c) /\ c.prePrepare = core[n].prePrepare
  BY CommitKeepsView
<1>2. core' = [core EXCEPT ![n] = c] /\ msgs' = msgs
  BY DEF HandleCommit, Become
<1> HIDE DEF c
<1> QED BY <1>1, <1>2, SilentMoves

\* The lock and the last state of a view.
LEMMA LockedCommitted ==
    ASSUME NEW c \in CoreState, NEW first
    PROVE  LET d == setState(LockHash(c), Committed, first) IN
           /\ d \in CoreState /\ d.state = Committed
           /\ d.seq = c.seq /\ d.round = c.round /\ d.waiting = c.waiting
           /\ d.prePrepare = c.prePrepare /\ d.commits = c.commits
<1> DEFINE l == LockHash(c)
           d == setState(l, Committed, first)
<1>1. /\ l \in CoreState /\ l.seq = c.seq /\ l.round = c.round /\ l.waiting = c.waiting
      /\ l.prePrepare = c.prePrepare /\ l.commits = c.commits
  BY LockType DEF LockHash, CoreState
<1> HIDE DEF l
<1>2. d \in CoreState /\ SameVotes(l, d) /\ d.state = Committed
  BY <1>1, StatesOrdered, SetStateType, SetStateFacts
<1> HIDE DEF d
<1>3. /\ d.seq = c.seq /\ d.round = c.round /\ d.waiting = c.waiting
      /\ d.prePrepare = c.prePrepare /\ d.commits = c.commits
  BY <1>1, <1>2 DEF SameVotes
<1> QED BY <1>2, <1>3 DEF d, l

LEMMA HandleDecidingCommitMoves ==
    ASSUME IInv, NEW n \in Running, NEW m \in Deliverable(n), HandleDecidingCommit(n, m)
    PROVE  Moves(n) /\ Decides(n) /\ chain' = chain
<1> DEFINE c == acceptCommit(Take(core[n], m), m)
<1>pick. PICK first :
        LET d == setState(LockHash(c), Committed, first)
        IN /\ Become(n, d, {})
           /\ committed' = committed \cup
                {[node |-> n, seq |-> d.seq, round |-> d.round,
                  block |-> d.prePrepare, votes |-> d.commits]}
  BY DEF HandleDecidingCommit
<1> DEFINE d == setState(LockHash(c), Committed, first)
           e == [node |-> n, seq |-> d.seq, round |-> d.round,
                 block |-> d.prePrepare, votes |-> d.commits]
<1>1. /\ m.type = "Commit" /\ VoteArrives(n, m) /\ CommitQuorum(c)
      /\ Become(n, d, {}) /\ committed' = committed \cup {e}
  BY <1>pick DEF HandleDecidingCommit
<1>2. c \in CoreState /\ SameView(core[n], c) /\ c.prePrepare = core[n].prePrepare
  BY CommitKeepsView
<1>3. LocalInv(n, c, msgs) /\ c.prePrepare \in Blocks /\ c.prePrepare # NoBlock
  BY <1>1, CommitAccepted
<1> HIDE DEF c
<1>4. /\ d \in CoreState /\ d.state = Committed
      /\ d.seq = c.seq /\ d.round = c.round /\ d.waiting = c.waiting
      /\ d.prePrepare = c.prePrepare /\ d.commits = c.commits
  BY <1>2, LockedCommitted
<1> HIDE DEF d
<1>5. core[n].state \in 0 .. 3 /\ n \in Validators
  BY HandlerStart, StatesOrdered DEF CoreState
<1>6. core' = [core EXCEPT ![n] = d] /\ msgs' = msgs /\ msgs' = msgs \cup {}
      /\ chain' = chain
  BY <1>1 DEF Become
<1>7. Moves(n)
  <2> DEFINE out == {}
  <2>1. out \in SUBSET Message /\ (\A x \in out : x.from = n) /\ msgs' = msgs \cup out
        /\ (\A x, y \in out : x = y)
    BY <1>6
  <2>2. Stays(n, core[n], d, out)
    BY <1>2, <1>4, <1>5, StatesOrdered DEF Stays, SameView
  <2> HIDE DEF out
  <2> QED BY <1>4, <1>6, <2>1, <2>2 DEF Moves, MovesTo
<1>8. /\ e \in Commitment /\ e.node = n /\ e.seq = c.seq /\ e.block = c.prePrepare
      /\ e.votes = c.commits
  BY <1>3, <1>4, <1>5 DEF Commitment, CoreState
<1> HIDE DEF e
<1>9. Supported(e)
  <2>1. c.prePrepare.height = c.seq
    BY <1>3 DEF LocalInv, ViewInv
  <2>2. \A v, w \in c.commits : v.from = w.from => v = w
    BY <1>3 DEF LocalInv, VoteInv, VotesBacked
  <2>3. reachThreshold(Size, Cardinality(c.commits))
    BY <1>1 DEF CommitQuorum
  <2> QED BY <1>8, <2>1, <2>2, <2>3 DEF Supported
<1> QED BY <1>1, <1>6, <1>7, <1>8, <1>9 DEF Decides

LEMMA HandleFailedCommitMoves ==
    ASSUME IInv, NEW n \in Running, NEW m \in Deliverable(n), HandleFailedCommit(n, m)
    PROVE  Moves(n)
<1> DEFINE c == acceptCommit(Take(core[n], m), m)
<1>pick. PICK first :
        LET d == setState(LockHash(c), Committed, first)
            next == catchUpRound(UnlockHash(d), d.round + 1)
        IN Become(n, next, RoundChangeMsg(n, next, next.round))
  BY DEF HandleFailedCommit
<1> DEFINE d == setState(LockHash(c), Committed, first)
           u == UnlockHash(d)
           r == d.round + 1
<1>1. /\ core[n].round < MaxRound
      /\ Become(n, catchUpRound(u, r),
                RoundChangeMsg(n, catchUpRound(u, r), catchUpRound(u, r).round))
  BY <1>pick DEF HandleFailedCommit
<1>2. c \in CoreState /\ SameView(core[n], c)
  BY CommitKeepsView
<1> HIDE DEF c
<1>3. d \in CoreState /\ d.seq = c.seq /\ d.round = c.round
  BY <1>2, LockedCommitted
<1> HIDE DEF d
<1>4. u \in CoreState /\ u.seq = d.seq
  BY <1>3, LockType DEF UnlockHash, CoreState
<1> HIDE DEF u
<1>5. r \in Rounds /\ r > core[n].round
  BY <1>1, <1>2, <1>3, HandlerStart, BoundsAssumption DEF SameView, Rounds
<1> HIDE DEF r
<1>6. catchUpRound(u, r) \in CoreState /\ catchUpRound(u, r).round = r
  BY <1>4, <1>5, CatchUpFacts
<1>7. u.seq = core[n].seq
  BY <1>2, <1>3, <1>4 DEF SameView
<1> QED BY <1>1, <1>4, <1>5, <1>6, <1>7, CatchUpMoves

\* The chain has reached the current height: the next height begins.
LEMMA NextHeightMoves ==
    ASSUME IInv, NEW n \in Running, NEW c \in CoreState, c.seq = core[n].seq, NEW r, NEW first,
           Height(n) >= c.seq, Become(n, StartNewRound(n, c, r, first), {})
    PROVE  Moves(n)
<1> DEFINE s == Height(n) + 1
           d == EnterRound(n, c, s, 0, FALSE, first)
           out == {}
<1>1. Height(n) <= MaxHeight /\ Height(n) \in Nat /\ Height(n) >= GenesisHeight
  BY HandlerStart, HeadProposer
<1>2. StartNewRound(n, c, r, first) = d
  BY DEF StartNewRound
<1>3. s \in SeqNumbers /\ 0 \in Rounds /\ s > core[n].seq
  BY <1>1, HandlerStart, BoundsAssumption DEF SeqNumbers, Rounds
<1> HIDE DEF s
<1>4. d \in CoreState /\ d.seq = s
  <2>1. Entered(n, c, s, 0, FALSE, d)
    BY <1>3, EnterRoundFacts
  <2> QED BY <2>1 DEF Entered
<1> HIDE DEF d
<1>5. /\ out \in SUBSET Message /\ (\A x \in out : x.from = n)
      /\ (\A x, y \in out : x = y)
      /\ core' = [core EXCEPT ![n] = d] /\ msgs' = msgs \cup out
  BY <1>2 DEF Become
<1>6. Leaves(core[n], d, out)
  BY <1>3, <1>4 DEF Leaves
<1> HIDE DEF out
<1> QED BY <1>4, <1>5, <1>6 DEF Moves, MovesTo

LEMMA ReproposeOnly ==
    ASSUME NEW n \in Validators, NEW c \in CoreState, ~c.waiting,
           IsHashLocked(c) => c.prePrepare = c.lockedHash
    PROVE  LET out == Repropose(n, c) IN
           /\ out \in SUBSET Message /\ \A m1, m2 \in out : m1 = m2
           /\ \A m \in out : m.from = n /\ ~IsVote(m)
<1>1. Repropose(n, c) = {} \/ \E b \in Blocks : Repropose(n, c) = SendPrePrepare(n, c, b)
  <2>1. c.prePrepare \in Blocks \cup {NoBlock} /\ c.pendingRequest \in Blocks \cup {NoBlock}
    BY DEF CoreState, Hashes
  <2> QED BY <2>1 DEF Repropose, IsHashLocked
<1>2. CASE Repropose(n, c) = {}
  BY <1>2
<1>3. CASE \E b \in Blocks : Repropose(n, c) = SendPrePrepare(n, c, b)
  BY <1>3, ProposalOnly
<1> QED BY <1>1, <1>2, <1>3

LEMMA HandleRoundChangeMoves ==
    ASSUME IInv, NEW n \in Running, NEW m \in Deliverable(n), HandleRoundChange(n, m)
    PROVE  Moves(n)
<1> DEFINE c1 == Take(core[n], m)
           c == roundChangeSetAdd(c1, m)
           joined == catchUpRound(c, m.round)
<1>1. /\ core[n] \in CoreState /\ LocalInv(n, core[n], msgs) /\ n \in Validators
      /\ chain[n] \in Seq(Blocks) /\ core[n].round \in Nat /\ core[n].seq \in Nat
      /\ m \in Message /\ WellFormed(m) /\ m.round \in Rounds /\ m.round \in Nat
      /\ m.from \in Validators
  BY HandlerStart, DeliverableType
<1>2. m.type = "RoundChange" /\ Current(core[n], m)
  BY DEF HandleRoundChange
<1>pick. PICK first :
        \/ LET started == StartNewRound(n, c, m.round, first)
           IN /\ StartsRound(c, m)
              /\ Become(n, started, IF Height(n) < c.seq THEN Repropose(n, started) ELSE {})
        \/ /\ JoinsRound(c, m)
           /\ Become(n, joined, RoundChangeMsg(n, joined, m.round))
        \/ Become(n, c, {})
  BY DEF HandleRoundChange
<1> DEFINE started == StartNewRound(n, c, m.round, first)
<1>3. c1 \in CoreState /\ SameVotes(core[n], c1) /\ c1.state = core[n].state
  BY <1>1, TakeFacts
<1> HIDE DEF c1
<1>4. /\ c \in CoreState /\ SameVotes(core[n], c) /\ c.state = core[n].state
      /\ SameView(core[n], c) /\ c.prePrepare = core[n].prePrepare
  BY <1>1, <1>3 DEF roundChangeSetAdd, CoreState, SameVotes, SameView
<1> HIDE DEF c
<1>5. m.round >= core[n].round /\ m.round # 0
  BY <1>1, <1>2, CurrentView DEF WellFormed
<1>6. ASSUME Become(n, c, {}) PROVE Moves(n)
  BY <1>4, <1>6, SilentMoves DEF Become
<1>7. ASSUME JoinsRound(c, m), Become(n, joined, RoundChangeMsg(n, joined, m.round))
      PROVE  Moves(n)
  <2>1. m.round > core[n].round /\ c.seq = core[n].seq
    BY <1>1, <1>4, <1>7 DEF JoinsRound, SameView
  <2>2. joined \in CoreState
    BY <1>1, <1>4, CatchUpFacts
  <2> QED BY <1>1, <1>4, <1>7, <2>1, <2>2, CatchUpMoves
<1>8. ASSUME StartsRound(c, m),
             Become(n, started, IF Height(n) < c.seq THEN Repropose(n, started) ELSE {})
      PROVE  Moves(n)
  <2>1. Height(n) \in Nat /\ c.seq \in Nat /\ c.seq <= Height(n) + 1 /\ c.seq \in SeqNumbers
        /\ c.seq = core[n].seq /\ c.round = core[n].round /\ c.waiting = core[n].waiting
    BY <1>1, <1>4, HeadProposer DEF LocalInv, ViewInv, CoreState, SameView
  <2>2. CASE Height(n) >= c.seq
    <3>1. Become(n, started, {})
      BY <1>8, <2>1, <2>2
    <3> QED BY <1>4, <2>1, <2>2, <3>1, NextHeightMoves
  <2>3. CASE Height(n) < c.seq
    <3> DEFINE d == EnterRound(n, c, c.seq, m.round, TRUE, first)
               out == Repropose(n, d)
    <3>1. started = d
      <4>1. ~(Height(n) >= c.seq) /\ Height(n) = c.seq - 1 /\ m.round >= c.round
        BY <1>5, <2>1, <2>3
      <4> QED BY <1>5, <4>1, Zenon DEF StartNewRound
    <3>2. core[n].waiting \/ m.round > core[n].round
      BY <1>1, <1>8, <2>1 DEF StartsRound
    <3>3. Entered(n, c, c.seq, m.round, TRUE, d)
      BY <1>1, <1>4, <2>1, EnterRoundFacts
    <3> HIDE DEF d, started
    <3>4. /\ d \in CoreState /\ ~d.waiting /\ d.seq = core[n].seq /\ d.round = m.round
          /\ IsHashLocked(d) => d.prePrepare = d.lockedHash
      BY <1>1, <1>4, <2>1, <3>3 DEF Entered, LocalInv, ViewInv, IsHashLocked, SameVotes
    <3>5. /\ out \in SUBSET Message /\ \A x, y \in out : x = y
          /\ \A x \in out : x.from = n /\ ~IsVote(x)
      BY <1>1, <3>4, ReproposeOnly
    <3>6. core' = [core EXCEPT ![n] = d] /\ msgs' = msgs \cup out
      BY <1>8, <2>3, <3>1 DEF Become
    <3> HIDE DEF out
    <3>7. Leaves(core[n], d, out)
      BY <1>1, <1>5, <3>2, <3>4, <3>5 DEF Leaves
    <3> QED BY <3>4, <3>5, <3>6, <3>7 DEF Moves, MovesTo
  <2> QED BY <2>1, <2>2, <2>3
<1> QED BY <1>pick, <1>6, <1>7, <1>8

\* A message that is kept for later, or ignored, and the end of a timer.
LEMMA QuietHandlersMove ==
    ASSUME IInv, NEW n \in Running,
           \/ \E m \in Deliverable(n) : HandleFutureMessage(n, m) \/ IgnoreMessage(n, m)
           \/ TimerFires(n) \/ RequestTimeout(n)
    PROVE  Moves(n)
<1> DEFINE c == core[n]
           t == [c EXCEPT !.timer = FALSE, !.timeouts = @ + 1]
<1>1. c \in CoreState
  BY HandlerStart
<1>2. ASSUME NEW m \in Deliverable(n), HandleFutureMessage(n, m) \/ IgnoreMessage(n, m)
      PROVE  Moves(n)
  <2> DEFINE c1 == Take(c, m)
             d == [c1 EXCEPT !.backlog = @ \cup {m}]
  <2>1. m \in Message
    BY DeliverableType
  <2>2. msgs' = msgs /\ (core' = [core EXCEPT ![n] = c1] \/ core' = [core EXCEPT ![n] = d])
    BY <1>2 DEF HandleFutureMessage, IgnoreMessage, StoreBacklog, Become
  <2> HIDE DEF c
  <2>3. c1 \in CoreState /\ SameView(c, c1) /\ c1.prePrepare = c.prePrepare
    BY <1>1, <2>1, TakeFacts DEF SameVotes, SameView
  <2> HIDE DEF c1
  <2>4. d \in CoreState /\ SameView(c, d) /\ d.prePrepare = c.prePrepare
    BY <2>1, <2>3 DEF CoreState, SameView
  <2> HIDE DEF d
  <2> QED BY <2>2, <2>3, <2>4, SilentMoves DEF c
<1>3. ASSUME TimerFires(n) \/ RequestTimeout(n) PROVE Moves(n)
  <2>1. c.timeouts < MaxTimeouts /\ core' = [core EXCEPT ![n] = t] /\ msgs' = msgs
    BY <1>3 DEF TimerFires, RequestTimeout, Become
  <2> HIDE DEF c
  <2>2. c.timeouts + 1 \in 0 .. MaxTimeouts
    BY <1>1, <2>1, BoundsAssumption DEF CoreState
  <2>3. t \in CoreState /\ SameView(c, t) /\ t.prePrepare = c.prePrepare
    BY <1>1, <2>2 DEF CoreState, SameView
  <2> HIDE DEF t
  <2> QED BY <2>1, <2>3, SilentMoves DEF c
<1> QED BY <1>2, <1>3

LEMMA HandleFinalCommittedMoves ==
    ASSUME IInv, NEW n \in Running, HandleFinalCommitted(n) PROVE Moves(n)
BY HandlerStart, NextHeightMoves DEF HandleFinalCommitted

LEMMA HandleTimeoutMoves ==
    ASSUME IInv, NEW n \in Running, handleTimeoutMsg(n) PROVE Moves(n)
<1> DEFINE c == TimedOut(core[n])
<1>1. core[n] \in CoreState
  BY HandlerStart
<1>2. core[n].timeouts > 0
  BY DEF handleTimeoutMsg
<1>pick. PICK first :
        \/ \E r \in RoundsAhead(c) :
              Become(n, catchUpRound(c, r), RoundChangeMsg(n, c, r))
        \/ Height(n) >= c.seq /\ Become(n, StartNewRound(n, c, 0, first), {})
        \/ /\ c.round < MaxRound
           /\ Become(n, catchUpRound(c, c.round + 1), RoundChangeMsg(n, c, c.round + 1))
  BY DEF handleTimeoutMsg
<1>3. core[n].timeouts - 1 \in 0 .. MaxTimeouts /\ NoBlock \in Hashes
  BY <1>1, <1>2, BoundsAssumption DEF CoreState, Hashes
<1>4. c \in CoreState /\ c.seq = core[n].seq /\ c.round = core[n].round
  BY <1>1, <1>3 DEF TimedOut, UnlockHash, CoreState
<1> HIDE DEF c
<1>5. ASSUME NEW r \in Rounds, r > c.round,
             Become(n, catchUpRound(c, r), RoundChangeMsg(n, c, r))
      PROVE  Moves(n)
  BY <1>4, <1>5, CatchUpMoves
<1>6. RoundsAhead(c) \subseteq {r \in Rounds : r > c.round}
  BY DEF RoundsAhead, RoundsWanted
<1>7. c.round < MaxRound => c.round + 1 \in Rounds /\ c.round + 1 > c.round
  BY <1>4, BoundsAssumption DEF CoreState, Rounds
<1> QED BY <1>pick, <1>4, <1>5, <1>6, <1>7, NextHeightMoves

LEMMA InsertBlockMoves ==
    ASSUME IInv, NEW n \in Running, InsertBlock(n) PROVE Moves(n)
<1>1. core' = core /\ msgs' = msgs
  BY DEF InsertBlock
<1>2. core[n] \in CoreState /\ core = [core EXCEPT ![n] = core[n]]
  BY HandlerStart DEF IInv, TypeOK
<1>3. SameView(core[n], core[n])
  BY DEF SameView
<1> QED BY <1>1, <1>2, <1>3, SilentMoves

\* Every step moves one validator; it decides, or a block is inserted, or
\* neither the decisions nor the chains change.
LEMMA NextMoves ==
    ASSUME IInv, Next
    PROVE  \E n \in Running :
             /\ Moves(n)
             /\ \/ committed' = committed /\ chain' = chain
                \/ committed' = committed /\ InsertBlock(n)
                \/ Decides(n) /\ chain' = chain
<1>1. PICK n \in Running :
        \/ \E b \in Blocks : Request(n, b)
        \/ \E b \in core[n].requestCh : HandleRequest(n, b) \/ DeferRequest(n, b)
        \/ ReceiveMessage(n)
        \/ HandleFinalCommitted(n)
        \/ TimerFires(n)
        \/ RequestTimeout(n)
        \/ handleTimeoutMsg(n)
        \/ InsertBlock(n)
  BY DEF Next
<1>2. CASE \E b \in Blocks : Request(n, b)
  <2>1. committed' = committed /\ chain' = chain
    BY <1>2 DEF Request
  <2> QED BY <1>2, <2>1, RequestMoves
<1>3. CASE \E b \in core[n].requestCh : HandleRequest(n, b) \/ DeferRequest(n, b)
  <2>1. committed' = committed /\ chain' = chain
    BY <1>3 DEF HandleRequest, DeferRequest, Become
  <2> QED BY <1>3, <2>1, HandleRequestMoves
<1>4. CASE ReceiveMessage(n)
  <2>1. PICK m \in Deliverable(n) : handleMsg(n, m)
    BY <1>4 DEF ReceiveMessage
  <2>2. CASE HandleDecidingCommit(n, m)
    BY <2>2, HandleDecidingCommitMoves
  <2>3. CASE HandlePrePrepare(n, m) \/ HandleLockedPrePrepare(n, m)
    <3>1. committed' = committed /\ chain' = chain
      BY <2>3 DEF HandlePrePrepare, HandleLockedPrePrepare, Become
    <3> QED BY <2>3, <3>1, HandlePrePrepareMoves
  <2>4. CASE HandleConflictingPrePrepare(n, m) \/ HandleOldPrePrepare(n, m)
    <3>1. committed' = committed /\ chain' = chain
      BY <2>4 DEF HandleConflictingPrePrepare, HandleOldPrePrepare, Become
    <3> QED BY <2>4, <3>1, HandleConflictingPrePrepareMoves, HandleOldPrePrepareMoves
  <2>5. CASE HandlePrepare(n, m)
    <3>1. committed' = committed /\ chain' = chain
      BY <2>5 DEF HandlePrepare, Become
    <3> QED BY <2>5, <3>1, HandlePrepareMoves
  <2>6. CASE HandleCommit(n, m) \/ HandleFailedCommit(n, m)
    <3>1. committed' = committed /\ chain' = chain
      BY <2>6 DEF HandleCommit, HandleFailedCommit, Become
    <3> QED BY <2>6, <3>1, HandleCommitMoves, HandleFailedCommitMoves
  <2>7. CASE HandleRoundChange(n, m)
    <3>1. committed' = committed /\ chain' = chain
      BY <2>7 DEF HandleRoundChange, Become
    <3> QED BY <2>7, <3>1, HandleRoundChangeMoves
  <2>8. CASE HandleFutureMessage(n, m) \/ IgnoreMessage(n, m)
    <3>1. committed' = committed /\ chain' = chain
      BY <2>8 DEF HandleFutureMessage, IgnoreMessage, Become
    <3> QED BY <2>8, <3>1, QuietHandlersMove
  <2> QED BY <2>1, <2>2, <2>3, <2>4, <2>5, <2>6, <2>7, <2>8 DEF handleMsg
<1>5. CASE HandleFinalCommitted(n)
  <2>1. committed' = committed /\ chain' = chain
    BY <1>5 DEF HandleFinalCommitted, Become
  <2> QED BY <1>5, <2>1, HandleFinalCommittedMoves
<1>6. CASE TimerFires(n) \/ RequestTimeout(n)
  <2>1. committed' = committed /\ chain' = chain
    BY <1>6 DEF TimerFires, RequestTimeout, Become
  <2> QED BY <1>6, <2>1, QuietHandlersMove
<1>7. CASE handleTimeoutMsg(n)
  <2>1. committed' = committed /\ chain' = chain
    BY <1>7 DEF handleTimeoutMsg, Become
  <2> QED BY <1>7, <2>1, HandleTimeoutMoves
<1>8. CASE InsertBlock(n)
  <2>1. committed' = committed
    BY <1>8 DEF InsertBlock
  <2> QED BY <1>8, <2>1, InsertBlockMoves
<1> QED BY <1>1, <1>2, <1>3, <1>4, <1>5, <1>6, <1>7, <1>8

-----------------------------------------------------------------------------
(* The action properties of the core. *)

LEMMA ViewMonotoneStep ==
    ASSUME IInv, Next
    PROVE  \A n \in Running :
             \/ core'[n].seq > core[n].seq
             \/ core'[n].seq = core[n].seq /\ core'[n].round >= core[n].round
<1> SUFFICES ASSUME NEW p \in Running
             PROVE  \/ core'[p].seq > core[p].seq
                    \/ core'[p].seq = core[p].seq /\ core'[p].round >= core[p].round
  OBVIOUS
<1>1. PICK n \in Running : Moves(n)
  BY NextMoves
<1>2. PICK d \in CoreState, out \in SUBSET Message : MovesTo(n, d, out)
  BY <1>1 DEF Moves
<1>3. core \in [Running -> CoreState]
  BY DEF IInv, TypeOK
<1>4. CASE p # n
  <2>1. core'[p] = core[p]
    BY <1>2, <1>3, <1>4 DEF MovesTo
  <2>2. core[p].round \in Nat
    BY HandlerStart
  <2> QED BY <2>1, <2>2
<1>5. CASE p = n
  <2>1. core'[p] = d
    BY <1>2, <1>3, <1>5 DEF MovesTo
  <2>2. core[p].round \in Nat /\ d.round \in Nat
    BY HandlerStart, BoundsAssumption DEF CoreState, Rounds
  <2> QED BY <1>2, <1>5, <2>1, <2>2 DEF MovesTo, Stays, Leaves
<1> QED BY <1>4, <1>5

\* No handler takes a validator back to an earlier view (updateRoundState is
\* only called with a later round, the awaited one, or a later height).
THEOREM ViewsMonotone == Spec => ViewMonotone
<1>1. ASSUME IInv, [Next]_vars
      PROVE  [\A n \in Running :
                \/ core'[n].seq > core[n].seq
                \/ core'[n].seq = core[n].seq /\ core'[n].round >= core[n].round]_vars
  <2>1. CASE Next
    BY <1>1, <2>1, ViewMonotoneStep
  <2>2. CASE UNCHANGED vars
    BY <2>2
  <2> QED BY <1>1, <2>1, <2>2
<1> QED BY <1>1, IInvHolds, PTL DEF Spec, ViewMonotone

LEMMA ProposalStableStep ==
    ASSUME IInv, Next
    PROVE  \A n \in Running :
             LET c == core[n]
                 d == core'[n]
             IN c.seq = d.seq /\ c.round = d.round /\ ~c.waiting /\ c.state >= PrePrepared
                => d.prePrepare = c.prePrepare /\ d.state >= c.state /\ ~d.waiting
<1> SUFFICES ASSUME NEW p \in Running, core[p].seq = core'[p].seq,
                    core[p].round = core'[p].round, ~core[p].waiting,
                    core[p].state >= PrePrepared
             PROVE  /\ core'[p].prePrepare = core[p].prePrepare
                    /\ core'[p].state >= core[p].state /\ ~core'[p].waiting
  OBVIOUS
<1>1. PICK n \in Running : Moves(n)
  BY NextMoves
<1>2. PICK d \in CoreState, out \in SUBSET Message : MovesTo(n, d, out)
  BY <1>1 DEF Moves
<1>3. core \in [Running -> CoreState] /\ core[p] \in CoreState
  BY HandlerStart DEF IInv, TypeOK
<1>4. core[p].round \in Nat /\ core[p].seq \in Nat /\ core[p].state \in 0 .. 3
  BY <1>3, HandlerStart, StatesOrdered DEF CoreState
<1>5. CASE p # n
  <2>1. core'[p] = core[p]
    BY <1>2, <1>3, <1>5 DEF MovesTo
  <2> QED BY <1>4, <2>1
<1>6. CASE p = n
  <2>1. core'[p] = d
    BY <1>2, <1>3, <1>6 DEF MovesTo
  <2>2. ~Leaves(core[p], d, out)
    BY <1>4, <2>1 DEF Leaves
  <2> QED BY <1>2, <1>6, <2>1, <2>2 DEF MovesTo, Stays
<1> QED BY <1>5, <1>6

\* An accepted proposal stays the proposal of its view, and the state of the
\* view only advances (setState, acceptPrePrepare).
THEOREM ProposalsStable == Spec => ProposalStable
<1>1. ASSUME IInv, [Next]_vars
      PROVE  [\A n \in Running :
                LET c == core[n]
                    d == core'[n]
                IN c.seq = d.seq /\ c.round = d.round /\ ~c.waiting /\ c.state >= PrePrepared
                   => d.prePrepare = c.prePrepare /\ d.state >= c.state /\ ~d.waiting]_vars
  <2>1. CASE Next
    BY <1>1, <2>1, ProposalStableStep
  <2>2. CASE UNCHANGED vars
    BY <2>2
  <2> QED BY <1>1, <2>1, <2>2
<1> QED BY <1>1, IInvHolds, PTL DEF Spec, ProposalStable

-----------------------------------------------------------------------------
(* Votes and decisions. *)

\* A validator that sent a Commit in the view it is in has prepared there.
CommitsFromPrepared ==
    \A m \in msgs : LET c == core[m.from] IN
        m.type = "Commit" /\ m.seq = c.seq /\ m.round = c.round => c.state >= Prepared

\* The blocks that somebody has committed.
DecidedBlocks == PeerBlocks \cup {e.block : e \in committed}

\* The nodes insert committed blocks only, and a commitment has its votes.
DecisionsInv ==
    /\ \A n \in Running : \A i \in 1 .. Len(chain[n]) : chain[n][i] \in DecidedBlocks
    /\ \A e \in committed : Supported(e)

VotingInv == IInv /\ CommitsFromPrepared /\ DecisionsInv

\* No vote of the current view has been sent while the round is still awaited,
\* no Prepare before the proposal, and no Commit before Prepared.
LEMMA VotesOfView ==
    ASSUME IInv, CommitsFromPrepared, NEW m \in msgs, IsVote(m),
           m.seq = core[m.from].seq, m.round = core[m.from].round
    PROVE  LET c == core[m.from] IN
           /\ m.from \in Running /\ ~c.waiting /\ c.state # AcceptRequest
           /\ m.type = "Commit" => c.state >= Prepared
<1>1. m.from \in Running
  BY DEF IInv
<1>2. ~Future(core[m.from], m)
  BY <1>1, HandlerStart DEF LocalInv, ViewInv
<1>3. ~core[m.from].waiting /\ core[m.from].state # AcceptRequest
  BY <1>2 DEF Future, IsVote
<1> QED BY <1>1, <1>3 DEF CommitsFromPrepared

\* A vote lies in a view that its sender has reached.
LEMMA VoteNotAhead ==
    ASSUME IInv, NEW m \in msgs, IsVote(m)
    PROVE  LET c == core[m.from] IN
           /\ m.seq <= c.seq /\ (m.seq = c.seq => m.round <= c.round)
           /\ c.waiting => ~(m.seq = c.seq /\ m.round = c.round)
<1>1. m.from \in Running /\ m \in Message
  BY DEF IInv, TypeOK
<1>2. ~Future(core[m.from], m)
  BY <1>1, HandlerStart DEF LocalInv, ViewInv
<1>3. core[m.from].seq \in Nat /\ core[m.from].round \in Nat /\ m.seq \in Nat /\ m.round \in Nat
  BY <1>1, HandlerStart, MessageFields
<1> QED BY <1>2, <1>3 DEF Future, IsVote

LEMMA CommitsFromPreparedStep ==
    ASSUME IInv, CommitsFromPrepared, Next PROVE CommitsFromPrepared'
<1>1. PICK n \in Running : Moves(n)
  BY NextMoves
<1>2. PICK d \in CoreState, out \in SUBSET Message : MovesTo(n, d, out)
  BY <1>1 DEF Moves
<1>3. core \in [Running -> CoreState] /\ core' = [core EXCEPT ![n] = d]
      /\ core'[n] = d /\ msgs' = msgs \cup out
  BY <1>2 DEF IInv, TypeOK, MovesTo
<1>4. /\ core[n].seq \in Nat /\ core[n].round \in Nat /\ core[n].state \in 0 .. 3
      /\ d.seq \in Nat /\ d.round \in Nat /\ d.state \in 0 .. 3
  BY HandlerStart, StatesOrdered, BoundsAssumption DEF CoreState, SeqNumbers, Rounds
<1> SUFFICES ASSUME NEW m \in msgs', m.type = "Commit",
                    m.seq = core'[m.from].seq, m.round = core'[m.from].round
             PROVE  core'[m.from].state >= Prepared
  BY DEF CommitsFromPrepared
<1>5. IsVote(m)
  BY DEF IsVote
<1>6. CASE m.from # n
  <2>1. m \in msgs
    BY <1>2, <1>3, <1>6 DEF MovesTo
  <2>2. core'[m.from] = core[m.from]
    BY <1>3, <1>6, <2>1 DEF IInv
  <2> QED BY <2>1, <2>2 DEF CommitsFromPrepared
<1>7. CASE m.from = n /\ m \in msgs
  <2>1. /\ m.seq <= core[n].seq /\ (m.seq = core[n].seq => m.round <= core[n].round)
        /\ core[n].waiting => ~(m.seq = core[n].seq /\ m.round = core[n].round)
    BY <1>5, <1>7, VoteNotAhead
  <2>2. m.seq = d.seq /\ m.round = d.round
    BY <1>3, <1>7
  <2>3. ~Leaves(core[n], d, out)
    BY <1>4, <2>1, <2>2 DEF Leaves
  <2>4. d.seq = core[n].seq /\ d.round = core[n].round /\ d.state >= core[n].state
    BY <1>2, <2>3 DEF MovesTo, Stays
  <2>5. core[n].state >= Prepared
    BY <1>7, <2>2, <2>4 DEF CommitsFromPrepared
  <2> QED BY <1>3, <1>4, <1>7, <2>4, <2>5, StatesOrdered
<1>8. CASE m.from = n /\ m \in out
  <2>1. Stays(n, core[n], d, out) /\ NewVote(n, core[n], d, m)
    BY <1>2, <1>5, <1>8 DEF MovesTo, Stays, Leaves
  <2>2. ~Old(core[n], m)
    BY <1>3, <1>4, <1>8, <2>1 DEF Stays, Old
  <2> QED BY <1>3, <1>8, <2>1, <2>2 DEF NewVote
<1> QED BY <1>3, <1>6, <1>7, <1>8

LEMMA DecisionsInvStep ==
    ASSUME IInv, DecisionsInv, Next PROVE DecisionsInv'
<1>1. PICK n \in Running :
             /\ Moves(n)
             /\ \/ committed' = committed /\ chain' = chain
                \/ committed' = committed /\ InsertBlock(n)
                \/ Decides(n) /\ chain' = chain
  BY NextMoves
<1>2. CASE committed' = committed /\ chain' = chain
  BY <1>2 DEF DecisionsInv, DecidedBlocks, Supported
<1>3. CASE Decides(n) /\ chain' = chain
  <2>1. PICK e \in Commitment : committed' = committed \cup {e} /\ Supported(e)
    BY <1>3 DEF Decides
  <2>2. DecidedBlocks \subseteq DecidedBlocks'
    BY <2>1 DEF DecidedBlocks
  <2>3. \A x \in committed' : Supported(x)
    BY <2>1 DEF DecisionsInv
  <2> QED BY <1>3, <2>2, <2>3 DEF DecisionsInv, Supported
<1>4. CASE committed' = committed /\ InsertBlock(n)
  <2>1. PICK b \in DecidedBlocks : chain' = [chain EXCEPT ![n] = Append(@, b)]
    BY <1>4 DEF InsertBlock, DecidedBlocks
  <2>2. DecidedBlocks' = DecidedBlocks /\ \A e \in committed' : Supported(e)
    BY <1>4 DEF DecidedBlocks, DecisionsInv
  <2>3. chain \in [Running -> Seq(Blocks)] /\ b \in Blocks
    BY CoreAssumption DEF IInv, TypeOK, DecidedBlocks, Commitment
  <2>4. ASSUME NEW p \in Running, NEW i \in 1 .. Len(chain'[p])
        PROVE  chain'[p][i] \in DecidedBlocks
    <3>1. CASE p # n
      <4>1. chain'[p] = chain[p]
        BY <2>1, <2>3, <3>1
      <4> QED BY <2>4, <4>1 DEF DecisionsInv
    <3>2. CASE p = n
      <4>1. chain'[p] = Append(chain[p], b) /\ chain[p] \in Seq(Blocks)
        BY <2>1, <2>3, <3>2
      <4> HIDE DEF DecidedBlocks
      <4>2. i = Len(chain[p]) + 1 \/ i \in 1 .. Len(chain[p])
        BY <2>3, <2>4, <4>1
      <4>3. CASE i = Len(chain[p]) + 1
        BY <2>3, <4>1, <4>3
      <4>4. CASE i \in 1 .. Len(chain[p])
        <5>1. chain'[p][i] = chain[p][i]
          BY <2>3, <4>1, <4>4
        <5> QED BY <4>4, <5>1 DEF DecisionsInv
      <4> QED BY <4>2, <4>3, <4>4
    <3> QED BY <3>1, <3>2
  <2> QED BY <2>2, <2>4 DEF DecisionsInv, Supported
<1> QED BY <1>1, <1>2, <1>3, <1>4

\* VotingInv is an inductive invariant of the specification.
THEOREM VotingInvHolds == Spec => []VotingInv
<1>1. Init => VotingInv
  <2> SUFFICES ASSUME Init PROVE VotingInv
    OBVIOUS
  <2>1. IInv
    BY InitIInv
  <2>2. msgs = {} /\ committed = {} /\ \A n \in Running : chain[n] = <<>>
    BY DEF Init
  <2> QED BY <2>1, <2>2 DEF VotingInv, CommitsFromPrepared, DecisionsInv
<1>2. VotingInv /\ [Next]_vars => VotingInv'
  <2> SUFFICES ASSUME VotingInv, [Next]_vars PROVE VotingInv'
    OBVIOUS
  <2>1. CASE Next
    BY <2>1, NextIInv, CommitsFromPreparedStep, DecisionsInvStep DEF VotingInv
  <2>2. CASE UNCHANGED vars
    <3>1. UNCHANGED <<core, msgs, chain, sealed, committed>>
      BY <2>2 DEF vars
    <3>2. CommitsFromPrepared' /\ DecisionsInv'
      BY <3>1 DEF VotingInv, CommitsFromPrepared, DecisionsInv, Supported, DecidedBlocks
    <3> QED BY <2>2, <3>2, StutterIInv DEF VotingInv
  <2> QED BY <2>1, <2>2
<1> QED BY <1>1, <1>2, PTL DEF Spec

\* A block handed to backend.Commit has enough seals for verifyCommittedSeals,
\* each of another validator: the core's threshold (reachThreshold) is never
\* below the engine's.
THEOREM SealsEnough == Spec => []CommittedSealsEnough
<1>1. VotingInv => CommittedSealsEnough
  <2> SUFFICES ASSUME VotingInv, NEW e \in committed
               PROVE  /\ EnoughSeals(Cardinality(e.votes))
                      /\ \A v, w \in e.votes : v.from = w.from => v = w
    BY DEF CommittedSealsEnough
  <2>1. Supported(e)
    BY DEF VotingInv, DecisionsInv
  <2>2. Size \in Nat /\ Size > 0 /\ FaultTolerantNum(Size) \in Nat
    BY SizeFacts, FaultTolerantNumFacts
  <2>3. EnoughSeals(Cardinality(e.votes))
    BY <2>1, <2>2 DEF Supported, reachThreshold, EnoughSeals
  <2> QED BY <2>1, <2>3 DEF Supported
<1> QED BY <1>1, VotingInvHolds, PTL

LEMMA OneVoteStep ==
    ASSUME VotingInv, Next, NEW m2 \in msgs' \ msgs, NEW m1 \in msgs,
           m1.type = m2.type, m1.type \in {"Prepare", "Commit"},
           m1.from = m2.from, m1.seq = m2.seq, m1.round = m2.round,
           m2.seq = core[m2.from].seq, m2.round = core[m2.from].round
    PROVE  FALSE
<1> USE DEF VotingInv
<1>1. PICK n \in Running : Moves(n)
  BY NextMoves
<1>2. PICK d \in CoreState, out \in SUBSET Message : MovesTo(n, d, out)
  BY <1>1 DEF Moves
<1>3. m2 \in out /\ m2.from = n
  BY <1>2 DEF MovesTo
<1>4. IsVote(m1) /\ IsVote(m2)
  BY DEF IsVote
<1>5. NewVote(n, core[n], d, m2)
  BY <1>2, <1>3, <1>4 DEF MovesTo, Stays, Leaves
<1>6. /\ core[n].state # AcceptRequest
      /\ m1.type = "Commit" => core[n].state >= Prepared
  BY <1>3, <1>4, VotesOfView
<1>7. core[n].seq \in Nat /\ core[n].round \in Nat /\ core[n].state \in 0 .. 3
  BY HandlerStart, StatesOrdered DEF CoreState
<1>8. ~Old(core[n], m2)
  BY <1>3, <1>7 DEF Old
<1> QED BY <1>5, <1>6, <1>7, <1>8, StatesOrdered DEF NewVote

\* A validator never sends a second, different Prepare or Commit in the view it
\* is in (HandlePrePrepare, HandlePrepare and their state checks).
THEOREM VotesOncePerView == Spec => OneVotePerView
<1>1. ASSUME VotingInv, [Next]_vars
      PROVE  [\A m2 \in msgs' \ msgs : \A m1 \in msgs :
                /\ m1.type = m2.type /\ m1.type \in {"Prepare", "Commit"}
                /\ m1.from = m2.from /\ m1.seq = m2.seq /\ m1.round = m2.round
                /\ m2.seq = core[m2.from].seq /\ m2.round = core[m2.from].round
                => m1.digest = m2.digest]_vars
  <2>1. CASE Next
    BY <1>1, <2>1, OneVoteStep
  <2>2. CASE UNCHANGED vars
    BY <2>2
  <2> QED BY <1>1, <2>1, <2>2
<1> QED BY <1>1, VotingInvHolds, PTL DEF Spec, OneVotePerView

-----------------------------------------------------------------------------
(* The core implements ViewVoting. *)

VoteOf(m) == [from |-> m.from, view |-> <<m.seq, m.round>>, block |-> m.digest]

DecisionOf(e) == [by |-> e.node, view |-> <<e.seq, e.round>>, block |-> e.block]

LEMMA CommitVotesUnion ==
    ASSUME NEW ms, NEW out
    PROVE  CommitVotes(ms \cup out) = CommitVotes(ms) \cup CommitVotes(out)
BY DEF CommitVotes

LEMMA CommitVotesSingle ==
    ASSUME NEW m
    PROVE  /\ m.type = "Commit" => CommitVotes({m}) = {VoteOf(m)}
           /\ m.type # "Commit" => CommitVotes({m}) = {}
BY DEF CommitVotes, VoteOf

\* The senders of a commitment's Commits are the voters of its decision.
LEMMA VotersAreSenders ==
    ASSUME IInv, NEW e
    PROVE  {w.from : w \in {u \in CommitVotes(msgs) \cup CommitVotes(PeerMessages) :
                                u.view = DecisionOf(e).view /\ u.block = DecisionOf(e).block}}
           = CommitSenders(e, msgs)
<1> DEFINE U == {u \in CommitVotes(msgs) \cup CommitVotes(PeerMessages) :
                   u.view = DecisionOf(e).view /\ u.block = DecisionOf(e).block}
<1>1. \A m \in msgs \cup PeerMessages : m.from \in Validators
  BY CoreAssumption DEF IInv, TypeOK, Message
<1>2. CommitVotes(msgs) \cup CommitVotes(PeerMessages)
        = {VoteOf(m) : m \in {x \in msgs \cup PeerMessages : x.type = "Commit"}}
  BY DEF CommitVotes, VoteOf
<1>3. \A m : /\ VoteOf(m).from = m.from /\ VoteOf(m).block = m.digest
             /\ VoteOf(m).view = <<m.seq, m.round>>
  BY DEF VoteOf
<1>4. DecisionOf(e).view = <<e.seq, e.round>> /\ DecisionOf(e).block = e.block
  BY DEF DecisionOf
<1>5. ASSUME NEW v \in CommitSenders(e, msgs) PROVE \E w \in U : w.from = v
  <2>1. PICK m \in msgs \cup PeerMessages :
          /\ m.type = "Commit" /\ m.from = v /\ m.digest = e.block
          /\ m.seq = e.seq /\ m.round = e.round
    BY <1>5 DEF CommitSenders
  <2>2. VoteOf(m) \in U
    BY <1>2, <1>3, <1>4, <2>1
  <2> QED BY <1>3, <2>1, <2>2
<1>6. ASSUME NEW w \in U PROVE w.from \in CommitSenders(e, msgs)
  <2>1. PICK m \in msgs \cup PeerMessages : m.type = "Commit" /\ w = VoteOf(m)
    BY <1>2, <1>6
  <2>2. m.seq = e.seq /\ m.round = e.round /\ m.digest = e.block /\ w.from = m.from
    BY <1>3, <1>4, <1>6, <2>1
  <2> QED BY <1>1, <2>1, <2>2 DEF CommitSenders
<1> QED BY <1>5, <1>6

\* The abstract specification counts a quorum the same way.
LEMMA SameQuorum ==
    ASSUME NEW Q PROVE Voting!IsQuorum(Q) <=> IsQuorum(Q)
<1>1. Voting!Cardinality(Q) = Cardinality(Q)
  BY DEF Voting!Cardinality, Cardinality
<1> QED BY <1>1 DEF Voting!IsQuorum, IsQuorum, Voting!reachThreshold, reachThreshold,
                    Voting!Size, Size, Voting!FaultTolerantNum, FaultTolerantNum

LEMMA VotingStep ==
    ASSUME VotingInv, Next
    PROVE  Voting!Next \/ UNCHANGED <<CommitVotes(msgs), Decisions>>
<1> USE DEF VotingInv
<1>1. PICK n \in Running :
             /\ Moves(n)
             /\ \/ committed' = committed /\ chain' = chain
                \/ committed' = committed /\ InsertBlock(n)
                \/ Decides(n) /\ chain' = chain
  BY NextMoves
<1>2. CASE Decides(n)
  <2>1. PICK e \in Commitment : committed' = committed \cup {e} /\ e.node = n
    BY <1>2 DEF Decides
  <2>2. msgs' = msgs
    BY <1>2 DEF Decides
  <2>3. IInv'
    BY NextIInv
  <2>4. IsQuorum(CommitSenders(e, msgs))
    <3>1. IsQuorum(CommitSenders(e, msgs'))
      BY <2>1, <2>3 DEF IInv, CommitCertificate
    <3> QED BY <2>2, <3>1
  <2>5. Decisions' = Decisions \cup {DecisionOf(e)}
    BY <2>1 DEF Decisions, DecisionOf
  <2>6. DecisionOf(e).by \in Running
    BY <2>1 DEF DecisionOf
  <2>7. UNCHANGED CommitVotes(msgs)
    BY <2>2 DEF CommitVotes
  <2>8. Voting!Decide(DecisionOf(e))
    BY <2>4, <2>5, <2>6, <2>7, VotersAreSenders, SameQuorum DEF Voting!Decide
  <2> QED BY <2>5, <2>8 DEF Voting!Next
<1>3. CASE committed' = committed
  <2>1. PICK d \in CoreState, out \in SUBSET Message : MovesTo(n, d, out)
    BY <1>1 DEF Moves
  <2>2. UNCHANGED Decisions
    BY <1>3 DEF Decisions
  <2>3. CommitVotes(msgs') = CommitVotes(msgs) \cup CommitVotes(out)
    BY <2>1, CommitVotesUnion DEF MovesTo
  <2>4. CASE \A m \in out : m.type # "Commit"
    <3>1. CommitVotes(out) = {}
      BY <2>4 DEF CommitVotes
    <3>2. UNCHANGED CommitVotes(msgs)
      BY <2>3, <3>1 DEF CommitVotes
    <3> QED BY <2>2, <3>2
  <2>5. ASSUME NEW m \in out, m.type = "Commit" PROVE Voting!Next
    <3>1. out = {m} /\ m.from = n
      BY <2>1, <2>5 DEF MovesTo
    <3>2. CommitVotes(msgs)' = CommitVotes(msgs) \cup {VoteOf(m)}
      <4>1. CommitVotes(msgs)' = CommitVotes(msgs')
        BY DEF CommitVotes
      <4> QED BY <2>3, <2>5, <3>1, <4>1, CommitVotesSingle
    <3>3. VoteOf(m).from \in Running /\ VoteOf(m).block = m.digest
      BY <3>1 DEF VoteOf
    <3>4. NewVote(n, core[n], d, m)
      BY <2>1, <2>5 DEF MovesTo, Stays, Leaves, IsVote
    <3>5. CASE HasProposal(n, m.digest)
      <4>1. m.digest \in DecidedBlocks
        BY <3>5 DEF HasProposal, DecisionsInv
      <4>2. VoteOf(m).block \in PeerBlocks \cup {x.block : x \in Decisions}
        <5>1. Decisions = {DecisionOf(e) : e \in committed}
          BY DEF Decisions, DecisionOf
        <5>2. \A e : DecisionOf(e).block = e.block
          BY DEF DecisionOf
        <5> QED BY <3>3, <4>1, <5>1, <5>2 DEF DecidedBlocks
      <4>3. Voting!Endorse(VoteOf(m))
        BY <2>2, <3>2, <3>3, <4>2 DEF Voting!Endorse
      <4> QED BY <3>2, <4>3 DEF Voting!Next
    <3>6. CASE m.seq = core[n].seq /\ m.round = core[n].round /\ core[n].state < Prepared
      <4>1. ASSUME NEW w \in CommitVotes(msgs), w.from = VoteOf(m).from,
                   w.view = VoteOf(m).view
            PROVE  FALSE
        <5>1. PICK q \in msgs : q.type = "Commit" /\ w = VoteOf(q)
          BY <4>1 DEF CommitVotes, VoteOf
        <5>2. q.from = n /\ q.seq = core[n].seq /\ q.round = core[n].round
          BY <3>1, <3>6, <4>1, <5>1 DEF VoteOf
        <5>3. core[n].state >= Prepared
          BY <5>1, <5>2 DEF CommitsFromPrepared
        <5>4. core[n].state \in 0 .. 3
          BY HandlerStart, StatesOrdered DEF CoreState
        <5> QED BY <3>6, <5>3, <5>4, StatesOrdered
      <4>2. Voting!CastVote(VoteOf(m))
        BY <2>2, <3>2, <3>3, <4>1 DEF Voting!CastVote
      <4> QED BY <3>2, <4>2 DEF Voting!Next
    <3> QED BY <2>5, <3>4, <3>5, <3>6 DEF NewVote
  <2> QED BY <2>4, <2>5
<1> QED BY <1>1, <1>2, <1>3

\* The consensus core implements the abstract vote: every step casts one vote,
\* endorses a decided block, decides on a quorum of one view, or concerns none
\* of that (SendCommit, sendCommitForOldBlock, commit).
THEOREM CoreImplementsViewVoting == Spec => ImplementsViewVoting
<1>1. Init => Voting!Init
  BY DEF Init, Voting!Init, CommitVotes, Decisions
<1>2. VotingInv /\ [Next]_vars => [Voting!Next]_<<CommitVotes(msgs), Decisions>>
  <2> SUFFICES ASSUME VotingInv, [Next]_vars
               PROVE  Voting!Next \/ UNCHANGED <<CommitVotes(msgs), Decisions>>
    OBVIOUS
  <2>1. CASE UNCHANGED vars
    BY <2>1 DEF vars, CommitVotes, Decisions
  <2> QED BY <2>1, VotingStep
<1> QED BY <1>1, <1>2, VotingInvHolds, PTL DEF Spec, ImplementsViewVoting, Voting!Spec

-----------------------------------------------------------------------------
(* Agreement.  Two blocks of one height can be committed, since a timeout   *)
(* drops the lock (Agreement fails in TLC's run CoreAgreement).  What the   *)
(* vote does guarantee: a height is never split inside one round first.     *)

\* Most validators run this code: at most f others.
FewFaults == Cardinality(Validators \ Running) <= FaultTolerantNum(Size)

\* Two quorums meet in more than f validators.
QuorumsMeet == FaultTolerantNum(Size) = 0 \/ Size = 3 * FaultTolerantNum(Size) + 1

DecidedAt(h) == {e \in committed : e.seq = h}

\* No two rounds of a height decided differently, and no peer holds a block
\* other than the decided one.
RoundsAgree ==
    /\ \A e1, e2 \in committed :
          e1.seq = e2.seq /\ e1.round # e2.round => e1.block = e2.block
    /\ \A e \in committed, b \in PeerBlocks : b.height = e.seq => b = e.block

CommitsIn(v, h, r) ==
    {m \in msgs : m.type = "Commit" /\ m.from = v /\ m.seq = h /\ m.round = r}

\* Before a height is decided no validator sends two Commits in one view.
OneCommitEach(h) ==
    \A v \in Running, r \in Rounds : \A m1, m2 \in CommitsIn(v, h, r) : m1.digest = m2.digest

\* Afterwards there is a decision whose quorum committed to nothing else in
\* the view of the decision.
Anchored(h) ==
    \E e \in DecidedAt(h), Q \in SUBSET Validators :
        /\ IsQuorum(Q)
        /\ \A v \in Q \cap Running :
              /\ CommitsIn(v, h, e.round) # {}
              /\ \A m \in CommitsIn(v, h, e.round) : m.digest = e.block

HeightInv(h) ==
    IF DecidedAt(h) = {} THEN OneCommitEach(h)
    ELSE Anchored(h) /\ \A e1, e2 \in DecidedAt(h) : e1.block = e2.block

AgreementInv ==
    RoundsAgree =>
        \A h \in SeqNumbers : (\A b \in PeerBlocks : b.height # h) => HeightInv(h)

\* Two quorums share a validator that runs this code.
LEMMA RunningWitness ==
    ASSUME FewFaults, QuorumsMeet,
           NEW Q1 \in SUBSET Validators, NEW Q2 \in SUBSET Validators,
           IsQuorum(Q1), IsQuorum(Q2)
    PROVE  \E v \in Running : v \in Q1 /\ v \in Q2
<1> SUFFICES ASSUME \A v \in Running : ~(v \in Q1 /\ v \in Q2) PROVE FALSE
  OBVIOUS
<1>1. Q1 \cap Q2 \subseteq Validators \ Running
  OBVIOUS
<1>2. Cardinality(Q1 \cap Q2) > FaultTolerantNum(Size)
  BY QuorumsIntersect DEF QuorumsMeet
<1>3. /\ Q1 \cap Q2 \in SUBSET Validators /\ Validators \ Running \in SUBSET Validators
  OBVIOUS
<1>4. Cardinality(Q1 \cap Q2) <= Cardinality(Validators \ Running)
  BY <1>1, <1>3, SubsetOfValidators, FS_Subset
<1>5. Cardinality(Q1 \cap Q2) \in Nat /\ Cardinality(Validators \ Running) \in Nat
  BY <1>3, SubsetOfValidators
<1>6. FaultTolerantNum(Size) \in Nat
  BY SizeFacts, FaultTolerantNumFacts
<1> QED BY <1>2, <1>4, <1>5, <1>6 DEF FewFaults

\* A running validator whose Commit is in a certificate has sent it itself.
LEMMA SenderCommitted ==
    ASSUME NEW e, NEW v \in Running, v \in CommitSenders(e, msgs)
    PROVE  \E m \in CommitsIn(v, e.seq, e.round) : m.digest = e.block
BY CoreAssumption DEF CommitSenders, CommitsIn

\* What a step that decides nothing does to the Commits of a height.
LEMMA NewCommit ==
    ASSUME VotingInv, Next, committed' = committed, NEW m \in msgs' \ msgs,
           m.type = "Commit", \A b \in PeerBlocks : b.height # m.seq
    PROVE  /\ m.from \in Running /\ m.round \in Rounds
           /\ \A x \in msgs' \ msgs : x = m
           /\ \/ CommitsIn(m.from, m.seq, m.round) = {}
              \/ \E e \in DecidedAt(m.seq) : m.digest = e.block
<1> USE DEF VotingInv
<1>1. PICK n \in Running : Moves(n)
  BY NextMoves
<1>2. PICK d \in CoreState, out \in SUBSET Message : MovesTo(n, d, out)
  BY <1>1 DEF Moves
<1>3. /\ m \in out /\ m.from = n /\ m \in Message
      /\ \A x \in msgs' \ msgs : x = m
  BY <1>2 DEF MovesTo
<1>4. NewVote(n, core[n], d, m)
  BY <1>2, <1>3 DEF MovesTo, Stays, Leaves, IsVote
<1>5. CASE HasProposal(n, m.digest)
  <2>1. m.digest \in DecidedBlocks
    BY <1>5 DEF HasProposal, DecisionsInv
  <2>2. m.digest.height = m.seq
    <3>1. IInv' /\ m \in msgs'
      BY NextIInv
    <3> QED BY <3>1 DEF IInv, WellFormed
  <2>3. PICK e \in committed : m.digest = e.block
    BY <2>1, <2>2 DEF DecidedBlocks
  <2>4. e.seq = m.seq
    BY <2>2, <2>3 DEF DecisionsInv, Supported
  <2> QED BY <1>3, <2>3, <2>4 DEF DecidedAt, Message
<1>6. CASE m.seq = core[n].seq /\ m.round = core[n].round /\ core[n].state < Prepared
  <2>1. core[n].state \in 0 .. 3
    BY HandlerStart, StatesOrdered DEF CoreState
  <2>2. ASSUME NEW q \in CommitsIn(n, m.seq, m.round) PROVE FALSE
    <3>1. core[n].state >= Prepared
      BY <1>6, <2>2 DEF CommitsIn, CommitsFromPrepared
    <3> QED BY <1>6, <2>1, <3>1, StatesOrdered
  <2> QED BY <1>3, <2>2 DEF Message
<1> QED BY <1>4, <1>5, <1>6 DEF NewVote

LEMMA CommitsInMonotone ==
    ASSUME NEW v, NEW h, NEW r, msgs \subseteq msgs'
    PROVE  CommitsIn(v, h, r) \subseteq CommitsIn(v, h, r)'
BY DEF CommitsIn

LEMMA MessagesGrow ==
    ASSUME IInv, Next PROVE msgs \subseteq msgs'
<1>1. PICK n \in Running : Moves(n)
  BY NextMoves
<1> QED BY <1>1 DEF Moves, MovesTo

\* A Commit is sent, or nothing that matters here happens.
LEMMA HeightInvVote ==
    ASSUME VotingInv, Next, committed' = committed, NEW h \in SeqNumbers,
           \A b \in PeerBlocks : b.height # h, HeightInv(h)
    PROVE  HeightInv(h)'
<1> USE DEF VotingInv
<1>1. msgs \subseteq msgs' /\ DecidedAt(h)' = DecidedAt(h)
  BY MessagesGrow DEF DecidedAt
<1>2. ASSUME NEW v, NEW r, NEW m \in CommitsIn(v, h, r)', m \notin CommitsIn(v, h, r)
      PROVE  /\ CommitsIn(v, h, r)' = CommitsIn(v, h, r) \cup {m}
             /\ CommitsIn(v, h, r) = {} \/ \E e \in DecidedAt(h) : m.digest = e.block
  <2>1. m \in msgs' \ msgs /\ m.type = "Commit" /\ m.seq = h /\ m.from = v /\ m.round = r
    BY <1>2 DEF CommitsIn
  <2>2. \A x \in msgs' \ msgs : x = m
    BY <2>1, NewCommit
  <2>3. CommitsIn(v, h, r) = {} \/ \E e \in DecidedAt(h) : m.digest = e.block
    BY <2>1, NewCommit
  <2>4. CommitsIn(v, h, r)' = CommitsIn(v, h, r) \cup {m}
    BY <1>1, <2>1, <2>2 DEF CommitsIn
  <2> QED BY <2>3, <2>4
<1>3. CASE DecidedAt(h) = {}
  <2>1. OneCommitEach(h)
    BY <1>3 DEF HeightInv
  <2>2. ASSUME NEW v \in Running, NEW r \in Rounds, NEW m1 \in CommitsIn(v, h, r)',
               NEW m2 \in CommitsIn(v, h, r)'
        PROVE  m1.digest = m2.digest
    <3>1. CASE m1 \in CommitsIn(v, h, r) /\ m2 \in CommitsIn(v, h, r)
      BY <2>1, <3>1 DEF OneCommitEach
    <3>2. CASE m1 \notin CommitsIn(v, h, r)
      <4>1. CommitsIn(v, h, r)' = {m1}
        BY <1>2, <1>3, <2>2, <3>2
      <4> QED BY <2>2, <4>1
    <3>3. CASE m2 \notin CommitsIn(v, h, r)
      <4>1. CommitsIn(v, h, r)' = {m2}
        BY <1>2, <1>3, <2>2, <3>3
      <4> QED BY <2>2, <4>1
    <3> QED BY <3>1, <3>2, <3>3
  <2>3. OneCommitEach(h)'
    BY <2>2 DEF OneCommitEach
  <2> QED BY <1>1, <1>3, <2>3 DEF HeightInv
<1>4. CASE DecidedAt(h) # {}
  <2>1. Anchored(h) /\ \A e1, e2 \in DecidedAt(h) : e1.block = e2.block
    BY <1>4 DEF HeightInv
  <2>2. PICK e \in DecidedAt(h), Q \in SUBSET Validators :
          /\ IsQuorum(Q)
          /\ \A v \in Q \cap Running :
                /\ CommitsIn(v, h, e.round) # {}
                /\ \A m \in CommitsIn(v, h, e.round) : m.digest = e.block
    BY <2>1 DEF Anchored
  <2>3. ASSUME NEW v \in Q \cap Running
        PROVE  /\ CommitsIn(v, h, e.round)' # {}
               /\ \A m \in CommitsIn(v, h, e.round)' : m.digest = e.block
    <3>1. CommitsIn(v, h, e.round)' # {}
      BY <1>1, <2>2, CommitsInMonotone
    <3>2. ASSUME NEW m \in CommitsIn(v, h, e.round)' PROVE m.digest = e.block
      <4>1. CASE m \in CommitsIn(v, h, e.round)
        BY <2>2, <4>1
      <4>2. CASE m \notin CommitsIn(v, h, e.round)
        BY <1>2, <2>1, <2>2, <3>2, <4>2
      <4> QED BY <4>1, <4>2
    <3> QED BY <3>1, <3>2
  <2>4. Anchored(h)'
    BY <1>1, <2>2, <2>3 DEF Anchored, IsQuorum
  <2> QED BY <1>1, <1>4, <2>1, <2>4 DEF HeightInv
<1> QED BY <1>3, <1>4

\* A block is decided.
LEMMA HeightInvDecide ==
    ASSUME VotingInv, VotingInv', FewFaults, QuorumsMeet, RoundsAgree',
           NEW d \in committed', committed' = committed \cup {d}, msgs' = msgs,
           NEW h \in SeqNumbers, HeightInv(h)
    PROVE  HeightInv(h)'
<1> DEFINE Q2 == CommitSenders(d, msgs)
<1>1. IsQuorum(Q2) /\ Q2 \in SUBSET Validators
  <2>1. IsQuorum(CommitSenders(d, msgs'))
    BY DEF VotingInv, IInv, CommitCertificate
  <2> QED BY <2>1 DEF CommitSenders
<1>2. \A v \in Running : v \in Q2 => \E m \in CommitsIn(v, d.seq, d.round) : m.digest = d.block
  BY SenderCommitted
<1> HIDE DEF Q2
<1>3. \A v, r : CommitsIn(v, h, r)' = CommitsIn(v, h, r)
  BY DEF CommitsIn
<1>4. CASE d.seq # h
  <2>1. DecidedAt(h)' = DecidedAt(h)
    BY <1>4 DEF DecidedAt
  <2> QED BY <1>3, <2>1 DEF HeightInv, OneCommitEach, Anchored, IsQuorum
<1>5. CASE d.seq = h /\ DecidedAt(h) = {}
  <2>1. DecidedAt(h)' = {d}
    BY <1>5 DEF DecidedAt
  <2>2. d.round \in Rounds
    BY DEF VotingInv, IInv, TypeOK, Commitment
  <2>3. \A v \in Q2 \cap Running :
              /\ CommitsIn(v, h, d.round) # {}
              /\ \A m \in CommitsIn(v, h, d.round) : m.digest = d.block
    BY <1>2, <1>5, <2>2 DEF HeightInv, OneCommitEach
  <2>4. Anchored(h)'
    BY <1>1, <1>3, <2>1, <2>3 DEF Anchored, IsQuorum
  <2> QED BY <2>1, <2>4 DEF HeightInv
<1>6. CASE d.seq = h /\ DecidedAt(h) # {}
  <2>1. DecidedAt(h)' = DecidedAt(h) \cup {d}
    BY <1>6 DEF DecidedAt
  <2>2. Anchored(h) /\ \A e1, e2 \in DecidedAt(h) : e1.block = e2.block
    BY <1>6 DEF HeightInv
  <2>3. PICK e \in DecidedAt(h), Q \in SUBSET Validators :
          /\ IsQuorum(Q)
          /\ \A v \in Q \cap Running :
                /\ CommitsIn(v, h, e.round) # {}
                /\ \A m \in CommitsIn(v, h, e.round) : m.digest = e.block
    BY <2>2 DEF Anchored
  <2>4. d.block = e.block
    <3>1. CASE d.round # e.round
      BY <1>6, <3>1 DEF RoundsAgree, DecidedAt
    <3>2. CASE d.round = e.round
      <4>1. PICK v \in Running : v \in Q /\ v \in Q2
        BY <1>1, <2>3, RunningWitness
      <4>2. PICK m \in CommitsIn(v, h, e.round) : m.digest = d.block
        BY <1>2, <1>6, <3>2, <4>1
      <4> QED BY <2>3, <4>1, <4>2
    <3> QED BY <3>1, <3>2
  <2>5. \A e1, e2 \in DecidedAt(h)' : e1.block = e2.block
    BY <2>1, <2>2, <2>4
  <2>6. Anchored(h)'
    BY <1>3, <2>1, <2>3 DEF Anchored, IsQuorum
  <2> QED BY <2>1, <2>5, <2>6 DEF HeightInv
<1> QED BY <1>4, <1>5, <1>6

LEMMA AgreementInvStep ==
    ASSUME VotingInv, VotingInv', FewFaults, QuorumsMeet, AgreementInv, Next
    PROVE  AgreementInv'
<1>1. PICK n \in Running : committed' = committed \/ Decides(n)
  BY NextMoves DEF VotingInv
<1> SUFFICES ASSUME RoundsAgree', NEW h \in SeqNumbers, \A b \in PeerBlocks : b.height # h
             PROVE  HeightInv(h)'
  BY DEF AgreementInv
<1>2. committed \subseteq committed'
  BY <1>1 DEF Decides
<1>3. RoundsAgree
  BY <1>2 DEF RoundsAgree
<1>4. HeightInv(h)
  BY <1>3 DEF AgreementInv
<1>5. CASE committed' = committed
  BY <1>4, <1>5, HeightInvVote
<1>6. CASE Decides(n)
  <2>1. PICK d \in Commitment : committed' = committed \cup {d}
    BY <1>6 DEF Decides
  <2>2. msgs' = msgs /\ d \in committed'
    BY <1>6, <2>1 DEF Decides
  <2> QED BY <1>4, <2>1, <2>2, HeightInvDecide
<1> QED BY <1>1, <1>5, <1>6

LEMMA AgreementInvHolds ==
    ASSUME FewFaults, QuorumsMeet PROVE Spec => []AgreementInv
<1>1. Init => AgreementInv
  BY DEF Init, AgreementInv, HeightInv, DecidedAt, OneCommitEach, CommitsIn
<1>2. VotingInv /\ VotingInv' /\ AgreementInv /\ [Next]_vars => AgreementInv'
  <2> SUFFICES ASSUME VotingInv, VotingInv', AgreementInv, [Next]_vars PROVE AgreementInv'
    OBVIOUS
  <2>1. CASE UNCHANGED vars
    <3>1. msgs' = msgs /\ committed' = committed
      BY <2>1 DEF vars
    <3> QED BY <3>1 DEF AgreementInv, RoundsAgree, HeightInv, DecidedAt, OneCommitEach,
                        Anchored, CommitsIn, IsQuorum
  <2>2. CASE Next
    BY <2>2, AgreementInvStep
  <2> QED BY <2>1, <2>2
<1> QED BY <1>1, <1>2, VotingInvHolds, PTL DEF Spec

\* A height splits over its rounds only: as long as no two rounds of a height
\* have decided differently (and no peer holds another block of that height) at
\* most one block per height is committed, in whatever order the validators
\* propose twice, time out, lock, unlock and answer old proposals.
THEOREM ForksCrossRounds ==
    ASSUME FewFaults, QuorumsMeet PROVE Spec => [](RoundsAgree => Agreement)
<1>1. VotingInv /\ AgreementInv => (RoundsAgree => Agreement)
  <2> SUFFICES ASSUME VotingInv, AgreementInv, RoundsAgree,
                      NEW e1 \in committed, NEW e2 \in committed, e1.seq = e2.seq
               PROVE  e1.block = e2.block
    BY DEF Agreement
  <2>1. e1.seq \in SeqNumbers
    BY DEF VotingInv, IInv, TypeOK, Commitment
  <2>2. CASE \E b \in PeerBlocks : b.height = e1.seq
    BY <2>2 DEF RoundsAgree
  <2>3. CASE \A b \in PeerBlocks : b.height # e1.seq
    <3>1. HeightInv(e1.seq)
      BY <2>1, <2>3 DEF AgreementInv
    <3> QED BY <3>1 DEF HeightInv, DecidedAt
  <2> QED BY <2>2, <2>3
<1> QED BY <1>1, VotingInvHolds, AgreementInvHolds, PTL

\* Inside one view at most one block is committed, even when its proposer sends
\* several proposals, as long as the rounds of the height agree.
THEOREM ViewsAgree ==
    ASSUME FewFaults, QuorumsMeet PROVE Spec => [](RoundsAgree => ViewAgreement)
<1>1. Agreement => ViewAgreement
  BY DEF Agreement, ViewAgreement
<1> QED BY <1>1, ForksCrossRounds, PTL

\* Without round changes there is one block per height.
THEOREM FirstRoundAgrees ==
    ASSUME FewFaults, QuorumsMeet, MaxRound = 0, PeerBlocks = {}
    PROVE  Spec => []Agreement
<1>1. VotingInv => RoundsAgree
  <2> SUFFICES ASSUME VotingInv, NEW e1 \in committed, NEW e2 \in committed
               PROVE  e1.round = e2.round
    BY DEF RoundsAgree
  <2>1. e1.round \in 0 .. 0 /\ e2.round \in 0 .. 0
    BY DEF VotingInv, IInv, TypeOK, Commitment, Rounds
  <2> QED BY <2>1
<1> QED BY <1>1, VotingInvHolds, ForksCrossRounds, PTL
=============================================================================
