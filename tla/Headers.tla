------------------------------- MODULE Headers -------------------------------
(***************************************************************************)
(* A header on its way into the chain: a validator prepares it or a peer   *)
(* proposes it, the validators verify it as a proposal, a quorum seals it, *)
(* and nodes verify it again, with its seals, before they insert it.       *)
(* Sealed headers also come from peers directly.                           *)
(***************************************************************************)
EXTENDS HeaderRules, Functions

CONSTANTS
    Outsiders,      \* signers that are no validators
    Faulty,         \* validators whose Commits may carry a seal of something else
    MaxSeals,       \* bound: seals of a peer's header
    MaxHeight,      \* bound: length of the chain
    MaxTime         \* bound: the clock

ASSUME HeadersAssumption ==
    /\ Outsiders \cap Validators = {} /\ Faulty \subseteq Validators
    /\ MaxSeals \in Nat /\ MaxHeight \in Nat /\ MaxTime \in Nat

VARIABLES
    chain,      \* the headers of the chain, genesis first
    now,        \* the clocks of the nodes, in milliseconds
    proposal,   \* the last verified proposal; the genesis header before any
    block       \* the last committed block, likewise

vars == <<chain, now, proposal, block>>

Signers == Validators \cup Outsiders

Genesis ==
    [height |-> 0, parent |-> <<>>, time |-> 0, signer |-> NoValidator,
     voteSigned |-> TRUE, seals |-> <<>>]

CurrentHeader == chain[Len(chain)]

\* A header of the next height on top of a parent.
HeaderOn(parent, time, signer, voteSigned, seals) ==
    [height |-> parent.height + 1, parent |-> Hash(parent), time |-> time,
     signer |-> signer, voteSigned |-> voteSigned, seals |-> seals]

PreparedTime_NoPeriod(parent) == IF parent.time < now THEN now ELSE parent.time

PreparedTime(parent) ==
    IF parent.time + BlockPeriod < now THEN now ELSE parent.time + BlockPeriod

\* Prepare and updateBlock: a block period after the parent, or now; signed.
Prepare(v) == HeaderOn(CurrentHeader, PreparedTime(CurrentHeader), v, TRUE, <<>>)

\* A verified proposal, prepared by the code or any other.
Propose(h) ==
    /\ Verify(now, CurrentHeader, h)
    /\ proposal' = h
    /\ UNCHANGED <<chain, now, block>>

SealsOf_NoSender(Q, Good) == [i \in 1 .. Cardinality(Q) |-> Seal(NoValidator, TRUE)]

\* The core keeps the Commits in a map: which order their seals come in is not
\* known, and verifyCommittedSeals does not depend on it.  Good is the part of Q
\* whose seals sign the proposal.
SealsOf(Q, Good) ==
    LET order == CHOOSE o \in Bijection(1 .. Cardinality(Q), Q) : TRUE
    IN [i \in 1 .. Cardinality(Q) |-> Seal(order[i], order[i] \in Good)]

\* writeCommittedSeals: the core has Commits of a quorum for the proposal and
\* writes their seals into it.  Nobody has checked the seals.
Commit(Q, Good) ==
    /\ proposal # Genesis
    /\ IsQuorum(Q)
    /\ block' = [proposal EXCEPT !.seals = SealsOf(Q, Good)]
    /\ UNCHANGED <<chain, now, proposal>>

\* A node inserts a header that it verified.
Insert(h) ==
    /\ Len(chain) <= MaxHeight
    /\ verifyHeader(now, CurrentHeader, h) = "nil"
    /\ chain' = Append(chain, h)
    /\ UNCHANGED <<now, proposal, block>>

Tick ==
    /\ now < MaxTime
    /\ now' = now + 1
    /\ UNCHANGED <<chain, proposal, block>>

Init ==
    /\ chain = <<Genesis>>
    /\ now = 0
    /\ proposal = Genesis
    /\ block = Genesis

\* Whose a seal of something else is does not matter: it recovers to no validator.
PeerSeals == {Seal(v, TRUE) : v \in Signers} \cup {Seal(v, FALSE) : v \in Faulty}

\* Lists of up to num seals, repeated and wrong ones included.
SealLists(num) == UNION {[1 .. k -> PeerSeals] : k \in 0 .. num}

\* A header as any peer may make it.
PeerHeaders(lists) ==
    {HeaderOn(CurrentHeader, time, signer, voteSigned, seals) :
        time \in 0 .. MaxTime, signer \in Signers, voteSigned \in BOOLEAN, seals \in lists}

Next ==
    \/ \E v \in Validators : Propose(Prepare(v))
    \/ \E h \in PeerHeaders({<<>>}) : Propose(h)
    \/ \E Q \in SUBSET Validators, Wrong \in SUBSET Faulty : Commit(Q, Q \ Wrong)
    \/ block # Genesis /\ Insert(block)
    \/ Len(chain) <= MaxHeight /\ \E h \in PeerHeaders(SealLists(MaxSeals)) : Insert(h)
    \/ Tick

Spec == Init /\ [][Next]_vars

-----------------------------------------------------------------------------
(* Properties. *)

Header ==
    [height : 0 .. MaxHeight + 1,
     parent : {<<>>} \cup {Hash(chain[i]) : i \in DOMAIN chain},
     time : 0 .. MaxTime + FaultTolerantTime, signer : Signers \cup {NoValidator},
     voteSigned : BOOLEAN, seals : Seq({Seal(v, own) : v \in Signers, own \in BOOLEAN})]

TypeOK ==
    /\ \A i \in DOMAIN chain : chain[i] \in Header
    /\ now \in 0 .. MaxTime
    /\ proposal \in Header /\ block \in Header

\* The different validators whose seals of this header it carries.
Sealers(h) == {h.seals[i].by : i \in {j \in DOMAIN h.seals : h.seals[j].own}} \cap Validators

\* Whatever headers peers send, each header of the chain is sealed by more than
\* 2f different validators, follows its parent at a block period's distance,
\* was signed by a validator and has no unsigned vote (verifyHeader).
ChainSealed ==
    \A i \in 2 .. Len(chain) :
        /\ Cardinality(Sealers(chain[i])) > 2 * FaultTolerantNum(Size)
        /\ chain[i].time >= chain[i - 1].time + BlockPeriod
        /\ chain[i].signer \in Validators /\ chain[i].voteSigned

\* What the validators accepted as a proposal and a quorum sealed, every node
\* accepts as the next block (Verify, Commit and verifyHeader together); else a
\* decided height cannot be inserted.  There are two exceptions, of which nobody
\* takes notice before the block is decided: a vote without its manager's
\* signature, as Verify never gets to look at it, and a seal of something else,
\* as the core counts a Commit whatever its seal.
CommittedBlockVerifies ==
    (block # Genesis /\ block.parent = Hash(CurrentHeader)) =>
        verifyHeader(now, CurrentHeader, block) =
            CASE ~block.voteSigned -> "errInvalidSignature"
              [] block.voteSigned /\ \E i \in DOMAIN block.seals : ~block.seals[i].own
                   -> "errInvalidCommittedSeals"
              [] OTHER -> "nil"

\* A header that Prepare makes on the current head passes the checks of every
\* validator, unless the head itself is ahead of their clocks (Prepare and
\* Verify together); else an honest proposer's block is rejected.
PreparedVerifies ==
    CurrentHeader.time + BlockPeriod <= now + FaultTolerantTime =>
        \A v \in Validators : Verify(now, CurrentHeader, Prepare(v))

-----------------------------------------------------------------------------
(* What the repository says and the code does not do. *)

\* More seals than f + 1: "validSeal的长度应大于故障节点数+1" (the number of valid
\* seals must exceed the number of faulty nodes plus 1).
MoreSealsThanFaults ==
    \A i \in 2 .. Len(chain) : Len(chain[i].seals) > FaultTolerantNum(Size) + 1

\* Seal waits with time.Unix(Timestamp, 0), seconds, until the header's time.
SealDelay(h) == h.time * 1000 - now

\* A block's time has come for Seal when the clock has reached its timestamp:
\* BlockPeriod is the "区块产生间隔(毫秒)" (block interval in milliseconds).
SealedAtTimestamp == (proposal # Genesis /\ proposal.time <= now) => SealDelay(proposal) <= 0
=============================================================================
