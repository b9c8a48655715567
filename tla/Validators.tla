---------------------------- MODULE Validators ----------------------------
(***************************************************************************)
(* The validator set of one height (validator/validator_set.go and         *)
(* validator/selector.go): how many votes a decision needs, and which      *)
(* validator proposes in a round.  The set is a sorted list; it does not   *)
(* change while one height is being decided, so it is a constant here.     *)
(***************************************************************************)
EXTENDS Integers, Sequences, FiniteSets

CONSTANTS
    ValList,      \* the validators' ids in the order sort.Sort leaves them
    Policy,       \* selfConfig.ProposerPolicy: "RoundRobin" or "Sticky"
    NoValidator   \* the empty id "", proposer of the genesis block

Validators == {ValList[i] : i \in DOMAIN ValList}

\* valSet.Size()
Size == Len(ValList)

ASSUME ValListAssumption ==
    /\ ValList \in Seq(Validators)
    /\ Size > 0
    /\ \A i, j \in DOMAIN ValList : ValList[i] = ValList[j] => i = j
    /\ NoValidator \notin Validators

ASSUME PolicyAssumption == Policy \in {"RoundRobin", "Sticky"}

\* math.Ceil(n / 3) - 1
FaultTolerantNum(n) == ((n + 2) \div 3) - 1

reachThreshold_NoSpecialCase(n, num) == num > 2 * FaultTolerantNum(n)

\* With no fault to tolerate every validator must vote, and exactly the whole
\* set counts; otherwise more than 2f votes are enough.
reachThreshold(n, num) ==
    LET f == FaultTolerantNum(n)
    IN IF f = 0 THEN num = n ELSE num > 2 * f

\* A set of validators whose votes decide.
IsQuorum(Q) == reachThreshold(Size, Cardinality(Q))

-----------------------------------------------------------------------------
(* Proposer selection. *)

\* Position of an id in the list, from 0; an unknown id counts as the first.
calcSeed(proposer, round) ==
    LET offset == IF proposer \in Validators
                  THEN (CHOOSE i \in DOMAIN ValList : ValList[i] = proposer) - 1
                  ELSE 0
    IN offset + round

GetByIndex(i) == ValList[i + 1]

\* The validator after the last proposer, moved on by the round.
roundRobinProposer(proposer, round) ==
    LET seed == IF proposer = NoValidator THEN round
                                          ELSE calcSeed(proposer, round) + 1
    IN GetByIndex(seed % Size)

\* The last proposer itself, moved on by the round.
stickyProposer(proposer, round) ==
    LET seed == IF proposer = NoValidator THEN round
                                          ELSE calcSeed(proposer, round)
    IN GetByIndex(seed % Size)

CalcProposer(lastProposer, round) ==
    IF Policy = "Sticky" THEN stickyProposer(lastProposer, round)
                         ELSE roundRobinProposer(lastProposer, round)
=============================================================================
