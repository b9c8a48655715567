----------------------------- MODULE HeaderRules -----------------------------
(***************************************************************************)
(* The rules a header must satisfy (verifyHeader, verifyCascadingFields,   *)
(* verifySigner and verifyCommittedSeals in engine.go, Verify in pbft.go). *)
(* A header has a height, the hash of its parent, a timestamp in           *)
(* milliseconds, the signer of the block, the votes it carries and the     *)
(* seals of the validators that committed it.  Its hash leaves the seals   *)
(* out.  Of a vote only matters whether its signature is its manager's; of *)
(* a seal, whose it is and whether it signs this header's hash.            *)
(***************************************************************************)
EXTENDS Validators

CONSTANTS
    BlockPeriod,        \* selfConfig.BlockPeriod, with 0 read as 1
    FaultTolerantTime   \* how far ahead of the clock a header may be

ASSUME TimeAssumption == BlockPeriod \in Nat \ {0} /\ FaultTolerantTime \in Nat

Seal(v, own) == [by |-> v, own |-> own]

Hash(h) == <<h.height, h.time, h.signer, h.voteSigned>>

SealsValid_Repeated(seals) ==
    \A i \in DOMAIN seals : seals[i].own /\ seals[i].by \in Validators

\* Every seal recovers to a validator that has not sealed before: the signer
\* is removed from a copy of the set.  A seal of another hash recovers to no
\* validator; one from which nothing can be recovered (errInvalidSignature) is
\* taken for such a one.
SealsValid(seals) ==
    \A i \in DOMAIN seals :
        /\ seals[i].own
        /\ seals[i].by \in Validators \ {seals[j].by : j \in 1 .. i - 1}

EnoughSeals_OneMore(num) == num > 2 * FaultTolerantNum(Size) + 1

EnoughSeals(num) == num > 2 * FaultTolerantNum(Size)

\* The seals are looked at before the votes' signatures: without seals nothing
\* else is checked.
verifyCommittedSeals(h) ==
    IF h.seals = <<>> THEN "errEmptyCommittedSeals"
    ELSE IF ~h.voteSigned THEN "errInvalidSignature"
    ELSE IF ~SealsValid(h.seals) \/ ~EnoughSeals(Len(h.seals)) THEN "errInvalidCommittedSeals"
    ELSE "nil"

verifySigner(h) == IF h.signer \in Validators THEN "nil" ELSE "ErrUnauthorized"

verifyCascadingFields(parent, h) ==
    IF h.parent # Hash(parent) \/ h.height # parent.height + 1 THEN "ErrUnknownAncestor"
    ELSE IF parent.time + BlockPeriod > h.time THEN "errInvalidTimestamp"
    ELSE IF verifySigner(h) # "nil" THEN verifySigner(h)
    ELSE verifyCommittedSeals(h)

verifyHeader(now, parent, h) ==
    IF h.height = 0 THEN "errBlockIsGenesis"
    ELSE IF h.time > now + FaultTolerantTime THEN "ErrFutureBlock"
    ELSE verifyCascadingFields(parent, h)

\* A proposal has no seals yet.
Verify(now, parent, h) == verifyHeader(now, parent, h) \in {"nil", "errEmptyCommittedSeals"}
=============================================================================
