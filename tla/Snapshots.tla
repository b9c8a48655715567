------------------------------ MODULE Snapshots ------------------------------
(***************************************************************************)
(* The snapshots of one node (pbftEngine.snapshot and Snapshot.Apply).  A  *)
(* snapshot of a block holds its vote count and its validator set.  Calls  *)
(* run in several goroutines (the core, the sealer, API requests) without  *)
(* a lock: each looks for the nearest earlier snapshot in a cache and on   *)
(* disk and applies the headers in between.  Cached snapshots are shared   *)
(* objects, and so are the validator sets they point to.  The chain is a   *)
(* sequence of headers; a hash is a height.                                *)
(***************************************************************************)
EXTENDS VoteTally

Sets == INSTANCE FiniteSetsExt

CONSTANTS
    Callers,            \* goroutines that ask for snapshots
    GenesisManagers, GenesisValidators,
    HeaderData,         \* consensus data of headers: records of mVote and vVote
    Epoch,              \* selfConfig.Epoch, with 0 read as 1: votes are
                        \* forgotten at its multiples
    CheckpointInterval, \* snapshots at its multiples go to disk
    CacheSize,          \* memorySnapshotsLen
    DiskMayFail,        \* database reads and writes can fail
    NilSet,             \* a nil ValidatorSet
    NoCall,             \* a caller outside snapshot
    MaxHeight           \* bound: length of the chain

ASSUME SnapshotsAssumption ==
    /\ IsFiniteSet(Callers)
    /\ Epoch \in Nat \ {0} /\ CheckpointInterval \in Nat \ {0} /\ CacheSize \in Nat \ {0}
    /\ DiskMayFail \in BOOLEAN
    /\ NoCall \notin [height : Nat, from : Nat, base : Nat]
    /\ NilSet \notin Nat
    /\ MaxHeight \in Nat

VARIABLES
    chain,      \* the headers after genesis, by height
    heap,       \* the snapshot objects in use, by address
    cache,      \* recentSnapshotCache: height to address
    disk,       \* height to stored snapshot
    call,       \* what each caller has found: target height, height and address
                \* of the snapshot that the headers go on
    crashed     \* the process has panicked

vars == <<chain, heap, cache, disk, call, crashed>>

Genesis == 0

\* One address more than the cache, the callers and the owners of their
\* validator sets can hold.
Addresses == 1 .. (2 * (CacheSize + Cardinality(Callers)) + 1)

\* valSet points to a validator set, by the address of the snapshot whose vote
\* count holds that set.
SnapshotObject(height, hash, vs, valSet, log) ==
    [height |-> height, hash |-> hash, vs |-> vs, valSet |-> valSet, log |-> log]

\* newSnapshot, allocated at a: ValSet and the vote count's set are one object.
newSnapshot(a) ==
    SnapshotObject(Genesis, Genesis, newVoteSnapshot(GenesisManagers, GenesisValidators), a, TRUE)

\* toJSONStruct: the JSON form has no validator set of its own and no logger.
toJSONStruct(s) == [height |-> s.height, hash |-> s.hash, vs |-> s.vs]

loadSnapshot(stored) ==
    SnapshotObject(stored.height, stored.hash, reload(stored.vs), NilSet, FALSE)

-----------------------------------------------------------------------------
(* Apply. *)

\* Votes of the headers from + 1 .. to on vs, in order.
VotesApplied(vs, from, to) ==
    LET after[h \in from .. to] ==
            IF h = from THEN [vs |-> vs, panic |-> FALSE]
            ELSE IF after[h - 1].panic \/ panics(after[h - 1].vs, chain[h])
                 THEN [after[h - 1] EXCEPT !.panic = TRUE]
                 ELSE [vs |-> applyHeader(after[h - 1].vs, chain[h]), panic |-> FALSE]
    IN after[to]

EpochEnds(from, to) == \E h \in from + 1 .. to : h % Epoch = 0

Successor_NextHeight(s, from, to) ==
    [s EXCEPT !.height = @ + 1,
              !.hash = to,
              !.vs = IF EpochEnds(from, to) THEN reset(copy(@)) ELSE copy(@)]

\* The new snapshot of the headers from + 1 .. to: a copy of the base, reset if
\* an epoch ends on the way, that points to the base's validator set.
Successor(s, from, to) ==
    [s EXCEPT !.height = @ + (to - from),
              !.hash = to,
              !.vs = IF EpochEnds(from, to) THEN reset(copy(@)) ELSE copy(@)]

-----------------------------------------------------------------------------
(* snapshot. *)

Held(cached, calls) ==
    {cached[h] : h \in DOMAIN cached} \cup {calls[c].base : c \in {d \in Callers : calls[d] # NoCall}}

\* What is held, and what the snapshots held point to.
Live(objects, cached, calls) ==
    LET held == Held(cached, calls)
    IN held \cup ({objects[a].valSet : a \in held} \ {NilSet})

\* Objects without a reference are gone.
Collect(objects, cached, calls) == [a \in Live(objects, cached, calls) |-> objects[a]]

FreshAddress == Sets!Min(Addresses \ DOMAIN heap)

\* The walk back from a height: the nearest height with a cached snapshot, a
\* readable checkpoint, or genesis.
BaseHeight(h, readable) ==
    Sets!Max({g \in Genesis .. h : \/ g \in DOMAIN cache
                                   \/ g % CheckpointInterval = 0 /\ g \in readable
                                   \/ g = Genesis})

Found(c, h, g, base, objects) ==
    /\ call' = [call EXCEPT ![c] = [height |-> h, from |-> g, base |-> base]]
    /\ heap' = objects
    /\ UNCHANGED <<chain, cache, crashed>>

\* The base is a shared object of the cache, or a new one made from the disk's
\* copy or from the configuration; a new genesis snapshot is stored, and when
\* that fails the call ends with the error.
Lookup(c, h) ==
    /\ ~crashed
    /\ call[c] = NoCall
    /\ \E readable \in {DOMAIN disk} \cup (IF DiskMayFail THEN {{}} ELSE {}) :
         LET g == BaseHeight(h, readable)
             loaded == g % CheckpointInterval = 0 /\ g \in readable
             object == IF loaded THEN loadSnapshot(disk[g]) ELSE newSnapshot(FreshAddress)
         IN \/ /\ g \in DOMAIN cache
               /\ Found(c, h, g, cache[g], heap)
               /\ UNCHANGED disk
            \/ /\ g \notin DOMAIN cache
               /\ Found(c, h, g, FreshAddress,
                        [a \in DOMAIN heap \cup {FreshAddress} |->
                             IF a = FreshAddress THEN object ELSE heap[a]])
               /\ disk' = IF loaded THEN disk
                          ELSE [k \in DOMAIN disk \cup {g} |->
                                    IF k = g THEN toJSONStruct(object) ELSE disk[k]]

\* recentSnapshotCache.Add; a full cache drops an entry of its choice.
Added(cached, h, a) == [g \in DOMAIN cached \cup {h} |-> IF g = h THEN a ELSE cached[g]]

CacheAfter_NoLimit(h, a) == {Added(cache, h, a)}

CacheAfter(h, a) ==
    LET full == Added(cache, h, a)
    IN IF Cardinality(DOMAIN full) <= CacheSize THEN {full}
       ELSE {[g \in DOMAIN full \ {victim} |-> full[g]] : victim \in DOMAIN full \ {h}}

\* No header in between: Apply returns the base, which goes to the cache.
FinishFound(c) ==
    LET s == heap[call[c].base]
    IN /\ ~crashed
       /\ call[c] # NoCall
       /\ call[c].height = call[c].from
       /\ call' = [call EXCEPT ![c] = NoCall]
       /\ cache' \in CacheAfter(s.hash, call[c].base)
       /\ heap' = Collect(heap, cache', call')
       /\ UNCHANGED <<chain, disk, crashed>>

Panic ==
    /\ crashed' = TRUE
    /\ UNCHANGED <<chain, heap, cache, disk, call>>

\* Apply works on the base as it is now; another caller may have voted on it
\* since the lookup.  The base receives the votes, not the new snapshot, and
\* with them whoever points to the base's validator set.  Headers that do not
\* follow the base would be refused; KeptAtOwnHeight says that none are.  A
\* checkpoint is stored, which needs the logger.
FinishApplied(c) ==
    LET s == heap[call[c].base]
        from == call[c].from
        h == call[c].height
        new == Successor(s, from, h)
        votes == VotesApplied(s.vs, from, h)
        checkpoint == new.height % CheckpointInterval = 0
        panic == votes.panic \/ (checkpoint /\ ~s.log)
    IN /\ ~crashed
       /\ call[c] # NoCall
       /\ h > from
       /\ from = s.height
       /\ \/ panic /\ Panic
          \/ /\ ~panic
             /\ call' = [call EXCEPT ![c] = NoCall]
             /\ cache' \in CacheAfter(new.hash, FreshAddress)
             /\ heap' = Collect([a \in DOMAIN heap \cup {FreshAddress} |->
                                     CASE a = FreshAddress -> new
                                       [] a = call[c].base -> [s EXCEPT !.vs = votes.vs]
                                       [] OTHER -> heap[a]], cache', call')
             /\ disk' \in {IF checkpoint
                           THEN [k \in DOMAIN disk \cup {new.hash} |->
                                     IF k = new.hash THEN toJSONStruct(new) ELSE disk[k]]
                           ELSE disk} \cup (IF DiskMayFail THEN {disk} ELSE {})
             /\ UNCHANGED <<chain, crashed>>

-----------------------------------------------------------------------------

\* external: a block is inserted; its header carries at most one vote a side.
Insert(data) ==
    /\ ~crashed
    /\ Len(chain) < MaxHeight
    /\ chain' = Append(chain, data)
    /\ UNCHANGED <<heap, cache, disk, call, crashed>>

\* The process starts again, after a panic or not: only disk and chain stay.
Restart ==
    /\ heap' = <<>> /\ cache' = <<>>
    /\ call' = [c \in Callers |-> NoCall]
    /\ crashed' = FALSE
    /\ UNCHANGED <<chain, disk>>

Init ==
    /\ chain = <<>>
    /\ heap = <<>> /\ cache = <<>> /\ disk = <<>>
    /\ call = [c \in Callers |-> NoCall]
    /\ crashed = FALSE

Next ==
    \/ \E c \in Callers, h \in Genesis .. Len(chain) : Lookup(c, h)
    \/ \E c \in Callers : FinishFound(c) \/ FinishApplied(c)
    \/ \E data \in HeaderData : Insert(data)
    \/ Restart

Spec == Init /\ [][Next]_vars

-----------------------------------------------------------------------------
(* Properties. *)

TypeOK ==
    /\ chain \in Seq(HeaderData) /\ Len(chain) <= MaxHeight
    /\ DOMAIN heap \subseteq Addresses
    /\ DOMAIN cache \subseteq Genesis .. Len(chain) /\ Cardinality(DOMAIN cache) <= CacheSize
    /\ \A c \in Callers : call[c] # NoCall =>
          call[c].height \in Genesis .. Len(chain) /\ call[c].base \in DOMAIN heap
    /\ crashed \in BOOLEAN

\* A snapshot is found under the hash of the block whose height it has, in the
\* cache and on disk, whatever it was built from, and a shared snapshot that a
\* caller has found still has the height it was found at when the headers come
\* to be applied: no header is applied twice or skipped, and Apply never fails
\* with errInvalidVotingChain.
KeptAtOwnHeight ==
    /\ \A h \in DOMAIN cache : heap[cache[h]].height = h
    /\ \A h \in DOMAIN disk : disk[h].height = h
    /\ \A c \in Callers : call[c] # NoCall =>
          /\ heap[call[c].base].height = call[c].from
          /\ call[c].from <= call[c].height

\* The validator set that verification, sealing and the core read from a
\* snapshot (snap.ValSet) does not change under them.  newSnapshot shares it with
\* the genesis vote count, Snapshot.copy shares it with every later snapshot,
\* and Apply votes on the shared count: one vote that passed on it would change
\* the set of every snapshot at once.
ValSetNeverChanges ==
    \A a \in DOMAIN heap : heap[a].valSet # NilSet =>
        heap[heap[a].valSet].vs.v.members = GenesisValidators

-----------------------------------------------------------------------------
(* What the repository says and the code does not do. *)

\* What the votes of headers 1 .. h make of the genesis count.
Counted(h) ==
    LET after[k \in Genesis .. h] ==
            IF k = Genesis THEN copy(newVoteSnapshot(GenesisManagers, GenesisValidators))
            ELSE applyHeader(IF k % Epoch = 0 THEN reset(after[k - 1]) ELSE after[k - 1],
                             chain[k])
    IN after[h]

\* A snapshot reflects the votes of the headers up to its block: "Apply 通过给定
\* 的headers创建新快照" (Apply creates a new snapshot from the given headers).
VotesTakeEffect ==
    \A h \in DOMAIN cache :
        /\ heap[cache[h]].vs.m.members = Counted(h).m.members
        /\ heap[cache[h]].vs.v.members = Counted(h).v.members

\* Every snapshot has its validator set: "快照对应的验证者集合" (the validators the
\* snapshot stands for), which its readers use without a check.
ValSetPresent == \A a \in DOMAIN heap : heap[a].valSet # NilSet

\* Applying a header's vote does not panic: castM has a branch for the first
\* vote about a candidate, "创建新的投票" (create the new vote).
FirstVoteCounted == ~crashed
=============================================================================
