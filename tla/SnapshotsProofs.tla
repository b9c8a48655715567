--------------------------- MODULE SnapshotsProofs ---------------------------
(***************************************************************************)
(* The snapshots of a node, for any number of callers, any cache size,     *)
(* epoch and checkpoint interval, a database that fails at any time and    *)
(* restarts: every snapshot is kept under its own block, and no vote ever  *)
(* reaches the validator set that snapshots share with the genesis count.  *)
(***************************************************************************)
EXTENDS Snapshots, FiniteSetTheorems, WellFoundedInduction, TLAPS

-----------------------------------------------------------------------------
(* The addresses and heights that are chosen. *)

LEMMA LeastNatural ==
    ASSUME NEW T \in SUBSET Nat, T # {}
    PROVE  \E x \in T : \A y \in T : x <= y
<1>1. PICK x \in T : \A y \in T : ~(<<y, x>> \in OpToRel(<, Nat))
  BY NatLessThanWellFounded, WFMin
<1>2. \A y \in T : ~(y < x)
  BY <1>1 DEF OpToRel
<1> QED
  BY <1>2

LEMMA GreatestNatural ==
    ASSUME NEW n \in Nat, NEW T \in SUBSET (0 .. n), T # {}
    PROVE  \E x \in T : \A y \in T : x >= y
<1> DEFINE U == {n - t : t \in T}
<1>1. U \in SUBSET Nat /\ U # {}
  <2>1. PICK t \in T : TRUE
    OBVIOUS
  <2>2. n - t \in U
    OBVIOUS
  <2>3. U \in SUBSET Nat
    OBVIOUS
  <2> QED
    BY <2>2, <2>3
<1>2. PICK u \in U : \A w \in U : u <= w
  BY <1>1, LeastNatural
<1>3. PICK x \in T : u = n - x
  OBVIOUS
<1>4. \A y \in T : n - x <= n - y
  BY <1>2, <1>3
<1> QED
  BY <1>4

\* The walk back ends at a height that does not exceed its start.
LEMMA BaseHeightFacts ==
    ASSUME NEW h \in Nat, NEW readable
    PROVE  /\ BaseHeight(h, readable) \in 0 .. h
           /\ \/ BaseHeight(h, readable) \in DOMAIN cache
              \/ /\ BaseHeight(h, readable) % CheckpointInterval = 0
                 /\ BaseHeight(h, readable) \in readable
              \/ BaseHeight(h, readable) = Genesis
<1> DEFINE T == {g \in Genesis .. h : \/ g \in DOMAIN cache
                                      \/ g % CheckpointInterval = 0 /\ g \in readable
                                      \/ g = Genesis}
<1>1. T \in SUBSET (0 .. h) /\ 0 \in T
  BY DEF Genesis
<1>2. \E x \in T : \A y \in T : x >= y
  BY <1>1, GreatestNatural
<1>3. BaseHeight(h, readable) = CHOOSE x \in T : \A y \in T : x >= y
  BY DEF BaseHeight, Sets!Max
<1>4. BaseHeight(h, readable) \in T
  BY <1>2, <1>3
<1> QED
  BY <1>1, <1>4

-----------------------------------------------------------------------------
(* Votes on the genesis count. *)

Blank == newVoteSnapshot(GenesisManagers, GenesisValidators)

\* A vote about a member of the genesis count is void, and any other one is a
\* write to a nil tally.
LEMMA BlankKept ==
    ASSUME NEW data, ~panics(Blank, data)
    PROVE  applyHeader(Blank, data) = Blank
<1> DEFINE Empty(members) == [members |-> members, votes |-> <<>>, tally |-> NilMap]
<1>1. Blank = [m |-> Empty(GenesisManagers), v |-> Empty(GenesisValidators)]
  BY DEF Blank, newVoteSnapshot
<1>2. ASSUME NEW members, NEW v
      PROVE  earlier(Empty(members), v) = 0
  BY DEF earlier, Seqs!SelectInSeq
<1>3. ASSUME NEW members, NEW v
      PROVE  retract(Empty(members), v) = Empty(members)
  BY <1>2 DEF retract
<1>4. ASSUME NEW members, NEW v, ~writesNil(Empty(members), v)
      PROVE  add(Empty(members), v) = Empty(members)
  BY <1>4 DEF writesNil, add
<1>5. ASSUME NEW members, NEW c
      PROVE  settle(Empty(members), c) = Empty(members)
  BY DEF settle, passes, Entries, EmptyMap
<1>6. applyMVotes(Blank, data.mVote) = Blank
  <2>1. CASE data.mVote = NoVote
    BY <2>1 DEF applyMVotes
  <2>2. CASE data.mVote # NoVote
    <3>1. Blank.m = Empty(GenesisManagers)
      BY <1>1
    <3>2. ~writesNil(Blank.m, data.mVote)
      BY <2>2 DEF panics, mPanics
    <3> HIDE DEF Empty
    <3>3. settle(add(retract(Blank.m, data.mVote), data.mVote), data.mVote.candidate) = Blank.m
      BY <1>3, <1>4, <1>5, <3>1, <3>2
    <3>4. applyMVotes(Blank, data.mVote) = [Blank EXCEPT !.m = Blank.m]
      BY <1>2, <2>2, <3>1, <3>3 DEF applyMVotes
    <3> QED
      BY <1>1, <3>4
  <2> QED
    BY <2>1, <2>2
<1>7. applyVVotes(Blank, data.vVote) = Blank
  <2>1. CASE data.vVote = NoVote
    BY <2>1 DEF applyVVotes
  <2>2. CASE data.vVote # NoVote
    <3>1. Blank.v = Empty(GenesisValidators)
      BY <1>1
    <3>2. ~writesNil(Blank.v, data.vVote)
      BY <1>6, <2>2 DEF panics, vPanics
    <3>0. Blank.m = Empty(GenesisManagers)
      BY <1>1
    <3> DEFINE E == Empty(GenesisManagers)
    <3>5. [E EXCEPT !.votes = E.votes] = E
      OBVIOUS
    <3> HIDE DEF Empty
    <3>3. settle(add(retract(Blank.v, data.vVote), data.vVote), data.vVote.candidate) = Blank.v
      BY <1>3, <1>4, <1>5, <3>1, <3>2
    <3>4. applyVVotes(Blank, data.vVote) = [Blank EXCEPT !.m.votes = Blank.m.votes, !.v = Blank.v]
      BY <1>2, <2>2, <3>1, <3>3 DEF applyVVotes
    <3> QED
      BY <1>1, <3>0, <3>4, <3>5
  <2> QED
    BY <2>1, <2>2
<1> QED
  BY <1>6, <1>7 DEF applyHeader

\* One header of VotesApplied, and all of them up to a height.
HeaderStep(f, vs, from, h) ==
    IF h = from THEN [vs |-> vs, panic |-> FALSE]
    ELSE IF f[h - 1].panic \/ panics(f[h - 1].vs, chain[h])
         THEN [f[h - 1] EXCEPT !.panic = TRUE]
         ELSE [vs |-> applyHeader(f[h - 1].vs, chain[h]), panic |-> FALSE]

IsRun(f, vs, from, to) == f = [h \in from .. to |-> HeaderStep(f, vs, from, h)]

LEMMA RunExists ==
    ASSUME NEW vs, NEW from \in Nat, NEW to \in Nat, from <= to
    PROVE  \E f : IsRun(f, vs, from, to)
<1> DEFINE T == {n \in from .. to : ~\E f : IsRun(f, vs, from, n)}
<1> SUFFICES ASSUME T # {} PROVE FALSE
  OBVIOUS
<1>0. T \in SUBSET Nat
  OBVIOUS
<1>1. PICK n \in T : \A k \in T : n <= k
  <2> HIDE DEF T
  <2> QED
    BY <1>0, LeastNatural
<1>2. n # from
  <2> DEFINE g == [h \in from .. from |-> [vs |-> vs, panic |-> FALSE]]
  <2>1. IsRun(g, vs, from, from)
    BY DEF IsRun, HeaderStep
  <2> QED
    BY <2>1
<1>3. n - 1 \in from .. to /\ n - 1 \notin T
  BY <1>1, <1>2
<1>4. PICK f : IsRun(f, vs, from, n - 1)
  BY <1>3
<1> DEFINE g == [h \in from .. n |-> IF h = n THEN HeaderStep(f, vs, from, n) ELSE f[h]]
<1>5. ASSUME NEW h \in from .. n PROVE g[h] = HeaderStep(g, vs, from, h)
  <2>1. CASE h = from
    <3>1. g[h] = f[h] /\ f[h] = HeaderStep(f, vs, from, h)
      BY <1>2, <1>3, <1>4, <2>1 DEF IsRun
    <3> QED
      BY <2>1, <3>1 DEF HeaderStep
  <2>2. CASE h # from
    <3>1. h - 1 \in from .. n - 1 /\ h - 1 # n
      BY <2>2
    <3>2. g[h - 1] = f[h - 1]
      BY <3>1
    <3>3. g[h] = HeaderStep(f, vs, from, h)
      <4>1. CASE h = n
        BY <4>1
      <4>2. CASE h # n
        BY <1>4, <4>2 DEF IsRun
      <4> QED
        BY <4>1, <4>2
    <3> HIDE DEF g
    <3> QED
      BY <2>2, <3>2, <3>3 DEF HeaderStep
  <2> QED
    BY <2>1, <2>2
<1>6. IsRun(g, vs, from, n)
  <2>1. g = [h \in from .. n |-> g[h]]
    OBVIOUS
  <2> HIDE DEF g
  <2> QED
    BY <1>5, <2>1 DEF IsRun
<1> QED
  BY <1>6

LEMMA VotesAppliedRun ==
    ASSUME NEW vs, NEW from \in Nat, NEW to \in Nat, from <= to
    PROVE  \E f : IsRun(f, vs, from, to) /\ VotesApplied(vs, from, to) = f[to]
<1> DEFINE P(f) == f = [h \in from .. to |->
                          IF h = from THEN [vs |-> vs, panic |-> FALSE]
                          ELSE IF f[h - 1].panic \/ panics(f[h - 1].vs, chain[h])
                               THEN [f[h - 1] EXCEPT !.panic = TRUE]
                               ELSE [vs |-> applyHeader(f[h - 1].vs, chain[h]), panic |-> FALSE]]
<1>1. VotesApplied(vs, from, to) = (CHOOSE f : P(f))[to]
  BY DEF VotesApplied
<1>2. \A f : IsRun(f, vs, from, to) <=> P(f)
  BY DEF IsRun, HeaderStep
<1>3. \E f : P(f)
  BY <1>2, RunExists
<1> HIDE DEF P
<1>4. P(CHOOSE f : P(f))
  BY <1>3
<1> QED
  BY <1>1, <1>2, <1>4

\* No header's vote changes the genesis count without a panic.
LEMMA BlankVotes ==
    ASSUME NEW from \in Nat, NEW to \in Nat, from <= to,
           ~VotesApplied(Blank, from, to).panic
    PROVE  VotesApplied(Blank, from, to).vs = Blank
<1>1. PICK f : IsRun(f, Blank, from, to) /\ VotesApplied(Blank, from, to) = f[to]
  BY VotesAppliedRun
<1> DEFINE Stopped(n) == f[n] = [vs |-> f[n].vs, panic |-> TRUE]
           Unchanged(n) == f[n] = [vs |-> Blank, panic |-> FALSE]
           T == {n \in from .. to : ~(Stopped(n) \/ Unchanged(n))}
<1>2. \A h \in from .. to : f[h] = HeaderStep(f, Blank, from, h)
  BY <1>1 DEF IsRun
<1>3. T = {}
  <2> SUFFICES ASSUME T # {} PROVE FALSE
    OBVIOUS
  <2>0. T \in SUBSET Nat
    OBVIOUS
  <2>1. PICK n \in T : \A k \in T : n <= k
    <3> HIDE DEF T
    <3> QED
      BY <2>0, LeastNatural
  <2>2. n # from
    BY <1>2 DEF HeaderStep
  <2>3. n - 1 \in from .. to /\ n - 1 \notin T
    <3>1. n \in Nat /\ n \in from .. to /\ n - 1 \in from .. to /\ ~(n <= n - 1)
      BY <2>2
    <3> HIDE DEF T
    <3> QED
      BY <2>1, <3>1
  <2>4. Stopped(n - 1) \/ Unchanged(n - 1)
    BY <2>3
  <2>5. f[n] = IF f[n - 1].panic \/ panics(f[n - 1].vs, chain[n])
               THEN [f[n - 1] EXCEPT !.panic = TRUE]
               ELSE [vs |-> applyHeader(f[n - 1].vs, chain[n]), panic |-> FALSE]
    BY <1>2, <2>2 DEF HeaderStep
  <2>6. CASE Unchanged(n - 1) /\ ~panics(Blank, chain[n])
    <3>1. applyHeader(Blank, chain[n]) = Blank
      BY <2>6, BlankKept
    <3>2. f[n - 1].panic = FALSE /\ f[n - 1].vs = Blank
      BY <2>6
    <3> QED
      BY <2>5, <2>6, <3>1, <3>2
  <2>7. CASE Unchanged(n - 1) /\ panics(Blank, chain[n])
    <3>1. f[n - 1].vs = Blank
      BY <2>7
    <3>2. f[n] = [f[n - 1] EXCEPT !.panic = TRUE]
      BY <2>5, <2>7, <3>1
    <3>3. f[n] = [vs |-> Blank, panic |-> TRUE]
      <4> DEFINE x == f[n - 1]
      <4>1. x = [vs |-> Blank, panic |-> FALSE] /\ f[n] = [x EXCEPT !.panic = TRUE]
        BY <2>7, <3>2
      <4> HIDE DEF x
      <4> QED
        BY <4>1
    <3>4. f[n].vs = Blank
      BY <3>3
    <3> QED
      BY <3>3, <3>4
  <2>8. CASE Stopped(n - 1)
    <3>1. f[n - 1].panic = TRUE
      BY <2>8
    <3>2. f[n] = [f[n - 1] EXCEPT !.panic = TRUE]
      BY <2>5, <3>1
    <3>3. f[n] = [vs |-> f[n - 1].vs, panic |-> TRUE]
      <4> DEFINE x == f[n - 1]
      <4>1. x = [vs |-> x.vs, panic |-> TRUE] /\ f[n] = [x EXCEPT !.panic = TRUE]
        BY <2>8, <3>2
      <4> HIDE DEF x
      <4>2. f[n] = [vs |-> x.vs, panic |-> TRUE]
        BY <4>1
      <4> QED
        BY <4>2 DEF x
    <3>4. f[n].vs = f[n - 1].vs
      BY <3>3
    <3> QED
      BY <3>3, <3>4
  <2> QED
    BY <2>4, <2>6, <2>7, <2>8
<1>4. Stopped(to) \/ Unchanged(to)
  <2>1. to \in from .. to
    OBVIOUS
  <2> QED
    BY <1>3, <2>1
<1>5. CASE Stopped(to)
  <2>1. f[to].panic = TRUE
    BY <1>5
  <2> QED
    BY <1>1, <2>1
<1>6. CASE Unchanged(to)
  BY <1>1, <1>6
<1> QED
  BY <1>4, <1>5, <1>6

-----------------------------------------------------------------------------
(* The invariant. *)

\* A snapshot object, of whatever vote count.
IsObject(s) ==
    /\ s = SnapshotObject(s.height, s.hash, s.vs, s.valSet, s.log)
    /\ s.height \in Nat
    /\ s.hash = s.height

Busy == {c \in Callers : call[c] # NoCall}

\* The snapshots that others take their validator set from have a genesis count
\* on which no vote has passed.
SetsShared(objects) ==
    \A a \in DOMAIN objects : objects[a].valSet # NilSet =>
        LET owner == objects[a].valSet
        IN /\ owner \in DOMAIN objects
           /\ objects[owner].valSet = owner
           /\ objects[owner].vs = Blank

HeapInv ==
    /\ DOMAIN heap \subseteq Addresses
    /\ DOMAIN heap \subseteq Live(heap, cache, call)
    /\ \A a \in DOMAIN heap : IsObject(heap[a])
    /\ SetsShared(heap)

CacheInv ==
    /\ DOMAIN cache \subseteq 0 .. Len(chain)
    /\ Cardinality(DOMAIN cache) <= CacheSize
    /\ \A h \in DOMAIN cache : cache[h] \in DOMAIN heap /\ heap[cache[h]].height = h

DiskInv ==
    \A h \in DOMAIN disk : disk[h].height = h /\ disk[h].hash = h /\ h \in 0 .. Len(chain)

CallInv ==
    /\ call = [c \in Callers |-> call[c]]
    /\ \A c \in Busy :
          /\ call[c].height \in 0 .. Len(chain) /\ call[c].base \in DOMAIN heap
          /\ heap[call[c].base].height = call[c].from
          /\ call[c].from <= call[c].height

ChainTyped == chain \in Seq(HeaderData) /\ Len(chain) <= MaxHeight /\ crashed \in BOOLEAN

SnapshotsInv == ChainTyped /\ HeapInv /\ CacheInv /\ DiskInv /\ CallInv

LEMMA CacheFinite ==
    ASSUME ChainTyped, CacheInv
    PROVE  IsFiniteSet(DOMAIN cache) /\ Cardinality(DOMAIN cache) \in Nat
<1>1. Len(chain) \in Nat
  BY DEF ChainTyped
<1>2. IsFiniteSet(0 .. Len(chain))
  BY <1>1, FS_Interval
<1>3. IsFiniteSet(DOMAIN cache)
  BY <1>2, FS_Subset DEF CacheInv
<1> QED
  BY <1>3, FS_CardinalityType

\* There is always an address to spare: the objects in use are those that the
\* cache and the callers refer to.
LEMMA FreshExists ==
    ASSUME SnapshotsInv
    PROVE  FreshAddress \in Addresses \ DOMAIN heap
<1> DEFINE cached == {cache[h] : h \in DOMAIN cache}
           bases == {call[c].base : c \in Busy}
           held == cached \cup bases
           owners == {heap[a].valSet : a \in held}
           sum == CacheSize + Cardinality(Callers)
           num == 2 * sum + 1
<1>0. ChainTyped /\ HeapInv /\ CacheInv /\ CallInv
  BY DEF SnapshotsInv
<1>1. IsFiniteSet(Callers) /\ Cardinality(Callers) \in Nat /\ CacheSize \in Nat
  BY SnapshotsAssumption, FS_CardinalityType
<1>2. IsFiniteSet(DOMAIN cache) /\ Cardinality(DOMAIN cache) <= CacheSize
      /\ Cardinality(DOMAIN cache) \in Nat
  BY <1>0, CacheFinite DEF CacheInv
<1>3. IsFiniteSet(cached) /\ Cardinality(cached) <= Cardinality(DOMAIN cache)
  <2> DEFINE g == [h \in DOMAIN cache |-> cache[h]]
  <2>1. g \in Surjection(DOMAIN cache, cached)
    BY DEF Surjection
  <2> HIDE DEF g, cached
  <2> QED
    BY <1>2, <2>1, FS_Surjection
<1>4. IsFiniteSet(bases) /\ Cardinality(bases) <= Cardinality(Callers)
  <2>1. IsFiniteSet(Busy) /\ Cardinality(Busy) <= Cardinality(Callers)
    BY <1>1, FS_Subset DEF Busy
  <2> DEFINE g == [c \in Busy |-> call[c].base]
  <2>2. g \in Surjection(Busy, bases)
    BY DEF Surjection
  <2> HIDE DEF g, bases
  <2>3. IsFiniteSet(bases) /\ Cardinality(bases) <= Cardinality(Busy)
    BY <2>1, <2>2, FS_Surjection
  <2>4. Cardinality(bases) \in Nat /\ Cardinality(Busy) \in Nat
    BY <2>1, <2>3, FS_CardinalityType
  <2> QED
    BY <1>1, <2>1, <2>3, <2>4
<1>5. Live(heap, cache, call) \subseteq held \cup owners
  BY DEF Live, Held, Busy
<1> HIDE DEF cached, bases
<1>6. /\ Cardinality(cached) \in Nat /\ Cardinality(bases) \in Nat
      /\ IsFiniteSet(cached \cap bases) /\ Cardinality(cached \cap bases) \in Nat
  BY <1>3, <1>4, FS_Intersection, FS_CardinalityType
<1>7. /\ IsFiniteSet(held)
      /\ Cardinality(held) =
           Cardinality(cached) + Cardinality(bases) - Cardinality(cached \cap bases)
  BY <1>3, <1>4, FS_Union
<1> HIDE DEF held
<1>8. Cardinality(held) \in Nat /\ Cardinality(held) <= sum
  <2>1. Cardinality(held) \in Nat
    BY <1>7, FS_CardinalityType
  <2> QED
    BY <1>1, <1>2, <1>3, <1>4, <1>6, <1>7, <2>1
<1>9. IsFiniteSet(owners) /\ Cardinality(owners) \in Nat /\ Cardinality(owners) <= sum
  <2> DEFINE g == [a \in held |-> heap[a].valSet]
  <2>1. g \in Surjection(held, owners)
    BY DEF Surjection
  <2> HIDE DEF g, owners
  <2>2. IsFiniteSet(owners) /\ Cardinality(owners) <= Cardinality(held)
    BY <1>7, <2>1, FS_Surjection
  <2>3. Cardinality(owners) \in Nat
    BY <2>2, FS_CardinalityType
  <2> HIDE DEF sum
  <2>4. sum \in Nat
    BY <1>1 DEF sum
  <2> QED
    BY <1>8, <2>2, <2>3, <2>4
<1> HIDE DEF owners
<1>10. /\ IsFiniteSet(held \cup owners) /\ Cardinality(held \cup owners) \in Nat
       /\ Cardinality(held \cup owners) < num
  <2>1. /\ IsFiniteSet(held \cup owners)
        /\ Cardinality(held \cup owners) =
             Cardinality(held) + Cardinality(owners) - Cardinality(held \cap owners)
    BY <1>7, <1>9, FS_Union
  <2>2. Cardinality(held \cap owners) \in Nat /\ Cardinality(held \cup owners) \in Nat
    BY <1>7, <1>9, <2>1, FS_Intersection, FS_CardinalityType
  <2>3. sum \in Nat
    BY <1>1
  <2> HIDE DEF sum
  <2> QED
    BY <1>8, <1>9, <2>1, <2>2, <2>3
<1>13. Cardinality(Addresses) = num /\ num \in Nat /\ Addresses \in SUBSET Nat
  <2>1. num \in Nat /\ num > 0
    BY <1>1
  <2>2. Addresses = 1 .. num
    BY DEF Addresses
  <2> HIDE DEF num
  <2>3. Cardinality(1 .. num) = num
    BY <2>1, FS_Interval
  <2> QED
    BY <2>1, <2>2, <2>3
<1> HIDE DEF num
<1>14. Addresses \ DOMAIN heap # {}
  <2> SUFFICES ASSUME Addresses \subseteq DOMAIN heap PROVE FALSE
    OBVIOUS
  <2>1. Addresses \subseteq held \cup owners
    BY <1>0, <1>5 DEF HeapInv
  <2>2. Cardinality(Addresses) <= Cardinality(held \cup owners)
    BY <1>10, <2>1, FS_Subset
  <2> QED
    BY <1>10, <1>13, <2>2
<1> DEFINE T == Addresses \ DOMAIN heap
<1>11. \E x \in T : \A y \in T : x <= y
  BY <1>13, <1>14, LeastNatural
<1>12. FreshAddress = CHOOSE x \in T : \A y \in T : x <= y
  BY DEF FreshAddress, Sets!Min
<1> QED
  BY <1>11, <1>12

-----------------------------------------------------------------------------
(* The steps. *)

\* Adding to the cache: what is in it afterwards, and that it keeps its limit.
LEMMA CacheAfterFacts ==
    ASSUME ChainTyped, CacheInv, NEW h \in 0 .. Len(chain), NEW a,
           NEW after \in CacheAfter(h, a)
    PROVE  /\ DOMAIN after \subseteq DOMAIN cache \cup {h}
           /\ Cardinality(DOMAIN after) <= CacheSize
           /\ \A g \in DOMAIN after : g = h => after[g] = a
           /\ \A g \in DOMAIN after : g # h => g \in DOMAIN cache /\ after[g] = cache[g]
<1> DEFINE full == Added(cache, h, a)
           dom == DOMAIN cache \cup {h}
<1>1. /\ DOMAIN full = dom /\ full[h] = a
      /\ \A g \in dom : g # h => g \in DOMAIN cache /\ full[g] = cache[g]
  BY DEF Added
<1>2. IsFiniteSet(DOMAIN cache) /\ Cardinality(DOMAIN cache) \in Nat
      /\ Cardinality(DOMAIN cache) <= CacheSize /\ CacheSize \in Nat
  BY CacheFinite, SnapshotsAssumption DEF CacheInv
<1>3. IsFiniteSet(dom) /\ Cardinality(dom) \in Nat
      /\ Cardinality(dom) <= Cardinality(DOMAIN cache) + 1
  <2>1. IsFiniteSet(dom)
    BY <1>2, FS_AddElement
  <2>2. Cardinality(dom) = IF h \in DOMAIN cache THEN Cardinality(DOMAIN cache)
                                                 ELSE Cardinality(DOMAIN cache) + 1
    BY <1>2, FS_AddElement
  <2> HIDE DEF dom
  <2> QED
    BY <1>2, <2>1, <2>2
<1>4. CASE Cardinality(DOMAIN full) <= CacheSize
  <2>1. after = full
    BY <1>4 DEF CacheAfter
  <2> QED
    BY <1>1, <1>4, <2>1
<1>5. CASE ~(Cardinality(DOMAIN full) <= CacheSize)
  <2>1. PICK victim \in DOMAIN full \ {h} : after = [g \in DOMAIN full \ {victim} |-> full[g]]
    BY <1>5 DEF CacheAfter
  <2> HIDE DEF full, dom
  <2>2. DOMAIN after = dom \ {victim} /\ \A g \in DOMAIN after : g \in dom /\ after[g] = full[g]
    BY <1>1, <2>1
  <2>3. Cardinality(DOMAIN after) = Cardinality(dom) - 1
    BY <1>1, <1>3, <2>1, <2>2, FS_RemoveElement
  <2>4. Cardinality(DOMAIN after) <= CacheSize
    BY <1>2, <1>3, <2>3
  <2>5. DOMAIN after \subseteq DOMAIN cache \cup {h}
    BY <2>2 DEF dom
  <2> QED
    BY <1>1, <2>2, <2>4, <2>5
<1> QED
  BY <1>4, <1>5

\* The end of a call: the snapshot at address a, of height h, goes to the cache,
\* and only objects in use are kept.
LEMMA FinishKeeps ==
    ASSUME SnapshotsInv, NEW c \in Busy, NEW h \in 0 .. Len(chain), NEW a \in Addresses,
           NEW objects,
           \A x \in DOMAIN heap \cup {a} : IsObject(objects[x]),
           \A x \in DOMAIN heap : objects[x].height = heap[x].height,
           objects[a].height = h,
           DOMAIN objects = DOMAIN heap \cup {a}, SetsShared(objects),
           call' = [call EXCEPT ![c] = NoCall],
           cache' \in CacheAfter(h, a),
           heap' = Collect(objects, cache', call'),
           chain' = chain
    PROVE  HeapInv' /\ CacheInv' /\ CallInv'
<1>0. ChainTyped /\ HeapInv /\ CacheInv /\ CallInv
  BY DEF SnapshotsInv
<1>1. /\ DOMAIN cache' \subseteq DOMAIN cache \cup {h}
      /\ Cardinality(DOMAIN cache') <= CacheSize
      /\ \A g \in DOMAIN cache' : g = h => cache'[g] = a
      /\ \A g \in DOMAIN cache' : g # h => g \in DOMAIN cache /\ cache'[g] = cache[g]
  BY <1>0, CacheAfterFacts
<1>2. /\ call' = [d \in Callers |-> call'[d]] /\ call'[c] = NoCall
      /\ \A d \in Callers : call'[d] # NoCall => d # c /\ d \in Busy /\ call'[d] = call[d]
  BY <1>0 DEF CallInv, Busy
<1>3. /\ DOMAIN heap' = Live(objects, cache', call')
      /\ \A x \in DOMAIN heap' : heap'[x] = objects[x]
  BY DEF Collect
<1>4. \A g \in DOMAIN cache' : cache'[g] \in DOMAIN heap'
  BY <1>3 DEF Live, Held
<1>5. \A d \in Busy' : call'[d].base \in DOMAIN heap'
  BY <1>3 DEF Live, Held, Busy
<1>6. \A d \in Busy' : d \in Busy /\ call'[d] = call[d] /\ call[d].base \in DOMAIN heap
  BY <1>0, <1>2 DEF Busy, CallInv
<1>7. \A g \in DOMAIN cache' : cache'[g] \in DOMAIN heap \cup {a}
  BY <1>0, <1>1 DEF CacheInv
<1>8. DOMAIN heap' \subseteq DOMAIN heap \cup {a}
  <2>1. Held(cache', call') \subseteq DOMAIN objects
    BY <1>6, <1>7 DEF Held, Busy
  <2>2. \A x \in Held(cache', call') :
           objects[x].valSet # NilSet => objects[x].valSet \in DOMAIN objects
    BY <2>1 DEF SetsShared
  <2> QED
    BY <1>3, <2>1, <2>2 DEF Live
<1>12. DOMAIN heap' = Live(heap', cache', call') /\ SetsShared(heap')
  <2> DEFINE held == Held(cache', call')
  <2>1. held \subseteq DOMAIN heap'
    BY <1>3 DEF Live
  <2>2. \A x \in held : heap'[x].valSet = objects[x].valSet
    BY <1>3, <2>1
  <2>3. DOMAIN heap' = held \cup ({objects[x].valSet : x \in held} \ {NilSet})
    BY <1>3 DEF Live
  <2>4. {objects[x].valSet : x \in held} = {heap'[x].valSet : x \in held}
    BY <2>2
  <2>5. Live(heap', cache', call') = held \cup ({heap'[x].valSet : x \in held} \ {NilSet})
    BY DEF Live
  <2>6. DOMAIN heap' = Live(heap', cache', call')
    BY <2>3, <2>4, <2>5
  <2> HIDE DEF held
  <2>7. SetsShared(heap')
    <3> SUFFICES ASSUME NEW x \in DOMAIN heap', heap'[x].valSet # NilSet
                 PROVE  LET owner == heap'[x].valSet
                        IN /\ owner \in DOMAIN heap' /\ heap'[owner].valSet = owner
                           /\ heap'[owner].vs = Blank
      BY DEF SetsShared
    <3> DEFINE owner == heap'[x].valSet
    <3>1. owner = objects[x].valSet /\ x \in DOMAIN objects
      BY <1>3, <1>8
    <3>2. objects[owner].valSet = owner /\ objects[owner].vs = Blank
      BY <3>1 DEF SetsShared
    <3>3. owner \in DOMAIN heap'
      <4>1. CASE x \in held
        BY <2>3, <3>1, <4>1
      <4>2. CASE x \notin held
        <5>1. PICK y \in held : x = objects[y].valSet /\ x # NilSet
          BY <2>3, <4>2
        <5>2. y \in DOMAIN objects
          BY <1>8, <2>1
        <5>3. objects[x].valSet = x
          BY <5>1, <5>2 DEF SetsShared
        <5> QED
          BY <3>1, <5>3
      <4> QED
        BY <4>1, <4>2
    <3> QED
      BY <1>3, <3>2, <3>3
  <2> QED
    BY <2>6, <2>7
<1>9. HeapInv'
  <2>1. DOMAIN heap' \subseteq Addresses
    BY <1>0, <1>8 DEF HeapInv
  <2>2. \A x \in DOMAIN heap' : IsObject(heap'[x])
    BY <1>3, <1>8
  <2>3. \A x \in DOMAIN heap' : IsObject(heap[x])'
    BY <2>2 DEF IsObject, SnapshotObject
  <2>4. SetsShared(heap)' /\ (DOMAIN heap \subseteq Live(heap, cache, call))'
    BY <1>12 DEF SetsShared, Live, Held, Blank
  <2> QED
    BY <2>1, <2>3, <2>4 DEF HeapInv, Addresses
<1>10. CacheInv'
  <2>1. \A g \in DOMAIN cache' : heap'[cache'[g]].height = g
    <3> SUFFICES ASSUME NEW g \in DOMAIN cache' PROVE objects[cache'[g]].height = g
      BY <1>3, <1>4
    <3>1. CASE g = h
      BY <1>1, <3>1
    <3>2. CASE g # h
      <4>1. cache'[g] = cache[g] /\ g \in DOMAIN cache
        BY <1>1, <3>2
      <4>2. cache[g] \in DOMAIN heap /\ heap[cache[g]].height = g
        BY <1>0, <4>1 DEF CacheInv
      <4> QED
        BY <4>1, <4>2
    <3> QED
      BY <3>1, <3>2
  <2>2. DOMAIN cache' \subseteq 0 .. Len(chain)
    BY <1>0, <1>1 DEF CacheInv
  <2> QED
    BY <1>1, <1>4, <2>1, <2>2 DEF CacheInv
<1>11. CallInv'
  <2> SUFFICES ASSUME NEW d \in Busy'
               PROVE  /\ call'[d].height \in 0 .. Len(chain)
                      /\ call'[d].base \in DOMAIN heap'
                      /\ heap'[call'[d].base].height = call'[d].from
                      /\ call'[d].from <= call'[d].height
    BY <1>2 DEF CallInv
  <2>1. d \in Busy /\ call'[d] = call[d] /\ call'[d].base \in DOMAIN heap'
    BY <1>5, <1>6
  <2>2. /\ call[d].height \in 0 .. Len(chain) /\ call[d].base \in DOMAIN heap
        /\ heap[call[d].base].height = call[d].from /\ call[d].from <= call[d].height
    BY <1>0, <2>1 DEF CallInv
  <2>3. heap'[call'[d].base].height = heap[call[d].base].height
    BY <1>3, <2>1, <2>2
  <2> QED
    BY <2>1, <2>2, <2>3
<1> QED
  BY <1>9, <1>10, <1>11

LEMMA SnapshotsInit == Init => SnapshotsInv
<1> SUFFICES ASSUME Init PROVE SnapshotsInv
  OBVIOUS
<1>1. DOMAIN cache = {} /\ DOMAIN heap = {} /\ DOMAIN disk = {} /\ Busy = {}
  BY DEF Init, Busy
<1>2. Cardinality(DOMAIN cache) = 0
  BY <1>1, FS_EmptySet
<1>3. ChainTyped
  <2>1. chain \in Seq(HeaderData) /\ Len(chain) <= MaxHeight
    BY SnapshotsAssumption DEF Init
  <2>2. crashed \in BOOLEAN
    BY Zenon DEF Init
  <2> QED
    BY <2>1, <2>2 DEF ChainTyped
<1>4. CacheInv
  BY <1>1, <1>2, SnapshotsAssumption DEF CacheInv
<1>5. HeapInv /\ DiskInv
  BY <1>1 DEF HeapInv, DiskInv, SetsShared
<1>6. CallInv
  BY <1>1 DEF Init, CallInv
<1> QED
  BY <1>3, <1>4, <1>5, <1>6 DEF SnapshotsInv

\* A new object, of the disk's copy or of the configuration, is of the height
\* that the walk back ended at.
LEMMA BaseObject ==
    ASSUME SnapshotsInv, NEW h \in 0 .. Len(chain), NEW readable \in {DOMAIN disk, {}},
           BaseHeight(h, readable) \notin DOMAIN cache, NEW a \in Addresses
    PROVE  LET g == BaseHeight(h, readable)
               loaded == g % CheckpointInterval = 0 /\ g \in readable
               object == IF loaded THEN loadSnapshot(disk[g]) ELSE newSnapshot(a)
           IN /\ IsObject(object) /\ object.height = g
              /\ object.valSet = NilSet \/ (object.valSet = a /\ object.vs = Blank)
<1> DEFINE g == BaseHeight(h, readable)
           loaded == g % CheckpointInterval = 0 /\ g \in readable
           object == IF loaded THEN loadSnapshot(disk[g]) ELSE newSnapshot(a)
<1> SUFFICES /\ IsObject(object) /\ object.height = g
             /\ object.valSet = NilSet \/ (object.valSet = a /\ object.vs = Blank)
  OBVIOUS
<1>1. h \in Nat
  BY DEF SnapshotsInv, ChainTyped
<1>2. g \in 0 .. h /\ (~loaded => g = 0)
  BY <1>1, BaseHeightFacts DEF Genesis
<1>3. g \in Nat
  BY <1>1, <1>2
<1>4. CASE loaded
  <2>1. disk[g].height = g /\ disk[g].hash = g
    BY <1>4 DEF SnapshotsInv, DiskInv
  <2>2. /\ IsObject(loadSnapshot(disk[g])) /\ loadSnapshot(disk[g]).height = g
        /\ loadSnapshot(disk[g]).valSet = NilSet
    <3> DEFINE s == loadSnapshot(disk[g])
    <3>1. s = [height |-> g, hash |-> g, vs |-> reload(disk[g].vs), valSet |-> NilSet, log |-> FALSE]
      BY <2>1 DEF loadSnapshot, SnapshotObject
    <3> HIDE DEF s, g
    <3> QED
      BY <1>3, <3>1 DEF SnapshotObject, IsObject, s
  <2>3. object = loadSnapshot(disk[g])
    BY <1>4
  <2> HIDE DEF object, g
  <2> QED
    BY <2>2, <2>3
<1>5. CASE ~loaded
  <2>1. /\ IsObject(newSnapshot(a)) /\ newSnapshot(a).height = 0
        /\ newSnapshot(a).valSet = a /\ newSnapshot(a).vs = Blank
    BY DEF newSnapshot, SnapshotObject, IsObject, Genesis, Blank
  <2> QED
    BY <1>2, <1>5, <2>1
<1> QED
  BY <1>4, <1>5

\* A call that found its base: at an address that the heap had, or at a new one.
LEMMA FoundKeeps ==
    ASSUME SnapshotsInv, NEW c \in Callers, call[c] = NoCall, NEW h \in 0 .. Len(chain),
           NEW a \in Addresses, NEW objects,
           DOMAIN objects = DOMAIN heap \cup {a},
           \A x \in DOMAIN heap : objects[x] = heap[x],
           IsObject(objects[a]), NEW g \in 0 .. h, objects[a].height = g,
           a \in DOMAIN heap \/ objects[a].valSet = NilSet
             \/ (objects[a].valSet = a /\ objects[a].vs = Blank),
           Found(c, h, g, a, objects)
    PROVE  ChainTyped' /\ HeapInv' /\ CacheInv' /\ CallInv'
<1>0. ChainTyped /\ HeapInv /\ CacheInv /\ CallInv
  BY DEF SnapshotsInv
<1>1. /\ call' = [call EXCEPT ![c] = [height |-> h, from |-> g, base |-> a]]
      /\ heap' = objects /\ chain' = chain /\ cache' = cache /\ crashed' = crashed
  BY DEF Found
<1>2. [height |-> h, from |-> g, base |-> a] # NoCall
  <2>1. h \in Nat /\ g \in Nat /\ a \in Nat
    BY <1>0, SnapshotsAssumption, FS_CardinalityType DEF ChainTyped, Addresses
  <2> QED
    BY <2>1, SnapshotsAssumption
<1>3. /\ call' = [d \in Callers |-> call'[d]]
      /\ call'[c] = [height |-> h, from |-> g, base |-> a]
      /\ \A d \in Callers : d # c => call'[d] = call[d]
  BY <1>0, <1>1 DEF CallInv
<1>4. \A d \in Busy : d \in Busy' /\ call'[d] = call[d]
  BY <1>3 DEF Busy
<1>5. c \in Busy' /\ \A d \in Busy' : d = c \/ d \in Busy
  BY <1>2, <1>3 DEF Busy
<1>6. Live(heap, cache, call) \cup {a} \subseteq Live(heap', cache', call')
  <2>1. a \in Held(cache', call')
    BY <1>3, <1>5 DEF Held, Busy
  <2>2. \A x \in Held(cache, call) : x \in Held(cache', call') /\ x \in DOMAIN heap
    <3>1. \A d \in Busy : call[d].base \in DOMAIN heap
      BY <1>0 DEF CallInv
    <3>2. \A k \in DOMAIN cache : cache[k] \in DOMAIN heap
      BY <1>0 DEF CacheInv
    <3> QED
      BY <1>1, <1>4, <3>1, <3>2 DEF Held, Busy
  <2>3. \A x \in Held(cache, call) : heap'[x].valSet = heap[x].valSet
    BY <1>1, <2>2
  <2> QED
    BY <2>1, <2>2, <2>3 DEF Live
<1>11. SetsShared(heap')
  BY <1>0, <1>1 DEF HeapInv, SetsShared
<1>7. HeapInv'
  <2>1. \A x \in DOMAIN heap' : IsObject(heap'[x])
    BY <1>0, <1>1 DEF HeapInv
  <2>2. \A x \in DOMAIN heap' : IsObject(heap[x])'
    BY <2>1 DEF IsObject, SnapshotObject
  <2>3. DOMAIN heap' \subseteq Live(heap', cache', call') /\ DOMAIN heap' \subseteq Addresses
    BY <1>0, <1>1, <1>6 DEF HeapInv
  <2>4. SetsShared(heap)' /\ (DOMAIN heap \subseteq Live(heap, cache, call))'
    BY <1>11, <2>3 DEF SetsShared, Live, Held, Blank
  <2> QED
    BY <2>2, <2>3, <2>4 DEF HeapInv, Addresses
<1>8. CacheInv'
  <2>1. \A k \in DOMAIN cache : cache[k] \in DOMAIN heap' /\ heap'[cache[k]].height = k
    BY <1>0, <1>1 DEF CacheInv
  <2> QED
    BY <1>0, <1>1, <2>1 DEF CacheInv
<1>9. CallInv'
  <2> SUFFICES ASSUME NEW d \in Busy'
               PROVE  /\ call'[d].height \in 0 .. Len(chain)
                      /\ call'[d].base \in DOMAIN heap'
                      /\ heap'[call'[d].base].height = call'[d].from
                      /\ call'[d].from <= call'[d].height
    BY <1>1, <1>3 DEF CallInv
  <2>1. CASE d = c
    BY <1>1, <1>3, <2>1
  <2>2. CASE d \in Busy
    <3>1. call'[d] = call[d]
      BY <1>4, <2>2
    <3>2. /\ call[d].height \in 0 .. Len(chain) /\ call[d].base \in DOMAIN heap
          /\ heap[call[d].base].height = call[d].from /\ call[d].from <= call[d].height
      BY <1>0, <2>2 DEF CallInv
    <3> QED
      BY <1>1, <3>1, <3>2
  <2> QED
    BY <1>5, <2>1, <2>2
<1>10. ChainTyped'
  BY <1>0, <1>1 DEF ChainTyped
<1> QED
  BY <1>7, <1>8, <1>9, <1>10

LEMMA LookupKeeps ==
    ASSUME SnapshotsInv, NEW c \in Callers, NEW h \in 0 .. Len(chain), Lookup(c, h)
    PROVE  SnapshotsInv'
<1>0. ChainTyped /\ HeapInv /\ CacheInv /\ DiskInv /\ call[c] = NoCall
  BY DEF SnapshotsInv, Lookup
<1>1. PICK readable \in {DOMAIN disk, {}} :
         LET g == BaseHeight(h, readable)
             loaded == g % CheckpointInterval = 0 /\ g \in readable
             object == IF loaded THEN loadSnapshot(disk[g]) ELSE newSnapshot(FreshAddress)
         IN \/ /\ g \in DOMAIN cache
               /\ Found(c, h, g, cache[g], heap)
               /\ UNCHANGED disk
            \/ /\ g \notin DOMAIN cache
               /\ Found(c, h, g, FreshAddress,
                        [a \in DOMAIN heap \cup {FreshAddress} |->
                             IF a = FreshAddress THEN object ELSE heap[a]])
               /\ disk' = IF loaded THEN disk
                          ELSE [k \in DOMAIN disk \cup {g} |->
                                    IF k = g THEN toJSONStruct(object) ELSE disk[k]]
  BY DEF Lookup
<1> DEFINE g == BaseHeight(h, readable)
           loaded == g % CheckpointInterval = 0 /\ g \in readable
           object == IF loaded THEN loadSnapshot(disk[g]) ELSE newSnapshot(FreshAddress)
<1>2. h \in Nat /\ g \in 0 .. h /\ g \in 0 .. Len(chain)
  <2>1. h \in Nat /\ Len(chain) \in Nat
    BY <1>0 DEF ChainTyped
  <2>2. g \in 0 .. h
    BY <2>1, BaseHeightFacts
  <2> QED
    BY <2>1, <2>2
<1>3. CASE g \in DOMAIN cache
  <2>1. Found(c, h, g, cache[g], heap) /\ disk' = disk
    BY <1>1, <1>3
  <2>2. cache[g] \in DOMAIN heap /\ heap[cache[g]].height = g
    BY <1>0, <1>3 DEF CacheInv
  <2>3. /\ cache[g] \in Addresses /\ DOMAIN heap = DOMAIN heap \cup {cache[g]}
        /\ IsObject(heap[cache[g]]) /\ heap[cache[g]].height = g
    <3> HIDE DEF g
    <3>1. cache[g] \in Addresses /\ IsObject(heap[cache[g]])
      BY <1>0, <2>2 DEF HeapInv
    <3>2. heap[cache[g]].height = g
      BY <2>2
    <3>3. DOMAIN heap = DOMAIN heap \cup {cache[g]}
      BY <2>2
    <3> QED
      BY <3>1, <3>2, <3>3
  <2> HIDE DEF g
  <2>4. ChainTyped' /\ HeapInv' /\ CacheInv' /\ CallInv'
    BY <1>0, <1>2, <2>1, <2>2, <2>3, FoundKeeps
  <2>5. DiskInv'
    BY <1>0, <2>1 DEF DiskInv, Found
  <2> QED
    BY <2>4, <2>5 DEF SnapshotsInv
<1>4. CASE g \notin DOMAIN cache
  <2> DEFINE a == FreshAddress
             objects == [x \in DOMAIN heap \cup {a} |-> IF x = a THEN object ELSE heap[x]]
  <2>1. Found(c, h, g, a, objects)
    BY <1>1, <1>4
  <2>2. disk' = IF loaded THEN disk
                ELSE [k \in DOMAIN disk \cup {g} |->
                                    IF k = g THEN toJSONStruct(object) ELSE disk[k]]
    BY <1>1, <1>4
  <2>4. a \in Addresses /\ a \notin DOMAIN heap
    BY FreshExists
  <2>3. /\ IsObject(object) /\ object.height = g
        /\ object.valSet = NilSet \/ (object.valSet = a /\ object.vs = Blank)
    BY <1>4, <2>4, BaseObject
  <2> HIDE DEF a, object, g
  <2>5. /\ DOMAIN objects = DOMAIN heap \cup {a}
        /\ \A x \in DOMAIN heap : objects[x] = heap[x]
        /\ objects[a] = object
    BY <2>4
  <2>6. /\ IsObject(objects[a]) /\ objects[a].height = g
        /\ objects[a].valSet = NilSet \/ (objects[a].valSet = a /\ objects[a].vs = Blank)
    BY <2>3, <2>5
  <2> HIDE DEF objects
  <2>7. ChainTyped' /\ HeapInv' /\ CacheInv' /\ CallInv'
    BY <1>0, <1>2, <2>1, <2>4, <2>5, <2>6, FoundKeeps
  <2>8. DiskInv'
    <3>1. chain' = chain
      BY <2>1 DEF Found
    <3>2. \A k \in DOMAIN disk' :
             \/ k \in DOMAIN disk /\ disk'[k] = disk[k]
             \/ k = g /\ disk'[k] = toJSONStruct(object)
      BY <2>2
    <3>3. toJSONStruct(object).height = g /\ toJSONStruct(object).hash = g
      BY <2>3 DEF toJSONStruct, IsObject
    <3> QED
      BY <1>0, <1>2, <3>1, <3>2, <3>3 DEF DiskInv
  <2> QED
    BY <2>7, <2>8 DEF SnapshotsInv
<1> QED
  BY <1>3, <1>4

LEMMA FinishFoundKeeps ==
    ASSUME SnapshotsInv, NEW c \in Callers, FinishFound(c)
    PROVE  SnapshotsInv'
<1> DEFINE a == call[c].base
           h == heap[a].height
<1>0. /\ c \in Busy /\ call[c].height = call[c].from
      /\ call' = [call EXCEPT ![c] = NoCall] /\ cache' \in CacheAfter(heap[a].hash, a)
      /\ heap' = Collect(heap, cache', call')
      /\ chain' = chain /\ disk' = disk /\ crashed' = crashed
  BY DEF FinishFound, Busy
<1>2. a \in DOMAIN heap /\ h \in 0 .. Len(chain)
  BY <1>0 DEF SnapshotsInv, CallInv
<1>3. /\ a \in Addresses /\ \A x \in DOMAIN heap \cup {a} : IsObject(heap[x])
      /\ DOMAIN heap = DOMAIN heap \cup {a} /\ SetsShared(heap)
  BY <1>2 DEF SnapshotsInv, HeapInv
<1>1. heap[a].hash = h /\ cache' \in CacheAfter(h, a)
  BY <1>0, <1>3 DEF IsObject
<1>4. heap[a].height = h
  OBVIOUS
<1> HIDE DEF a, h
<1>5. HeapInv' /\ CacheInv' /\ CallInv'
  BY <1>0, <1>1, <1>2, <1>3, <1>4, FinishKeeps
<1>6. ChainTyped' /\ DiskInv'
  BY <1>0 DEF SnapshotsInv, ChainTyped, DiskInv
<1> QED
  BY <1>5, <1>6 DEF SnapshotsInv

\* The new snapshot has the height asked for and its base's validator set.
LEMMA SuccessorObject ==
    ASSUME NEW s, IsObject(s), NEW h \in Nat, s.height <= h
    PROVE  LET new == Successor(s, s.height, h)
           IN IsObject(new) /\ new.height = h /\ new.hash = h /\ new.valSet = s.valSet
<1> DEFINE new == Successor(s, s.height, h)
           vs == IF EpochEnds(s.height, h) THEN reset(copy(s.vs)) ELSE copy(s.vs)
<1>1. s = [height |-> s.height, hash |-> s.hash, vs |-> s.vs, valSet |-> s.valSet, log |-> s.log]
  BY DEF IsObject, SnapshotObject
<1>2. new = [s EXCEPT !.height = s.height + (h - s.height), !.hash = h, !.vs = vs]
  BY DEF Successor
<1>3. s.height + (h - s.height) = h
  BY DEF IsObject
<1> HIDE DEF vs, new
<1>4. new = [height |-> h, hash |-> h, vs |-> vs, valSet |-> s.valSet, log |-> s.log]
  BY <1>1, <1>2, <1>3
<1> QED
  BY <1>4 DEF IsObject, SnapshotObject, new

LEMMA FinishAppliedKeeps ==
    ASSUME SnapshotsInv, NEW c \in Callers, FinishApplied(c)
    PROVE  SnapshotsInv'
<1> DEFINE s == heap[call[c].base]
           h == call[c].height
           from == call[c].from
           new == Successor(s, from, h)
           votes == VotesApplied(s.vs, from, h)
           checkpoint == new.height % CheckpointInterval = 0
           voted == [s EXCEPT !.vs = votes.vs]
           a == FreshAddress
           objects == [x \in DOMAIN heap \cup {a} |->
                          CASE x = a -> new
                            [] x = call[c].base -> voted
                            [] OTHER -> heap[x]]
<1>0. /\ c \in Busy /\ call[c].base \in DOMAIN heap /\ h \in 0 .. Len(chain) /\ h \in Nat
      /\ IsObject(s) /\ from = s.height /\ from <= h
  <2>1. c \in Busy
    BY DEF FinishApplied, Busy
  <2>2. call[c].base \in DOMAIN heap /\ h \in 0 .. Len(chain) /\ Len(chain) \in Nat
        /\ from = s.height /\ from <= h
    <3>1. CallInv /\ Len(chain) \in Nat
      BY DEF SnapshotsInv, ChainTyped
    <3> QED
      BY <2>1, <3>1 DEF CallInv
  <2>3. IsObject(s)
    BY <2>2 DEF SnapshotsInv, HeapInv
  <2> QED
    BY <2>1, <2>2, <2>3
<1>1. CASE Panic
  <2>1. crashed' \in BOOLEAN
    BY <1>1, Zenon DEF Panic
  <2>2. HeapInv'
    BY <1>1 DEF Panic, SnapshotsInv, HeapInv, SetsShared, Blank
  <2> QED
    BY <1>1, <2>1, <2>2 DEF Panic, SnapshotsInv, ChainTyped, CacheInv, DiskInv, CallInv, Busy
<1>2. CASE ~Panic
  <2>1. /\ call' = [call EXCEPT ![c] = NoCall]
        /\ cache' \in CacheAfter(new.hash, a)
        /\ heap' = Collect(objects, cache', call')
        /\ disk' \in {IF checkpoint
                      THEN [k \in DOMAIN disk \cup {new.hash} |->
                                IF k = new.hash THEN toJSONStruct(new) ELSE disk[k]]
                      ELSE disk} \cup (IF DiskMayFail THEN {disk} ELSE {})
        /\ chain' = chain /\ crashed' = crashed
        /\ ~votes.panic
    BY <1>2 DEF FinishApplied
  <2>3. IsObject(new) /\ new.height = h /\ new.hash = h /\ new.valSet = s.valSet
    BY <1>0, SuccessorObject
  <2>4. IsObject(voted) /\ voted.height = s.height /\ voted.valSet = s.valSet
        /\ voted.vs = votes.vs
    BY <1>0 DEF IsObject, SnapshotObject
  <2>2. s.vs = Blank => voted.vs = Blank
    <3> SUFFICES ASSUME s.vs = Blank PROVE votes.vs = Blank
      BY <2>4
    <3>1. from \in Nat
      BY <1>0 DEF IsObject
    <3> HIDE DEF from, h
    <3> QED
      BY <1>0, <2>1, <3>1, BlankVotes
  <2>5. a \in Addresses /\ a \notin DOMAIN heap
    BY FreshExists
  <2> HIDE DEF a, new, voted, votes
  <2>6. /\ DOMAIN objects = DOMAIN heap \cup {a}
        /\ objects[a] = new /\ objects[call[c].base] = voted
        /\ \A x \in DOMAIN heap : x # call[c].base => objects[x] = heap[x]
    BY <1>0, <2>5
  <2> HIDE DEF objects
  <2>7. /\ \A x \in DOMAIN heap \cup {a} : IsObject(objects[x])
        /\ \A x \in DOMAIN heap : objects[x].height = heap[x].height
        /\ objects[a].height = h
    <3>1. \A x \in DOMAIN heap : IsObject(heap[x])
      BY DEF SnapshotsInv, HeapInv
    <3> QED
      BY <2>3, <2>4, <2>6, <3>1
  <2>11. SetsShared(objects)
    <3>1. \A x \in DOMAIN heap : /\ objects[x].valSet = heap[x].valSet
                                 /\ heap[x].vs = Blank => objects[x].vs = Blank
      BY <2>2, <2>4, <2>6
    <3>2. SetsShared(heap)
      BY DEF SnapshotsInv, HeapInv
    <3>3. \A x \in DOMAIN objects : \E y \in DOMAIN heap : objects[x].valSet = heap[y].valSet
      BY <1>0, <2>3, <2>6, <3>1
    <3> QED
      BY <2>6, <3>1, <3>2, <3>3 DEF SetsShared
  <2>12. cache' \in CacheAfter(h, a)
    BY <2>1, <2>3
  <2> HIDE DEF h, s
  <2>8. HeapInv' /\ CacheInv' /\ CallInv'
    BY <1>0, <2>1, <2>5, <2>6, <2>7, <2>11, <2>12, FinishKeeps
  <2>9. DiskInv'
    <3>1. \A k \in DOMAIN disk' :
             \/ k \in DOMAIN disk /\ disk'[k] = disk[k]
             \/ k = h /\ disk'[k] = toJSONStruct(new)
      BY <2>1, <2>3
    <3>2. toJSONStruct(new).height = h /\ toJSONStruct(new).hash = h
      BY <2>3 DEF toJSONStruct
    <3> QED
      BY <1>0, <2>1, <3>1, <3>2 DEF SnapshotsInv, DiskInv
  <2>10. ChainTyped'
    BY <2>1 DEF SnapshotsInv, ChainTyped
  <2> QED
    BY <2>8, <2>9, <2>10 DEF SnapshotsInv
<1> QED
  BY <1>1, <1>2

LEMMA SnapshotsStep == SnapshotsInv /\ [Next]_vars => SnapshotsInv'
<1> SUFFICES ASSUME SnapshotsInv, [Next]_vars PROVE SnapshotsInv'
  OBVIOUS
<1>0. Len(chain) \in Nat
  BY DEF SnapshotsInv, ChainTyped
<1>1. ASSUME NEW c \in Callers, NEW h \in Genesis .. Len(chain), Lookup(c, h)
      PROVE  SnapshotsInv'
  BY <1>1, LookupKeeps DEF Genesis
<1>2. ASSUME NEW c \in Callers, FinishFound(c) PROVE SnapshotsInv'
  BY <1>2, FinishFoundKeeps
<1>3. ASSUME NEW c \in Callers, FinishApplied(c) PROVE SnapshotsInv'
  BY <1>3, FinishAppliedKeeps
<1>4. ASSUME NEW data \in HeaderData, Insert(data) PROVE SnapshotsInv'
  <2>1. /\ chain' = Append(chain, data) /\ Len(chain) < MaxHeight
        /\ heap' = heap /\ cache' = cache /\ disk' = disk /\ call' = call /\ crashed' = crashed
    BY <1>4 DEF Insert
  <2>2. chain' \in Seq(HeaderData) /\ Len(chain') = Len(chain) + 1
    BY <2>1 DEF SnapshotsInv, ChainTyped
  <2>3. 0 .. Len(chain) \subseteq 0 .. Len(chain')
    BY <1>0, <2>2
  <2>4. ChainTyped'
    BY <1>0, <2>1, <2>2, SnapshotsAssumption DEF SnapshotsInv, ChainTyped
  <2>5. HeapInv'
    BY <2>1 DEF SnapshotsInv, HeapInv, SetsShared, Blank
  <2>6. CacheInv' /\ DiskInv'
    BY <2>1, <2>3 DEF SnapshotsInv, CacheInv, DiskInv
  <2>7. CallInv'
    BY <2>1, <2>3 DEF SnapshotsInv, CallInv, Busy
  <2> QED
    BY <2>4, <2>5, <2>6, <2>7 DEF SnapshotsInv
<1>5. CASE Restart
  <2>1. /\ DOMAIN heap' = {} /\ DOMAIN cache' = {}
        /\ call' = [c \in Callers |-> NoCall]
        /\ chain' = chain /\ disk' = disk
    BY <1>5 DEF Restart
  <2>2. Cardinality(DOMAIN cache') = 0
    BY <2>1, FS_EmptySet
  <2>3. CacheInv'
    BY <2>1, <2>2, SnapshotsAssumption DEF CacheInv
  <2>4. HeapInv' /\ DiskInv'
    BY <2>1 DEF SnapshotsInv, HeapInv, DiskInv, SetsShared
  <2>5. CallInv'
    BY <2>1 DEF CallInv, Busy
  <2>6. crashed' \in BOOLEAN
    BY <1>5, Zenon DEF Restart
  <2>7. ChainTyped'
    BY <2>1, <2>6 DEF SnapshotsInv, ChainTyped
  <2> QED
    BY <2>3, <2>4, <2>5, <2>7 DEF SnapshotsInv
<1>6. CASE UNCHANGED vars
  BY <1>6 DEF vars, SnapshotsInv, ChainTyped, HeapInv, CacheInv, DiskInv, CallInv, Busy,
              SetsShared, Blank
<1> QED
  BY <1>1, <1>2, <1>3, <1>4, <1>5, <1>6 DEF Next

LEMMA SnapshotsInvHolds == Spec => []SnapshotsInv
BY SnapshotsInit, SnapshotsStep, PTL DEF Spec

\* The cache keeps its limit, and no caller is left with a base that has been
\* collected, for any number of callers (pbftEngine.snapshot).
THEOREM SnapshotsTyped == Spec => []TypeOK
<1>1. SnapshotsInv => TypeOK
  BY DEF SnapshotsInv, ChainTyped, HeapInv, CacheInv, CallInv, Busy, TypeOK, Genesis
<1> QED
  BY <1>1, SnapshotsInvHolds, PTL

\* A snapshot is kept under the hash of its own block, in the cache and on disk,
\* and the headers that a caller has gathered follow the snapshot it has found,
\* however callers, restarts, evictions and failures of the database interleave:
\* Apply never returns errInvalidVotingChain (pbftEngine.snapshot, Apply).
THEOREM SnapshotsKeptAtOwnHeight == Spec => []KeptAtOwnHeight
<1>1. SnapshotsInv => KeptAtOwnHeight
  BY DEF SnapshotsInv, CacheInv, DiskInv, CallInv, Busy, KeptAtOwnHeight
<1> QED
  BY <1>1, SnapshotsInvHolds, PTL

\* The validator set that snapshots share by pointer with the genesis count stays
\* the configured one: the only votes that could change it are applied to that
\* count, whose nil tallies make each of them void or a panic (newSnapshot,
\* newVoteSnapshot, copy, Apply).
THEOREM ValSetsNeverChange == Spec => []ValSetNeverChanges
<1>1. SnapshotsInv => ValSetNeverChanges
  <2> SUFFICES ASSUME SnapshotsInv, NEW a \in DOMAIN heap, heap[a].valSet # NilSet
               PROVE  heap[heap[a].valSet].vs.v.members = GenesisValidators
    BY DEF ValSetNeverChanges
  <2>1. heap[heap[a].valSet].vs = Blank
    BY DEF SnapshotsInv, HeapInv, SetsShared
  <2> QED
    BY <2>1 DEF Blank, newVoteSnapshot
<1> QED
  BY <1>1, SnapshotsInvHolds, PTL
=============================================================================
