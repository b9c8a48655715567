-------------------------- MODULE VoteSnapshotProofs --------------------------
(***************************************************************************)
(* The count of votes, for any managers, candidates and votes, and any     *)
(* order of headers, resets, copies and reloads: a manager counts once,    *)
(* the tally of a candidate is the number of managers that stand behind    *)
(* it, and members change by majority only.  The lists of votes are        *)
(* reasoned about as sets (Elems); a tally then is exact or not for a set. *)
(***************************************************************************)
EXTENDS VoteSnapshot, FiniteSetTheorems, SequenceTheorems, WellFoundedInduction, TLAPS

-----------------------------------------------------------------------------
(* Lists of votes. *)

Elems(s) == {s[i] : i \in DOMAIN s}

\* Two votes of one manager about one candidate.
Same(v, w) == v.manager = w.manager /\ v.candidate = w.candidate

OneEach(s) == \A i, j \in DOMAIN s : Same(s[i], s[j]) => i = j

LEMMA ElemsFinite ==
    ASSUME NEW V, NEW s \in Seq(V)
    PROVE  IsFiniteSet(Elems(s)) /\ Elems(s) \subseteq V
<1>1. Len(s) \in Nat /\ DOMAIN s = 1 .. Len(s)
  OBVIOUS
<1>2. IsFiniteSet(1 .. Len(s))
  BY <1>1, FS_Interval
<1> DEFINE f == [i \in 1 .. Len(s) |-> s[i]]
<1>3. f \in Surjection(1 .. Len(s), Elems(s))
  BY <1>1 DEF Surjection, Elems
<1>4. IsFiniteSet(Elems(s))
  BY <1>2, <1>3, FS_Surjection
<1>5. Elems(s) \subseteq V
  BY <1>1 DEF Elems
<1> QED
  BY <1>4, <1>5

LEMMA AppendFacts ==
    ASSUME NEW V, NEW s \in Seq(V), NEW v \in V
    PROVE  /\ Append(s, v) \in Seq(V)
           /\ Elems(Append(s, v)) = Elems(s) \cup {v}
           /\ OneEach(s) /\ (\A w \in Elems(s) : ~Same(w, v)) => OneEach(Append(s, v))
<1> DEFINE t == Append(s, v)
           n == Len(s)
<1>1. n \in Nat /\ DOMAIN s = 1 .. n /\ t \in Seq(V) /\ DOMAIN t = 1 .. n + 1
  OBVIOUS
<1>2. t[n + 1] = v /\ \A i \in 1 .. n : t[i] = s[i]
  BY <1>1
<1> HIDE DEF t, n
<1>3. Elems(t) = Elems(s) \cup {v}
  <2>1. ASSUME NEW x \in Elems(t) PROVE x \in Elems(s) \cup {v}
    <3>1. PICK i \in 1 .. n + 1 : x = t[i]
      BY <1>1 DEF Elems
    <3>2. i \in 1 .. n \/ i = n + 1
      BY <1>1
    <3> QED
      BY <1>1, <1>2, <3>1, <3>2 DEF Elems
  <2>2. ASSUME NEW x \in Elems(s) \cup {v} PROVE x \in Elems(t)
    <3>1. n + 1 \in 1 .. n + 1 /\ \A i \in 1 .. n : i \in 1 .. n + 1
      BY <1>1
    <3> QED
      BY <1>1, <1>2, <3>1 DEF Elems
  <2> QED
    BY <2>1, <2>2
<1>4. ASSUME OneEach(s), \A w \in Elems(s) : ~Same(w, v),
             NEW i \in 1 .. n + 1, NEW j \in 1 .. n + 1, Same(t[i], t[j])
      PROVE  i = j
  <2>1. \A k \in 1 .. n : ~Same(t[k], v) /\ ~Same(v, t[k])
    BY <1>1, <1>2, <1>4 DEF Elems, Same
  <2>2. (i \in 1 .. n \/ i = n + 1) /\ (j \in 1 .. n \/ j = n + 1)
    BY <1>1
  <2>3. i \in 1 .. n /\ j \in 1 .. n => i = j
    BY <1>1, <1>2, <1>4 DEF OneEach
  <2> QED
    BY <1>2, <1>4, <2>1, <2>2, <2>3
<1>5. OneEach(s) /\ (\A w \in Elems(s) : ~Same(w, v)) => OneEach(t)
  BY <1>1, <1>4 DEF OneEach
<1> QED
  BY <1>1, <1>3, <1>5 DEF t

LEMMA RemoveFacts ==
    ASSUME NEW V, NEW s \in Seq(V), NEW i \in 1 .. Len(s), OneEach(s)
    PROVE  LET t == Seqs!RemoveAt(s, i)
           IN t \in Seq(V) /\ OneEach(t) /\ Elems(t) = Elems(s) \ {s[i]}
<1> DEFINE t == Seqs!RemoveAt(s, i)
           n == Len(s)
           a == SubSeq(s, 1, i - 1)
           b == SubSeq(s, i + 1, n)
<1>1. n \in Nat /\ DOMAIN s = 1 .. n /\ i \in Nat /\ 1 <= i /\ i <= n
  OBVIOUS
<1>2. /\ a \in Seq(V) /\ Len(a) = i - 1
       /\ \A k \in 1 .. i - 1 : a[k] = s[k]
  <2>1. i - 1 \in Int /\ \A k \in 1 .. i - 1 : s[k] \in V
    BY <1>1
  <2>2. /\ a \in Seq(V) /\ Len(a) = IF 1 <= i - 1 THEN (i - 1) - 1 + 1 ELSE 0
        /\ \A k \in 1 .. (i - 1) - 1 + 1 : a[k] = s[1 + k - 1]
    BY <2>1, SubSeqProperties
  <2> HIDE DEF a
  <2>3. (i - 1) - 1 + 1 = i - 1 /\ \A k \in 1 .. i - 1 : 1 + k - 1 = k
    BY <1>1
  <2> QED
    BY <1>1, <2>2, <2>3
<1>3. /\ b \in Seq(V) /\ Len(b) = n - i
       /\ \A k \in 1 .. n - i : b[k] = s[i + k]
  <2>1. i + 1 \in Int /\ n \in Int /\ \A k \in i + 1 .. n : s[k] \in V
    BY <1>1
  <2>2. /\ b \in Seq(V) /\ Len(b) = IF i + 1 <= n THEN n - (i + 1) + 1 ELSE 0
        /\ \A k \in 1 .. n - (i + 1) + 1 : b[k] = s[(i + 1) + k - 1]
    BY <2>1, SubSeqProperties
  <2> HIDE DEF b, n
  <2>3. n - (i + 1) + 1 = n - i /\ \A k \in 1 .. n - i : (i + 1) + k - 1 = i + k
    BY <1>1
  <2>4. Len(b) = n - i
    BY <1>1, <2>2
  <2> QED
    BY <2>2, <2>3, <2>4
<1>4. t = a \o b
  BY DEF Seqs!RemoveAt
<1> HIDE DEF a, b, t, n
<1>5. /\ n \in Nat /\ DOMAIN s = 1 .. n /\ t \in Seq(V) /\ DOMAIN t = 1 .. n - 1
      /\ i \in Nat /\ 1 <= i /\ i <= n
  <2>1. t \in Seq(V) /\ Len(t) = Len(a) + Len(b)
    BY <1>2, <1>3, <1>4, ConcatProperties
  <2>2. Len(t) = n - 1
    BY <1>1, <1>2, <1>3, <2>1
  <2>3. DOMAIN t = 1 .. Len(t)
    BY <2>1
  <2> QED
    BY <1>1, <2>1, <2>2, <2>3
<1>6. \A k \in 1 .. n - 1 : t[k] = IF k < i THEN s[k] ELSE s[k + 1]
  <2> TAKE k \in 1 .. n - 1
  <2>1. CASE k < i
    <3>1. k \in 1 .. i - 1
      BY <1>1, <2>1
    <3> QED
      BY <1>2, <1>3, <1>4, <2>1, <3>1, ConcatProperties
  <2>2. CASE ~(k < i)
    <3>1. k - Len(a) \in 1 .. n - i /\ k \in Len(a) + 1 .. Len(a) + Len(b)
      BY <1>1, <1>2, <1>3, <2>2
    <3>2. t[k] = b[k - Len(a)]
      BY <1>2, <1>3, <1>4, <3>1, ConcatProperties
    <3>3. i + (k - Len(a)) = k + 1
      BY <1>1, <1>2
    <3> QED
      BY <1>3, <2>2, <3>1, <3>2, <3>3
  <2> QED
    BY <2>1, <2>2
<1> DEFINE old(k) == IF k < i THEN k ELSE k + 1
<1>7. \A k \in 1 .. n - 1 : old(k) \in 1 .. n /\ old(k) # i /\ t[k] = s[old(k)]
  BY <1>5, <1>6
<1>8. \A k, l \in 1 .. n - 1 : old(k) = old(l) => k = l
  BY <1>5
<1>9. \A m \in 1 .. n : m # i => \E k \in 1 .. n - 1 : old(k) = m
  <2> TAKE m \in 1 .. n
  <2> HAVE m # i
  <2>1. CASE m < i
    <3>1. m \in 1 .. n - 1 /\ old(m) = m
      BY <1>5, <2>1
    <3> QED
      BY <3>1
  <2>2. CASE m > i
    <3>1. m - 1 \in 1 .. n - 1 /\ old(m - 1) = m
      BY <1>5, <2>2
    <3> QED
      BY <3>1
  <2> QED
    BY <1>5, <2>1, <2>2
<1> HIDE DEF old
<1>10. OneEach(t)
  <2> SUFFICES ASSUME NEW k \in 1 .. n - 1, NEW l \in 1 .. n - 1, Same(t[k], t[l])
               PROVE  k = l
    BY <1>5 DEF OneEach
  <2>1. old(k) = old(l)
    BY <1>5, <1>7 DEF OneEach
  <2> QED
    BY <1>8, <2>1
<1>11. \A m \in 1 .. n : s[m] = s[i] => m = i
  BY <1>5 DEF OneEach, Same
<1>12. ASSUME NEW x \in Elems(t) PROVE x \in Elems(s) \ {s[i]}
  <2>1. PICK k \in 1 .. n - 1 : x = t[k]
    BY <1>5 DEF Elems
  <2> QED
    BY <1>5, <1>7, <1>11, <2>1 DEF Elems
<1>13. ASSUME NEW x \in Elems(s) \ {s[i]} PROVE x \in Elems(t)
  <2>1. PICK m \in 1 .. n : x = s[m] /\ m # i
    BY <1>5 DEF Elems
  <2>2. PICK k \in 1 .. n - 1 : old(k) = m
    BY <1>9, <2>1
  <2> QED
    BY <1>5, <1>7, <2>1, <2>2 DEF Elems
<1> QED
  BY <1>5, <1>10, <1>12, <1>13 DEF t

\* The order in which discard puts the votes it keeps: position k gets the k-th.
LEMMA DiscardFacts ==
    ASSUME NEW V, NEW s \in Seq(V), NEW c
    PROVE  /\ discard(s, c) \in Seq(V)
           /\ Elems(discard(s, c)) = {w \in Elems(s) : w.candidate # c}
           /\ OneEach(s) => OneEach(discard(s, c))
<1> DEFINE kept == {i \in DOMAIN s : s[i].candidate # c}
           Upto(i) == {j \in kept : j <= i}
           Place(i) == Cardinality(Upto(i))
           num == Cardinality(kept)
           place == [i \in kept |-> Place(i)]
           t == [k \in 1 .. num |-> s[CHOOSE i \in kept : Place(i) = k]]
<1>1. kept \in SUBSET Nat /\ kept \in SUBSET (1 .. Len(s)) /\ DOMAIN s = 1 .. Len(s) /\ Len(s) \in Nat
  OBVIOUS
<1>2. IsFiniteSet(kept) /\ num \in Nat
  <2>1. IsFiniteSet(1 .. Len(s))
    BY <1>1, FS_Interval
  <2> HIDE DEF kept
  <2> QED
    BY <1>1, <2>1, FS_Subset, FS_CardinalityType
<1> HIDE DEF kept
<1>3. \A i \in kept : IsFiniteSet(Upto(i)) /\ Place(i) \in 1 .. num
  <2> TAKE i \in kept
  <2>1. Upto(i) \in SUBSET kept /\ i \in Upto(i)
    BY <1>1
  <2>2. IsFiniteSet(Upto(i)) /\ Cardinality(Upto(i)) <= num /\ Cardinality(Upto(i)) \in Nat
    BY <1>2, <2>1, FS_Subset, FS_CardinalityType
  <2>3. Cardinality(Upto(i)) # 0
    BY <2>1, <2>2, FS_EmptySet
  <2> QED
    BY <1>2, <2>2, <2>3
<1>4. \A i, j \in kept : i < j => Place(i) # Place(j)
  <2> TAKE i, j \in kept
  <2> HAVE i < j
  <2>0. i \in Nat /\ j \in Nat /\ \A l \in kept : l \in Nat
    BY <1>1
  <2>1. Upto(i) \in SUBSET Upto(j) /\ j \in Upto(j) /\ j \notin Upto(i)
    <3>1. j \in Upto(j) /\ j \notin Upto(i)
      BY <2>0
    <3>2. ASSUME NEW l \in kept, l <= i PROVE l <= j
      BY <2>0, <3>2
    <3> QED
      BY <3>1, <3>2
  <2>2. IsFiniteSet(Upto(j)) /\ IsFiniteSet(Upto(i))
    BY <1>3
  <2> HIDE DEF Upto
  <2> QED
    BY <2>1, <2>2, FS_Subset
<1>5. \A i, j \in kept : Place(i) = Place(j) => i = j
  BY <1>1, <1>4
<1>6. place \in Injection(kept, 1 .. num)
  BY <1>3, <1>5 DEF Injection, IsInjective
<1> HIDE DEF Upto
<1>7. \A k \in 1 .. num : \E i \in kept : Place(i) = k
  <2>1. IsFiniteSet(1 .. num) /\ Cardinality(1 .. num) = num
    BY <1>2, FS_Interval
  <2>2. place \in Surjection(kept, 1 .. num)
    BY <1>6, <2>1, FS_Injection
  <2> QED
    BY <2>2 DEF Surjection
<1> DEFINE at(k) == CHOOSE i \in kept : Place(i) = k
<1>8. \A k \in 1 .. num : at(k) \in kept /\ Place(at(k)) = k
  BY <1>7
<1>9. \A i \in kept : Place(i) \in 1 .. num /\ at(Place(i)) = i
  BY <1>3, <1>5
<1>10. t = [k \in 1 .. num |-> s[at(k)]] /\ discard(s, c) = t
  BY DEF discard, kept, Upto
<1> HIDE DEF t, num, Place, at
<1>11. \A i : i \in kept <=> i \in 1 .. Len(s) /\ s[i].candidate # c
  BY <1>1 DEF kept
<1>12. t \in Seq(V) /\ DOMAIN t = 1 .. num
  BY <1>1, <1>2, <1>8, <1>10, <1>11
<1>13. ASSUME NEW x \in Elems(t) PROVE x \in Elems(s) /\ x.candidate # c
  <2>1. PICK k \in 1 .. num : x = t[k]
    BY <1>12 DEF Elems
  <2> QED
    BY <1>1, <1>8, <1>10, <1>11, <2>1 DEF Elems
<1>14. ASSUME NEW x \in Elems(s), x.candidate # c PROVE x \in Elems(t)
  <2>1. PICK i \in kept : x = s[i]
    BY <1>1, <1>11, <1>14 DEF Elems
  <2>2. x = t[Place(i)] /\ Place(i) \in 1 .. num
    BY <1>9, <1>10, <2>1
  <2> QED
    BY <1>12, <2>2 DEF Elems
<1>15. ASSUME OneEach(s), NEW k \in 1 .. num, NEW l \in 1 .. num, Same(t[k], t[l])
       PROVE  k = l
  <2>1. at(k) = at(l)
    BY <1>1, <1>8, <1>10, <1>11, <1>15 DEF OneEach
  <2> QED
    BY <1>8, <2>1
<1>16. OneEach(s) => OneEach(t)
  BY <1>12, <1>15 DEF OneEach
<1>17. Elems(t) = {w \in Elems(s) : w.candidate # c}
  BY <1>13, <1>14
<1> QED
  BY <1>10, <1>12, <1>16, <1>17

LEMMA LeastNatural ==
    ASSUME NEW T \in SUBSET Nat, T # {}
    PROVE  \E x \in T : \A y \in T : x <= y
<1>1. PICK x \in T : \A y \in T : ~(<<y, x>> \in OpToRel(<, Nat))
  BY NatLessThanWellFounded, WFMin
<1>2. \A y \in T : ~(y < x)
  BY <1>1 DEF OpToRel
<1> QED
  BY <1>2

\* earlier finds the vote of the same manager about the same candidate.
LEMMA EarlierFacts ==
    ASSUME NEW V, NEW side, side.votes \in Seq(V), NEW v
    PROVE  LET i == earlier(side, v)
           IN /\ i = 0 => \A w \in Elems(side.votes) : ~Same(w, v)
              /\ i # 0 => i \in 1 .. Len(side.votes) /\ Same(side.votes[i], v)
<1> DEFINE I == {i \in 1 .. Len(side.votes) :
                    side.votes[i].manager = v.manager /\ side.votes[i].candidate = v.candidate}
<1>1. earlier(side, v) = IF I # {} THEN Seqs!Min(I) ELSE 0
  BY DEF earlier, Seqs!SelectInSeq
<1>2. I \in SUBSET Nat /\ 0 \notin I
  OBVIOUS
<1>3. CASE I = {}
  <2>1. \A w \in Elems(side.votes) : ~Same(w, v)
    BY <1>3 DEF Elems, Same
  <2> QED
    BY <1>1, <1>3, <2>1
<1>4. CASE I # {}
  <2>1. PICK x \in I : \A y \in I : x <= y
    <3> HIDE DEF I
    <3> QED
      BY <1>2, <1>4, LeastNatural
  <2>2. Seqs!Min(I) \in I
    <3> HIDE DEF I
    <3> QED
      BY <2>1 DEF Seqs!Min
  <2> QED
    BY <1>1, <1>2, <1>4, <2>2 DEF Same
<1> QED
  BY <1>3, <1>4

-----------------------------------------------------------------------------
(* Tallies. *)

Cands == Candidates(MVotes \cup VVotes)

RealMap(map) == map \in [DOMAIN map -> Tally] /\ DOMAIN map \subseteq Cands

\* The managers that a set of votes has for a verdict about a candidate.
VotersIn(E, c, authorize) ==
    {w.manager : w \in {x \in E : x.candidate = c /\ x.authorize = authorize}}

\* The verdict that would change a candidate's membership.
Change(members, c) == c \notin members

\* The tally has just the candidates that somebody wants to change, each with
\* the number of managers behind it.
Exact(map, members, E) ==
    \A c \in Cands : LET S == VotersIn(E, c, Change(members, c)) IN
        /\ c \in DOMAIN map <=> S # {}
        /\ c \in DOMAIN map =>
              map[c] = [authorize |-> Change(members, c), votes |-> Cardinality(S)]

\* No vote is left to remove somebody who is no member.
Fresh(members, E) == \A w \in E : w.candidate \notin members => w.authorize = TRUE

LEMMA VotersFinite ==
    ASSUME NEW E, IsFiniteSet(E), NEW c, NEW a
    PROVE  /\ IsFiniteSet(VotersIn(E, c, a))
           /\ Cardinality(VotersIn(E, c, a)) \in Nat
           /\ Cardinality(VotersIn(E, c, a)) = 0 <=> VotersIn(E, c, a) = {}
<1> DEFINE W == {x \in E : x.candidate = c /\ x.authorize = a}
           f == [w \in W |-> w.manager]
<1>1. IsFiniteSet(W)
  BY FS_Subset
<1>2. f \in Surjection(W, VotersIn(E, c, a))
  BY DEF VotersIn, Surjection
<1>3. IsFiniteSet(VotersIn(E, c, a))
  BY <1>1, <1>2, FS_Surjection
<1> QED
  BY <1>3, FS_CardinalityType, FS_EmptySet

LEMMA VotersRemove ==
    ASSUME NEW E, NEW u \in E, \A w \in E : Same(w, u) => w = u
    PROVE  /\ \A c, a : VotersIn(E \ {u}, c, a) =
                 IF c = u.candidate /\ a = u.authorize THEN VotersIn(E, c, a) \ {u.manager}
                                                      ELSE VotersIn(E, c, a)
           /\ u.manager \in VotersIn(E, u.candidate, u.authorize)
BY DEF VotersIn, Same

LEMMA VotersAdd ==
    ASSUME NEW E, NEW v, \A w \in E : ~Same(w, v)
    PROVE  /\ \A c, a : VotersIn(E \cup {v}, c, a) =
                 IF c = v.candidate /\ a = v.authorize THEN VotersIn(E, c, a) \cup {v.manager}
                                                      ELSE VotersIn(E, c, a)
           /\ \A a : v.manager \notin VotersIn(E, v.candidate, a)
BY DEF VotersIn, Same

\* uncast keeps the tally exact when a vote is taken away.
LEMMA UncastFacts ==
    ASSUME NEW map, RealMap(map), NEW members, NEW E, IsFiniteSet(E), Exact(map, members, E),
           NEW u \in E, u.candidate \in Cands, u.authorize \in BOOLEAN,
           \A w \in E : Same(w, u) => w = u
    PROVE  LET new == uncast(map, u.candidate, u.authorize)
           IN RealMap(new) /\ Exact(new, members, E \ {u})
<1> DEFINE c == u.candidate
           S(d) == VotersIn(E, d, Change(members, d))
           T(d) == VotersIn(E \ {u}, d, Change(members, d))
           new == uncast(map, c, u.authorize)
<1>1. \A d \in Cands : /\ d \in DOMAIN map <=> S(d) # {}
                       /\ d \in DOMAIN map => map[d] = [authorize |-> Change(members, d),
                                                       votes |-> Cardinality(S(d))]
  BY DEF Exact
<1>2. \A d, a : VotersIn(E \ {u}, d, a) =
                   IF d = c /\ a = u.authorize THEN VotersIn(E, d, a) \ {u.manager}
                                               ELSE VotersIn(E, d, a)
  BY VotersRemove, Zenon
<1>3. \A d \in Cands : d # c => T(d) = S(d)
  BY <1>2, Zenon
<1>4. \A d : IsFiniteSet(S(d)) /\ Cardinality(S(d)) \in Nat
  BY VotersFinite
<1>5. CASE u.authorize = Change(members, c)
  <2>1. u.manager \in S(c) /\ T(c) = S(c) \ {u.manager}
    <3>1. u.manager \in VotersIn(E, c, u.authorize)
      BY VotersRemove
    <3> QED
      BY <1>2, <1>5, <3>1, Zenon
  <2>2. Cardinality(T(c)) = Cardinality(S(c)) - 1 /\ IsFiniteSet(T(c))
    <3> HIDE DEF S, T
    <3> QED
      BY <1>4, <2>1, FS_RemoveElement
  <2>3. Cardinality(T(c)) \in Nat /\ (Cardinality(T(c)) = 0 <=> T(c) = {})
    BY <2>2, FS_CardinalityType, FS_EmptySet
  <2> HIDE DEF S, T
  <2>4. c \in DOMAIN map /\ map[c] = [authorize |-> u.authorize, votes |-> Cardinality(S(c))]
    BY <1>1, <1>5, <2>1
  <2>5. CASE Cardinality(S(c)) > 1
    <3>1. /\ new = [d \in DOMAIN map |-> IF d = c THEN [map[c] EXCEPT !.votes = @ - 1] ELSE map[d]]
      BY <2>4, <2>5 DEF uncast, Put
    <3>2. DOMAIN new = DOMAIN map /\ \A d \in DOMAIN map : d # c => new[d] = map[d]
      BY <3>1
    <3>3. new[c] = [authorize |-> u.authorize, votes |-> Cardinality(T(c))]
      BY <2>2, <2>4, <3>1
    <3> HIDE DEF new
    <3>4. RealMap(new)
      BY <1>4, <2>2, <2>3, <2>5, <3>1, <3>2, <3>3 DEF RealMap, Tally
    <3>5. \A d \in Cands : /\ d \in DOMAIN new <=> T(d) # {}
                           /\ d \in DOMAIN new => new[d] = [authorize |-> Change(members, d),
                                                           votes |-> Cardinality(T(d))]
      BY <1>1, <1>3, <1>4, <1>5, <2>2, <2>3, <2>4, <2>5, <3>2, <3>3
    <3> QED
      BY <3>4, <3>5 DEF Exact, T, new
  <2>6. CASE ~(Cardinality(S(c)) > 1)
    <3>1. new = [d \in DOMAIN map \ {c} |-> map[d]]
      BY <2>4, <2>6 DEF uncast, Drop
    <3>2. T(c) = {}
      BY <1>4, <2>2, <2>3, <2>6
    <3>3. DOMAIN new = DOMAIN map \ {c} /\ \A d \in DOMAIN new : new[d] = map[d]
      BY <3>1
    <3>4. RealMap(new)
      BY <3>1 DEF RealMap
    <3> HIDE DEF new
    <3>5. \A d \in Cands : /\ d \in DOMAIN new <=> T(d) # {}
                           /\ d \in DOMAIN new => new[d] = [authorize |-> Change(members, d),
                                                           votes |-> Cardinality(T(d))]
      BY <1>1, <1>3, <3>2, <3>3
    <3> QED
      BY <3>4, <3>5 DEF Exact, T, new
  <2> QED
    BY <2>5, <2>6
<1>6. CASE u.authorize # Change(members, c)
  <2>1. T(c) = S(c)
    BY <1>6, VotersRemove
  <2>2. new = map
    <3>1. ASSUME c \in DOMAIN map PROVE map[c].authorize # u.authorize
      <4> HIDE DEF S
      <4>1. map[c] = [authorize |-> Change(members, c), votes |-> Cardinality(S(c))]
        BY <1>1, <3>1, Zenon
      <4> QED
        BY <1>6, <4>1
    <3> QED
      BY <3>1 DEF uncast
  <2> QED
    BY <1>1, <1>3, <2>1, <2>2 DEF Exact
<1> QED
  BY <1>5, <1>6

\* cast keeps the tally exact when a vote for a change is added.
LEMMA CastFacts ==
    ASSUME NEW map, RealMap(map), NEW members, NEW E, IsFiniteSet(E), Exact(map, members, E),
           NEW v, v.candidate \in Cands, v.authorize = Change(members, v.candidate),
           \A w \in E : ~Same(w, v)
    PROVE  LET new == cast(map, v.candidate, v.authorize)
           IN RealMap(new) /\ Exact(new, members, E \cup {v})
<1> DEFINE c == v.candidate
           S(d) == VotersIn(E, d, Change(members, d))
           T(d) == VotersIn(E \cup {v}, d, Change(members, d))
           new == cast(map, c, v.authorize)
           entry == [authorize |-> v.authorize, votes |-> Cardinality(T(c))]
<1>1. \A d \in Cands : /\ d \in DOMAIN map <=> S(d) # {}
                       /\ d \in DOMAIN map => map[d] = [authorize |-> Change(members, d),
                                                       votes |-> Cardinality(S(d))]
  BY DEF Exact
<1>2. \A d, a : VotersIn(E \cup {v}, d, a) =
                   IF d = c /\ a = v.authorize THEN VotersIn(E, d, a) \cup {v.manager}
                                               ELSE VotersIn(E, d, a)
  BY VotersAdd, Zenon
<1>3. \A d \in Cands : d # c => T(d) = S(d)
  BY <1>2, Zenon
<1>4. v.manager \notin S(c) /\ T(c) = S(c) \cup {v.manager}
  <2>1. v.manager \notin S(c)
    BY VotersAdd, Zenon
  <2> QED
    BY <1>2, <2>1, Zenon
<1>5. IsFiniteSet(S(c)) /\ Cardinality(S(c)) \in Nat
  BY VotersFinite
<1>6. S(c) = {} => Cardinality(S(c)) = 0
  BY FS_EmptySet
<1>7. v.authorize \in BOOLEAN
  BY DEF Change
<1> HIDE DEF S, T
<1>8. Cardinality(T(c)) = Cardinality(S(c)) + 1 /\ T(c) # {}
  BY <1>4, <1>5, FS_AddElement
<1>9. /\ new = [d \in DOMAIN map \cup {c} |-> IF d = c THEN entry ELSE map[d]]
  <2>1. CASE c \in DOMAIN map
    <3>1. map[c] = [authorize |-> v.authorize, votes |-> Cardinality(S(c))]
      BY <1>1, <2>1, Zenon
    <3>2. [map[c] EXCEPT !.votes = @ + 1] = entry
      BY <1>8, <3>1
    <3> HIDE DEF entry
    <3> QED
      BY <2>1, <3>2 DEF cast, Put
  <2>2. CASE c \notin DOMAIN map
    <3>1. Cardinality(S(c)) = 0
      BY <1>1, <1>6, <2>2
    <3>2. [authorize |-> v.authorize, votes |-> 1] = entry
      BY <1>8, <3>1
    <3> HIDE DEF entry
    <3> QED
      BY <2>2, <3>2 DEF cast, Put
  <2> QED
    BY <2>1, <2>2
<1>10. entry \in Tally
  BY <1>5, <1>7, <1>8 DEF Tally
<1>11. /\ DOMAIN new = DOMAIN map \cup {c} /\ new[c] = entry
       /\ \A d \in DOMAIN map : d # c => new[d] = map[d]
  <2> HIDE DEF entry
  <2> QED
    BY <1>9
<1>12. RealMap(new)
  <2> HIDE DEF entry
  <2> QED
    BY <1>9, <1>10 DEF RealMap
<1> HIDE DEF new
<1>13. \A d \in Cands : /\ d \in DOMAIN new <=> T(d) # {}
                        /\ d \in DOMAIN new => new[d] = [authorize |-> Change(members, d),
                                                        votes |-> Cardinality(T(d))]
  <2> TAKE d \in Cands
  <2>1. CASE d = c
    <3>1. new[d] = [authorize |-> Change(members, d), votes |-> Cardinality(T(d))]
      BY <1>11, <2>1, Zenon
    <3> QED
      BY <1>8, <1>11, <2>1, <3>1
  <2>2. CASE d # c
    BY <1>1, <1>3, <1>11, <2>2
  <2> QED
    BY <2>1, <2>2
<1> QED
  BY <1>12, <1>13 DEF Exact, T, new

\* A candidate that joins takes its tally along; what votes stay about it are
\* not votes to remove it.
LEMMA JoinFacts ==
    ASSUME NEW map, RealMap(map), NEW members, NEW E, Exact(map, members, E), Fresh(members, E),
           NEW c, c \notin members
    PROVE  /\ RealMap(Drop(map, c))
           /\ Exact(Drop(map, c), members \cup {c}, E) /\ Fresh(members \cup {c}, E)
<1> DEFINE new == Drop(map, c)
           all == members \cup {c}
<1>1. /\ new = [d \in DOMAIN map \ {c} |-> map[d]]
      /\ DOMAIN new = DOMAIN map \ {c} /\ \A d \in DOMAIN new : new[d] = map[d]
  BY DEF Drop
<1>2. RealMap(new)
  BY <1>1 DEF RealMap
<1>3. Fresh(all, E)
  BY DEF Fresh
<1>4. ASSUME NEW d \in Cands, d # c
      PROVE  /\ d \in DOMAIN new <=> VotersIn(E, d, Change(all, d)) # {}
             /\ d \in DOMAIN new =>
                   new[d] = [authorize |-> Change(all, d),
                             votes |-> Cardinality(VotersIn(E, d, Change(all, d)))]
  <2>1. Change(all, d) = Change(members, d)
    BY <1>4 DEF Change
  <2>2. d \in DOMAIN new <=> d \in DOMAIN map
    BY <1>1, <1>4
  <2> QED
    BY <1>1, <2>1, <2>2, Zenon DEF Exact
<1>5. c \notin DOMAIN new /\ VotersIn(E, c, Change(all, c)) = {}
  BY <1>1 DEF Fresh, VotersIn, Change
<1>6. Exact(new, all, E)
  BY <1>4, <1>5, Zenon DEF Exact
<1> QED
  BY <1>2, <1>3, <1>6

\* A candidate that leaves takes all votes about it along.
LEMMA LeaveFacts ==
    ASSUME NEW map, RealMap(map), NEW members, NEW E, Exact(map, members, E), Fresh(members, E),
           NEW c
    PROVE  LET rest == {w \in E : w.candidate # c}
           IN /\ RealMap(Drop(map, c))
              /\ Exact(Drop(map, c), members \ {c}, rest) /\ Fresh(members \ {c}, rest)
<1> DEFINE new == Drop(map, c)
           others == members \ {c}
           rest == {w \in E : w.candidate # c}
<1>1. /\ new = [d \in DOMAIN map \ {c} |-> map[d]]
      /\ DOMAIN new = DOMAIN map \ {c} /\ \A d \in DOMAIN new : new[d] = map[d]
  BY DEF Drop
<1>2. RealMap(new)
  BY <1>1 DEF RealMap
<1>3. Fresh(others, rest)
  BY DEF Fresh
<1>4. ASSUME NEW d \in Cands, d # c
      PROVE  /\ d \in DOMAIN new <=> VotersIn(rest, d, Change(others, d)) # {}
             /\ d \in DOMAIN new =>
                   new[d] = [authorize |-> Change(others, d),
                             votes |-> Cardinality(VotersIn(rest, d, Change(others, d)))]
  <2>1. Change(others, d) = Change(members, d)
    BY <1>4 DEF Change
  <2>2. d \in DOMAIN new <=> d \in DOMAIN map
    BY <1>1, <1>4
  <2>3. \A a : VotersIn(rest, d, a) = VotersIn(E, d, a)
    BY <1>4 DEF VotersIn
  <2> HIDE DEF rest
  <2> QED
    BY <1>1, <2>1, <2>2, <2>3, Zenon DEF Exact
<1>5. c \notin DOMAIN new /\ VotersIn(rest, c, Change(others, c)) = {}
  BY <1>1 DEF VotersIn
<1> HIDE DEF rest
<1>6. Exact(new, others, rest)
  BY <1>4, <1>5, Zenon DEF Exact
<1> QED
  BY <1>2, <1>3, <1>6 DEF rest

-----------------------------------------------------------------------------
(* One side of the count. *)

Side(members, votes, tally) == [members |-> members, votes |-> votes, tally |-> tally]

IsRecord(side) == side = Side(side.members, side.votes, side.tally)

\* A side with members of G and candidates, and votes of V.
Typed(side, G, V) ==
    /\ IsRecord(side) /\ IsSide(side, G, V)
    /\ side.tally = NilMap \/ RealMap(side.tally)

\* Tally, members and votes belong together.
Counted(side) ==
    /\ OneEach(side.votes)
    /\ Fresh(side.members, Elems(side.votes))
    /\ Exact(Entries(side.tally), side.members, Elems(side.votes))

LEMMA RealNotNil == ASSUME NEW map, RealMap(map) PROVE map # NilMap /\ Entries(map) = map
BY VotesAssumption DEF RealMap, Entries, Cands

LEMMA EmptyIsReal == RealMap(EmptyMap) /\ DOMAIN EmptyMap = {}
BY DEF RealMap, EmptyMap

LEMMA EntriesReal ==
    ASSUME NEW side, NEW G, NEW V, Typed(side, G, V)
    PROVE  RealMap(Entries(side.tally)) /\ IsMap(Entries(side.tally), Candidates(V))
BY EmptyIsReal, RealNotNil DEF Typed, IsSide, Entries

LEMMA SideFields ==
    ASSUME NEW members, NEW votes, NEW tally
    PROVE  LET side == Side(members, votes, tally)
           IN /\ side.members = members /\ side.votes = votes /\ side.tally = tally
              /\ IsRecord(side)
BY DEF Side, IsRecord

LEMMA FieldExcept ==
    ASSUME NEW side, IsRecord(side), NEW x
    PROVE  /\ [side EXCEPT !.members = x] = Side(x, side.votes, side.tally)
           /\ [side EXCEPT !.votes = x] = Side(side.members, x, side.tally)
           /\ [side EXCEPT !.tally = x] = Side(side.members, side.votes, x)
<1>1. [side EXCEPT !.members = x] = Side(x, side.votes, side.tally)
  BY DEF IsRecord, Side
<1>2. [side EXCEPT !.votes = x] = Side(side.members, x, side.tally)
  BY DEF IsRecord, Side
<1>3. [side EXCEPT !.tally = x] = Side(side.members, side.votes, x)
  BY DEF IsRecord, Side
<1> QED
  BY <1>1, <1>2, <1>3

LEMMA VotesTallyExcept ==
    ASSUME NEW side, IsRecord(side), NEW l, NEW t
    PROVE  [side EXCEPT !.votes = l, !.tally = t] = Side(side.members, l, t)
<1>1. PICK a : a = [side EXCEPT !.votes = l]
  OBVIOUS
<1>2. a = Side(side.members, l, side.tally)
  BY <1>1, FieldExcept, Zenon
<1>3. [a EXCEPT !.tally = t] = Side(side.members, l, t)
  BY <1>2 DEF Side
<1> QED
  BY <1>1, <1>3, Zenon

LEMMA MembersTallyExcept ==
    ASSUME NEW side, IsRecord(side), NEW m, NEW t
    PROVE  [side EXCEPT !.members = m, !.tally = t] = Side(m, side.votes, t)
<1>1. PICK a : a = [side EXCEPT !.members = m]
  OBVIOUS
<1>2. a = Side(m, side.votes, side.tally)
  BY <1>1, FieldExcept, Zenon
<1>3. [a EXCEPT !.tally = t] = Side(m, side.votes, t)
  BY <1>2 DEF Side
<1> QED
  BY <1>1, <1>3, Zenon

\* The operations on a side, field by field.
LEMMA SideForms ==
    ASSUME NEW side, IsRecord(side), NEW v, NEW c
    PROVE  /\ retract(side, v) =
                 Side(side.members, side.votes,
                      IF earlier(side, v) = 0 \/ side.tally = NilMap THEN side.tally
                      ELSE uncast(side.tally, v.candidate,
                                  side.votes[earlier(side, v)].authorize))
           /\ add(side, v) =
                 IF checkVote(side, v.candidate, v.authorize)
                 THEN Side(side.members, Append(side.votes, v),
                           cast(side.tally, v.candidate, v.authorize))
                 ELSE side
           /\ settle(side, c) =
                 IF ~passes(side, c) THEN side
                 ELSE IF side.tally[c].authorize
                      THEN Side(side.members \cup {c}, side.votes, Drop(side.tally, c))
                      ELSE Side(side.members \ {c}, discard(side.votes, c), Drop(side.tally, c))
<1>1. /\ retract(side, v) =
            Side(side.members, side.votes,
                 IF earlier(side, v) = 0 \/ side.tally = NilMap THEN side.tally
                 ELSE uncast(side.tally, v.candidate,
                             side.votes[earlier(side, v)].authorize))
  <2>1. CASE earlier(side, v) = 0 \/ side.tally = NilMap
    BY <2>1 DEF retract, IsRecord
  <2>2. CASE ~(earlier(side, v) = 0 \/ side.tally = NilMap)
    <3> DEFINE t == uncast(side.tally, v.candidate, side.votes[earlier(side, v)].authorize)
    <3>1. retract(side, v) = [side EXCEPT !.tally = t]
      BY <2>2 DEF retract
    <3> HIDE DEF t
    <3>2. [side EXCEPT !.tally = t] = Side(side.members, side.votes, t)
      BY FieldExcept, Zenon
    <3> QED
      BY <2>2, <3>1, <3>2 DEF t
  <2> QED
    BY <2>1, <2>2
<1>2. add(side, v) =
         IF checkVote(side, v.candidate, v.authorize)
         THEN Side(side.members, Append(side.votes, v),
                   cast(side.tally, v.candidate, v.authorize))
         ELSE side
  <2> DEFINE l == Append(side.votes, v)
             t == cast(side.tally, v.candidate, v.authorize)
  <2>1. add(side, v) = IF checkVote(side, v.candidate, v.authorize)
                       THEN [side EXCEPT !.votes = l, !.tally = t] ELSE side
    BY DEF add
  <2> HIDE DEF l, t
  <2>2. [side EXCEPT !.votes = l, !.tally = t] = Side(side.members, l, t)
    BY VotesTallyExcept
  <2> QED
    BY <2>1, <2>2 DEF l, t
<1>3. settle(side, c) =
         IF ~passes(side, c) THEN side
         ELSE IF side.tally[c].authorize
              THEN Side(side.members \cup {c}, side.votes, Drop(side.tally, c))
              ELSE Side(side.members \ {c}, discard(side.votes, c), Drop(side.tally, c))
  <2> DEFINE more == side.members \cup {c}
             less == side.members \ {c}
             l == discard(side.votes, c)
             t == Drop(side.tally, c)
  <2>1. settle(side, c) =
           IF ~passes(side, c) THEN side
           ELSE IF side.tally[c].authorize THEN [side EXCEPT !.members = more, !.tally = t]
                ELSE [side EXCEPT !.members = less, !.tally = t, !.votes = l]
    BY DEF settle, AddValidator, RemoveValidator
  <2> HIDE DEF more, less, l, t
  <2>2. [side EXCEPT !.members = more, !.tally = t] = Side(more, side.votes, t)
    BY MembersTallyExcept
  <2>3. [side EXCEPT !.members = less, !.tally = t, !.votes = l] = Side(less, l, t)
    <3>1. PICK a : a = [side EXCEPT !.members = less, !.tally = t]
      OBVIOUS
    <3>2. a = Side(less, side.votes, t)
      BY <3>1, MembersTallyExcept
    <3>3. [a EXCEPT !.votes = l] = Side(less, l, t)
      BY <3>2 DEF Side
    <3> QED
      BY <3>1, <3>3, Zenon
  <2> QED
    BY <2>1, <2>2, <2>3 DEF more, less, l, t
<1> QED
  BY <1>1, <1>2, <1>3

\* The tally operations keep the types of a map.
LEMMA MapOperations ==
    ASSUME NEW map, RealMap(map), NEW cs, cs \subseteq Cands, IsMap(map, cs),
           NEW c \in cs, NEW a \in BOOLEAN
    PROVE  /\ RealMap(uncast(map, c, a)) /\ IsMap(uncast(map, c, a), cs)
           /\ RealMap(cast(map, c, a)) /\ IsMap(cast(map, c, a), cs)
           /\ RealMap(Drop(map, c)) /\ IsMap(Drop(map, c), cs)
<1>1. ASSUME NEW t \in Tally
      PROVE  RealMap(Put(map, c, t)) /\ IsMap(Put(map, c, t), cs)
  BY DEF Put, RealMap, IsMap
<1>2. RealMap(Drop(map, c)) /\ IsMap(Drop(map, c), cs)
  BY DEF Drop, RealMap, IsMap
<1>3. c \in DOMAIN map => map[c] \in Tally
  BY DEF IsMap
<1>4. RealMap(cast(map, c, a)) /\ IsMap(cast(map, c, a), cs)
  <2>1. [authorize |-> a, votes |-> 1] \in Tally
    BY DEF Tally
  <2>2. c \in DOMAIN map => [map[c] EXCEPT !.votes = @ + 1] \in Tally
    BY <1>3 DEF Tally
  <2> QED
    BY <1>1, <2>1, <2>2 DEF cast
<1>5. RealMap(uncast(map, c, a)) /\ IsMap(uncast(map, c, a), cs)
  <2>1. c \in DOMAIN map /\ map[c].votes > 1 => [map[c] EXCEPT !.votes = @ - 1] \in Tally
    BY <1>3 DEF Tally
  <2> QED
    BY <1>1, <1>2, <2>1 DEF uncast
<1> QED
  BY <1>2, <1>4, <1>5

\* The side without the earlier vote, in tally and votes.
Kept(side, v) ==
    IF earlier(side, v) = 0 THEN retract(side, v)
    ELSE [retract(side, v) EXCEPT !.votes = Seqs!RemoveAt(@, earlier(side, v))]

LEMMA VotesAreVotes ==
    ASSUME NEW V, V \subseteq MVotes \cup VVotes, NEW v \in V
    PROVE  /\ v.candidate \in Candidates(V) /\ v.candidate \in Cands
           /\ Candidates(V) \subseteq Cands
           /\ v.authorize \in BOOLEAN /\ v # NoVote
BY VotesAssumption DEF Candidates, Cands

LEMMA CheckIsChange ==
    ASSUME NEW side, NEW v, v.authorize \in BOOLEAN
    PROVE  checkVote(side, v.candidate, v.authorize)
              <=> v.authorize = Change(side.members, v.candidate)
BY DEF checkVote, Change

LEMMA RetractTyped ==
    ASSUME NEW side, NEW G, NEW V, V \subseteq MVotes \cup VVotes, Typed(side, G, V), NEW v \in V
    PROVE  LET new == retract(side, v)
           IN /\ Typed(new, G, V) /\ new.members = side.members /\ new.votes = side.votes
              /\ new.tally = NilMap <=> side.tally = NilMap
<1> DEFINE i == earlier(side, v)
           t == IF i = 0 \/ side.tally = NilMap THEN side.tally
                ELSE uncast(side.tally, v.candidate, side.votes[i].authorize)
           new == retract(side, v)
<1>1. new = Side(side.members, side.votes, t)
  BY SideForms DEF Typed
<1>2. side.votes \in Seq(V) /\ side.members \subseteq G \cup Candidates(V)
  BY DEF Typed, IsSide
<1>3. i # 0 => side.votes[i].authorize \in BOOLEAN
  <2>1. i # 0 => i \in 1 .. Len(side.votes)
    BY <1>2, EarlierFacts
  <2>2. i # 0 => side.votes[i] \in V
    BY <1>2, <2>1
  <2> QED
    BY <2>2, VotesAreVotes
<1>4. /\ t = NilMap \/ RealMap(t)
      /\ t = NilMap <=> side.tally = NilMap
      /\ IsMap(Entries(t), Candidates(V))
  <2>1. CASE i = 0 \/ side.tally = NilMap
    <3>1. t = side.tally
      BY <2>1
    <3> HIDE DEF t
    <3> QED
      BY <3>1, EntriesReal DEF Typed
  <2>2. CASE i # 0 /\ side.tally # NilMap
    <3>1. RealMap(side.tally) /\ Entries(side.tally) = side.tally
      BY <2>2, RealNotNil DEF Typed
    <3>2. RealMap(t) /\ IsMap(t, Candidates(V))
      BY <1>3, <2>2, <3>1, EntriesReal, MapOperations, VotesAreVotes
    <3>3. t # NilMap /\ Entries(t) = t
      BY <3>2, RealNotNil
    <3> QED
      BY <2>2, <3>2, <3>3
  <2> QED
    BY <2>1, <2>2
<1> HIDE DEF t, new
<1>5. new.members = side.members /\ new.votes = side.votes /\ new.tally = t /\ IsRecord(new)
  BY <1>1, SideFields
<1> QED
  BY <1>2, <1>4, <1>5 DEF Typed, IsSide, new

LEMMA KeptTyped ==
    ASSUME NEW side, NEW G, NEW V, V \subseteq MVotes \cup VVotes, Typed(side, G, V),
           OneEach(side.votes), NEW v \in V
    PROVE  LET new == Kept(side, v)
           IN /\ Typed(new, G, V) /\ OneEach(new.votes) /\ new.members = side.members
              /\ new.tally = retract(side, v).tally
              /\ new.tally = NilMap <=> side.tally = NilMap
              /\ Elems(new.votes) = {w \in Elems(side.votes) : ~Same(w, v)}
<1> DEFINE i == earlier(side, v)
           out == retract(side, v)
           new == Kept(side, v)
<1>1. /\ Typed(out, G, V) /\ out.members = side.members /\ out.votes = side.votes
      /\ out.tally = NilMap <=> side.tally = NilMap
  BY RetractTyped
<1>2. side.votes \in Seq(V) /\ DOMAIN side.votes = 1 .. Len(side.votes)
  BY DEF Typed, IsSide
<1>3. /\ i = 0 => \A w \in Elems(side.votes) : ~Same(w, v)
      /\ i # 0 => i \in 1 .. Len(side.votes) /\ Same(side.votes[i], v)
  BY <1>2, EarlierFacts
<1>4. CASE i = 0
  <2>1. new = out
    BY <1>4 DEF Kept
  <2>2. Elems(side.votes) = {w \in Elems(side.votes) : ~Same(w, v)}
    BY <1>3, <1>4
  <2> HIDE DEF out, new, i
  <2> QED
    BY <1>1, <2>1, <2>2 DEF out, new
<1>5. CASE i # 0
  <2> DEFINE l == Seqs!RemoveAt(side.votes, i)
  <2>1. l \in Seq(V) /\ OneEach(l) /\ Elems(l) = Elems(side.votes) \ {side.votes[i]}
    BY <1>2, <1>3, <1>5, RemoveFacts
  <2>2. new = Side(out.members, l, out.tally)
    <3>1. new = [out EXCEPT !.votes = l]
      BY <1>1, <1>5 DEF Kept
    <3> HIDE DEF new, out, l
    <3>2. IsRecord(out)
      BY <1>1 DEF Typed
    <3> QED
      BY <3>1, <3>2, FieldExcept, Zenon
  <2>3. Elems(side.votes) \ {side.votes[i]} = {w \in Elems(side.votes) : ~Same(w, v)}
    <3>1. ASSUME NEW w \in Elems(side.votes), Same(w, v) PROVE w = side.votes[i]
      <4>1. PICK j \in DOMAIN side.votes : w = side.votes[j]
        BY DEF Elems
      <4>2. Same(side.votes[j], side.votes[i])
        BY <1>3, <1>5, <3>1, <4>1 DEF Same
      <4> QED
        BY <1>2, <1>3, <1>5, <4>1, <4>2 DEF OneEach
    <3> QED
      BY <1>3, <1>5, <3>1
  <2> HIDE DEF l, new, out
  <2>4. new.members = out.members /\ new.votes = l /\ new.tally = out.tally /\ IsRecord(new)
    BY <2>2, SideFields
  <2>5. Typed(new, G, V)
    BY <1>1, <2>1, <2>4 DEF Typed, IsSide
  <2> QED
    BY <1>1, <2>1, <2>3, <2>4, <2>5 DEF new, out
<1> QED
  BY <1>4, <1>5

LEMMA AddTyped ==
    ASSUME NEW side, NEW G, NEW V, V \subseteq MVotes \cup VVotes, Typed(side, G, V), NEW v \in V,
           ~writesNil(side, v)
    PROVE  LET new == add(side, v)
           IN /\ Typed(new, G, V) /\ new.members = side.members
              /\ OneEach(side.votes) /\ (\A w \in Elems(side.votes) : ~Same(w, v))
                    => OneEach(new.votes)
<1>1. CASE ~checkVote(side, v.candidate, v.authorize)
  BY <1>1 DEF add
<1>2. CASE checkVote(side, v.candidate, v.authorize)
  <2> DEFINE l == Append(side.votes, v)
             t == cast(side.tally, v.candidate, v.authorize)
             new == add(side, v)
  <2>1. new = Side(side.members, l, t)
    BY <1>2, SideForms DEF Typed
  <2>2. l \in Seq(V) /\ (OneEach(side.votes) /\ (\A w \in Elems(side.votes) : ~Same(w, v))
                            => OneEach(l))
    BY AppendFacts DEF Typed, IsSide
  <2>3. RealMap(side.tally) /\ Entries(side.tally) = side.tally
    BY <1>2, RealNotNil DEF Typed, writesNil
  <2>4. RealMap(t) /\ IsMap(t, Candidates(V))
    BY <2>3, EntriesReal, MapOperations, VotesAreVotes
  <2>5. Entries(t) = t
    BY <2>4, RealNotNil
  <2> HIDE DEF l, t, new
  <2>6. new.members = side.members /\ new.votes = l /\ new.tally = t /\ IsRecord(new)
    BY <2>1, SideFields
  <2>7. Typed(new, G, V)
    BY <2>2, <2>4, <2>5, <2>6 DEF Typed, IsSide
  <2> QED
    BY <2>2, <2>6, <2>7 DEF new
<1> QED
  BY <1>1, <1>2

\* A candidate passes only with a tally that is a real map.
LEMMA PassedReal ==
    ASSUME NEW side, NEW G, NEW V, Typed(side, G, V), NEW c, passes(side, c)
    PROVE  /\ RealMap(side.tally) /\ Entries(side.tally) = side.tally
           /\ c \in DOMAIN side.tally
           /\ side.tally[c].votes > Cardinality(side.members) \div 2
<1>1. c \in DOMAIN Entries(side.tally)
  BY DEF passes
<1>2. side.tally # NilMap
  BY <1>1, EmptyIsReal DEF Entries
<1>3. RealMap(side.tally) /\ Entries(side.tally) = side.tally
  BY <1>2, RealNotNil DEF Typed
<1> QED
  BY <1>3 DEF passes

LEMMA SettleTyped ==
    ASSUME NEW side, NEW G, NEW V, V \subseteq MVotes \cup VVotes, Typed(side, G, V),
           NEW c \in Candidates(V)
    PROVE  LET new == settle(side, c)
           IN Typed(new, G, V) /\ (OneEach(side.votes) => OneEach(new.votes))
<1> DEFINE new == settle(side, c)
<1>1. CASE ~passes(side, c)
  BY <1>1 DEF settle
<1>2. CASE passes(side, c)
  <2> DEFINE t == Drop(side.tally, c)
             m == IF side.tally[c].authorize THEN side.members \cup {c} ELSE side.members \ {c}
             l == IF side.tally[c].authorize THEN side.votes ELSE discard(side.votes, c)
  <2>1. new = Side(m, l, t)
    BY <1>2, SideForms DEF Typed
  <2>2. l \in Seq(V) /\ (OneEach(side.votes) => OneEach(l))
    BY DiscardFacts DEF Typed, IsSide
  <2>3. Candidates(V) \subseteq Cands
    BY DEF Candidates, Cands
  <2>4. RealMap(t) /\ IsMap(t, Candidates(V))
    BY <1>2, <2>3, EntriesReal, PassedReal, MapOperations
  <2>5. Entries(t) = t
    BY <2>4, RealNotNil
  <2>6. m \subseteq G \cup Candidates(V)
    BY DEF Typed, IsSide
  <2> HIDE DEF l, t, m, new
  <2>7. new.members = m /\ new.votes = l /\ new.tally = t /\ IsRecord(new)
    BY <2>1, SideFields
  <2>8. Typed(new, G, V)
    BY <2>2, <2>4, <2>5, <2>6, <2>7 DEF Typed, IsSide
  <2> QED
    BY <2>2, <2>7, <2>8 DEF new
<1> QED
  BY <1>1, <1>2

\* Taking the earlier vote away keeps tally and votes together.
LEMMA KeptCounted ==
    ASSUME NEW side, NEW G, NEW V, V \subseteq MVotes \cup VVotes, Typed(side, G, V),
           Counted(side), NEW v \in V
    PROVE  /\ Counted(Kept(side, v))
           /\ \A a : VotersIn(Elems(Kept(side, v).votes), v.candidate, a)
                       = VotersIn(Elems(side.votes), v.candidate, a) \ {v.manager}
<1> DEFINE i == earlier(side, v)
           u == side.votes[i]
           E == Elems(side.votes)
           new == Kept(side, v)
           map == Entries(side.tally)
<1>1. /\ Typed(new, G, V) /\ OneEach(new.votes) /\ new.members = side.members
      /\ new.tally = retract(side, v).tally
      /\ Elems(new.votes) = {w \in E : ~Same(w, v)}
  BY KeptTyped DEF Counted
<1>2. Fresh(new.members, Elems(new.votes))
  BY <1>1 DEF Counted, Fresh
<1>3. \A a : VotersIn(Elems(new.votes), v.candidate, a) = VotersIn(E, v.candidate, a) \ {v.manager}
  BY <1>1 DEF VotersIn, Same
<1>4. side.votes \in Seq(V) /\ IsFiniteSet(E) /\ E \subseteq V
  BY ElemsFinite DEF Typed, IsSide
<1>5. /\ i = 0 => \A w \in E : ~Same(w, v)
      /\ i # 0 => i \in 1 .. Len(side.votes) /\ Same(u, v)
  BY <1>4, EarlierFacts
<1>6. retract(side, v).tally = IF i = 0 \/ side.tally = NilMap THEN side.tally
                               ELSE uncast(side.tally, v.candidate, u.authorize)
  <2> DEFINE t == IF i = 0 \/ side.tally = NilMap THEN side.tally
                  ELSE uncast(side.tally, v.candidate, u.authorize)
  <2>1. retract(side, v) = Side(side.members, side.votes, t)
    BY SideForms DEF Typed
  <2> HIDE DEF t
  <2>2. retract(side, v).tally = t
    BY <2>1, SideFields
  <2> QED
    BY <2>2 DEF t
<1>7. Exact(Entries(new.tally), new.members, Elems(new.votes))
  <2>1. CASE i = 0
    <3>1. Elems(new.votes) = E
      BY <1>1, <1>5, <2>1
    <3>2. new.tally = side.tally
      BY <1>1, <1>6, <2>1
    <3> QED
      BY <1>1, <3>1, <3>2 DEF Counted
  <2>2. CASE i # 0
    <3>1. u \in E /\ u \in V /\ \A w \in E : Same(w, v) => w = u
      <4>1. DOMAIN side.votes = 1 .. Len(side.votes)
        BY <1>4
      <4>2. u \in E
        BY <1>5, <2>2, <4>1 DEF Elems
      <4>3. ASSUME NEW w \in E, Same(w, v) PROVE w = u
        <5>1. PICK j \in DOMAIN side.votes : w = side.votes[j]
          BY DEF Elems
        <5>2. Same(side.votes[j], side.votes[i])
          BY <1>5, <2>2, <4>3, <5>1 DEF Same
        <5> QED
          BY <1>5, <2>2, <4>1, <5>1, <5>2 DEF OneEach, Counted
      <4> QED
        BY <1>4, <4>2, <4>3
    <3>2. u.candidate = v.candidate /\ (\A w \in E : Same(w, u) => w = u)
      BY <1>5, <2>2, <3>1 DEF Same
    <3>3. Elems(new.votes) = E \ {u}
      BY <1>1, <1>5, <2>2, <3>1
    <3>4. RealMap(map) /\ Exact(map, side.members, E)
      BY EntriesReal DEF Counted
    <3>5. u.candidate \in Cands /\ u.authorize \in BOOLEAN
      BY <3>1, VotesAreVotes
    <3> HIDE DEF u, E, map
    <3>6. /\ RealMap(uncast(map, u.candidate, u.authorize))
          /\ Exact(uncast(map, u.candidate, u.authorize), side.members, E \ {u})
      BY <1>4, <3>1, <3>2, <3>4, <3>5, UncastFacts
    <3>7. Entries(new.tally) = uncast(map, u.candidate, u.authorize)
      <4>1. CASE side.tally = NilMap
        <5>1. map = EmptyMap /\ Entries(new.tally) = EmptyMap
          BY <1>1, <1>6, <4>1 DEF map, Entries
        <5>2. uncast(EmptyMap, u.candidate, u.authorize) = EmptyMap
          BY EmptyIsReal DEF uncast
        <5> QED
          BY <5>1, <5>2
      <4>2. CASE side.tally # NilMap
        <5>1. map = side.tally
          BY <4>2 DEF map, Entries
        <5>2. new.tally = uncast(map, u.candidate, u.authorize)
          BY <1>1, <1>6, <2>2, <3>2, <4>2, <5>1
        <5> QED
          BY <3>6, <5>2, RealNotNil
      <4> QED
        BY <4>1, <4>2
    <3> QED
      BY <1>1, <3>3, <3>6, <3>7
  <2> QED
    BY <2>1, <2>2
<1> QED
  BY <1>1, <1>2, <1>3, <1>7 DEF Counted

\* A first vote of a manager about a candidate is counted.
LEMMA AddCounted ==
    ASSUME NEW side, NEW G, NEW V, V \subseteq MVotes \cup VVotes, Typed(side, G, V),
           Counted(side), NEW v \in V, ~writesNil(side, v),
           \A w \in Elems(side.votes) : ~Same(w, v)
    PROVE  /\ Counted(add(side, v))
           /\ VotersIn(Elems(add(side, v).votes), v.candidate, Change(side.members, v.candidate))
               = VotersIn(Elems(side.votes), v.candidate, Change(side.members, v.candidate))
                    \cup (IF v.authorize = Change(side.members, v.candidate) THEN {v.manager} ELSE {})
<1> DEFINE E == Elems(side.votes)
           c == v.candidate
           new == add(side, v)
<1>1. Typed(new, G, V) /\ new.members = side.members /\ OneEach(new.votes)
  BY AddTyped DEF Counted
<1>2. c \in Cands /\ v.authorize \in BOOLEAN
  BY VotesAreVotes
<1>3. CASE ~checkVote(side, c, v.authorize)
  <2>1. new = side /\ v.authorize # Change(side.members, c)
    BY <1>2, <1>3, CheckIsChange DEF add
  <2> QED
    BY <2>1
<1>4. CASE checkVote(side, c, v.authorize)
  <2>1. v.authorize = Change(side.members, c)
    BY <1>2, <1>4, CheckIsChange
  <2>2. new.votes = Append(side.votes, v) /\ new.tally = cast(side.tally, c, v.authorize)
    <3> DEFINE l == Append(side.votes, v)
               t == cast(side.tally, c, v.authorize)
    <3>1. new = Side(side.members, l, t)
      BY <1>4, SideForms DEF Typed
    <3> HIDE DEF l, t, new
    <3>2. new.votes = l /\ new.tally = t
      BY <3>1, SideFields
    <3> QED
      BY <3>2 DEF l, t
  <2>3. Elems(new.votes) = E \cup {v}
    BY <2>2, AppendFacts DEF Typed, IsSide
  <2>4. IsFiniteSet(E)
    BY ElemsFinite DEF Typed, IsSide
  <2>5. RealMap(side.tally) /\ Entries(side.tally) = side.tally
    BY <1>4, RealNotNil DEF Typed, writesNil
  <2>6. Exact(side.tally, side.members, E)
    BY <2>5 DEF Counted
  <2> HIDE DEF E, c, new
  <2>7. /\ RealMap(cast(side.tally, c, v.authorize))
        /\ Exact(cast(side.tally, c, v.authorize), side.members, E \cup {v})
    BY <1>2, <2>1, <2>4, <2>5, <2>6, CastFacts DEF E, c
  <2>8. Exact(Entries(new.tally), new.members, Elems(new.votes))
    BY <1>1, <2>2, <2>3, <2>7, RealNotNil
  <2>9. Fresh(new.members, Elems(new.votes))
    <3>1. Fresh(side.members, E)
      BY DEF Counted, E
    <3>2. c \notin side.members => v.authorize = TRUE
      BY <2>1 DEF Change
    <3> QED
      BY <1>1, <2>3, <3>1, <3>2 DEF Fresh, c
  <2>10. VotersIn(E \cup {v}, c, v.authorize) = VotersIn(E, c, v.authorize) \cup {v.manager}
    BY VotersAdd DEF E, c
  <2>11. Counted(new)
    BY <1>1, <2>8, <2>9 DEF Counted
  <2>12. VotersIn(Elems(new.votes), c, Change(side.members, c))
           = VotersIn(E, c, Change(side.members, c)) \cup {v.manager}
    BY <2>1, <2>3, <2>10, Zenon
  <2> QED
    BY <2>1, <2>11, <2>12 DEF E, c, new
<1> QED
  BY <1>3, <1>4

\* A majority for the one change that is possible settles it.
LEMMA SettleCounted ==
    ASSUME NEW side, NEW G, NEW V, V \subseteq MVotes \cup VVotes, Typed(side, G, V),
           Counted(side), NEW c \in Candidates(V)
    PROVE  LET new == settle(side, c)
               S == VotersIn(Elems(side.votes), c, Change(side.members, c))
           IN /\ Counted(new)
              /\ new.members # side.members =>
                    /\ new.members = IF c \notin side.members THEN side.members \cup {c}
                                                             ELSE side.members \ {c}
                    /\ Cardinality(S) > Cardinality(side.members) \div 2
<1> DEFINE new == settle(side, c)
           E == Elems(side.votes)
           S == VotersIn(E, c, Change(side.members, c))
<1>1. CASE ~passes(side, c)
  BY <1>1 DEF settle
<1>2. CASE passes(side, c)
  <2>1. /\ RealMap(side.tally) /\ Entries(side.tally) = side.tally /\ c \in DOMAIN side.tally
        /\ side.tally[c].votes > Cardinality(side.members) \div 2
    BY <1>2, PassedReal
  <2>2. c \in Cands
    BY DEF Candidates, Cands
  <2>3. Exact(side.tally, side.members, E) /\ Fresh(side.members, E) /\ OneEach(side.votes)
    BY <2>1 DEF Counted
  <2>4. side.tally[c] = [authorize |-> Change(side.members, c), votes |-> Cardinality(S)]
    BY <2>1, <2>2, <2>3, Zenon DEF Exact
  <2> HIDE DEF S
  <2>5. side.tally[c].authorize = (c \notin side.members) /\ side.tally[c].votes = Cardinality(S)
    BY <2>4 DEF Change
  <2>6. Typed(new, G, V) /\ OneEach(new.votes)
    BY <2>3, SettleTyped
  <2>7. RealMap(Drop(side.tally, c)) /\ Entries(Drop(side.tally, c)) = Drop(side.tally, c)
    BY <2>1, <2>2, <2>3, RealNotNil, LeaveFacts
  <2>8. CASE c \notin side.members
    <3>1. new = Side(side.members \cup {c}, side.votes, Drop(side.tally, c))
      BY <1>2, <2>5, <2>8, SideForms DEF Typed
    <3> HIDE DEF new
    <3>2. /\ new.members = side.members \cup {c} /\ new.votes = side.votes
          /\ new.tally = Drop(side.tally, c)
      BY <3>1, SideFields
    <3>3. /\ Exact(Drop(side.tally, c), side.members \cup {c}, E)
          /\ Fresh(side.members \cup {c}, E)
      BY <2>1, <2>3, <2>8, JoinFacts
    <3>4. Counted(new)
      BY <2>6, <2>7, <3>2, <3>3 DEF Counted
    <3> QED
      BY <2>1, <2>5, <2>8, <3>2, <3>4 DEF new, S
  <2>9. CASE c \in side.members
    <3>1. new = Side(side.members \ {c}, discard(side.votes, c), Drop(side.tally, c))
      BY <1>2, <2>5, <2>9, SideForms DEF Typed
    <3>2. Elems(discard(side.votes, c)) = {w \in E : w.candidate # c}
      BY DiscardFacts DEF Typed, IsSide
    <3> HIDE DEF new
    <3>3. /\ new.members = side.members \ {c} /\ new.votes = discard(side.votes, c)
          /\ new.tally = Drop(side.tally, c)
      BY <3>1, SideFields
    <3>4. /\ Exact(Drop(side.tally, c), side.members \ {c}, {w \in E : w.candidate # c})
          /\ Fresh(side.members \ {c}, {w \in E : w.candidate # c})
      BY <2>1, <2>3, LeaveFacts
    <3>5. Counted(new)
      BY <2>6, <2>7, <3>2, <3>3, <3>4 DEF Counted
    <3> QED
      BY <2>1, <2>5, <2>9, <3>3, <3>5 DEF new, S
  <2> QED
    BY <2>8, <2>9
<1> QED
  BY <1>1, <1>2

\* A vote on a count in order, from the retraction to the verdict.
LEMMA AppliedCounted ==
    ASSUME NEW side, NEW G, NEW V, V \subseteq MVotes \cup VVotes, Typed(side, G, V),
           Counted(side), NEW v \in V, ~writesNil(side, v)
    PROVE  LET new == settle(add(Kept(side, v), v), v.candidate)
           IN Counted(new) /\ MajorityChange(side, new, v)
<1> DEFINE kept == Kept(side, v)
           more == add(kept, v)
           c == v.candidate
           new == settle(more, c)
           change == Change(side.members, c)
           others == VotersIn(Elems(side.votes), c, change) \ {v.manager}
           voters == IF v.authorize = change THEN others \cup {v.manager} ELSE others
<1>1. /\ Typed(kept, G, V) /\ kept.members = side.members
      /\ kept.tally = NilMap <=> side.tally = NilMap
      /\ \A w \in Elems(kept.votes) : ~Same(w, v)
  BY KeptTyped DEF Counted
<1>2. Counted(kept) /\ VotersIn(Elems(kept.votes), c, change) = others
  BY KeptCounted
<1>3. ~writesNil(kept, v)
  BY <1>1 DEF writesNil, checkVote
<1> HIDE DEF kept, others
<1>4. Typed(more, G, V) /\ more.members = side.members
  BY <1>1, <1>3, AddTyped
<1>5. Counted(more) /\ VotersIn(Elems(more.votes), c, change) = voters
  <2>1. /\ Counted(more)
        /\ VotersIn(Elems(more.votes), c, Change(kept.members, c))
             = VotersIn(Elems(kept.votes), c, Change(kept.members, c))
                  \cup (IF v.authorize = Change(kept.members, c) THEN {v.manager} ELSE {})
    BY <1>1, <1>2, <1>3, AddCounted
  <2>2. VotersIn(Elems(more.votes), c, change)
           = others \cup (IF v.authorize = change THEN {v.manager} ELSE {})
    BY <1>1, <1>2, <2>1
  <2> HIDE DEF change, more
  <2> QED
    BY <2>1, <2>2
<1> HIDE DEF more
<1>6. c \in Candidates(V) /\ v # NoVote
  BY VotesAreVotes
<1>7. /\ Counted(new)
      /\ new.members # more.members =>
            /\ new.members = IF c \notin more.members THEN more.members \cup {c}
                                                     ELSE more.members \ {c}
            /\ Cardinality(VotersIn(Elems(more.votes), c, Change(more.members, c)))
                  > Cardinality(more.members) \div 2
  BY <1>4, <1>5, <1>6, SettleCounted
<1> HIDE DEF new
<1>8. new.members # side.members =>
         /\ new.members = IF c \notin side.members THEN side.members \cup {c}
                                                  ELSE side.members \ {c}
         /\ Cardinality(voters) > Cardinality(side.members) \div 2
  BY <1>4, <1>5, <1>7
<1>9. MajorityChange(side, new, v)
  <2>1. \A a : Voters(side, c, a) = VotersIn(Elems(side.votes), c, a)
    BY DEF Voters, Indices, VotersIn, Elems
  <2>2. Voters(side, c, c \notin side.members) \ {v.manager} = others
    BY <2>1 DEF others, Change
  <2>3. voters = IF v.authorize = (c \notin side.members) THEN others \cup {v.manager} ELSE others
    BY DEF Change
  <2> HIDE DEF voters
  <2> QED
    BY <1>6, <1>8, <2>2, <2>3 DEF MajorityChange
<1> QED
  BY <1>7, <1>9 DEF new, more, kept

-----------------------------------------------------------------------------
(* Both sides. *)

Pair(m, v) == [m |-> m, v |-> v]

\* The types of a voteSnapshot, and one vote each on the managers' side, which
\* no operation of either side undoes.
Sound(x) ==
    /\ x = Pair(x.m, x.v)
    /\ Typed(x.m, GenesisManagers, MVotes) /\ OneEach(x.m.votes)
    /\ Typed(x.v, GenesisValidators, VVotes)

LEMMA PairFields ==
    ASSUME NEW m, NEW v
    PROVE  LET x == Pair(m, v) IN x.m = m /\ x.v = v /\ x = Pair(x.m, x.v)
BY DEF Pair

LEMMA PairExcept ==
    ASSUME NEW x, x = Pair(x.m, x.v), NEW y
    PROVE  [x EXCEPT !.m = y] = Pair(y, x.v) /\ [x EXCEPT !.v = y] = Pair(x.m, y)
<1>1. [x EXCEPT !.m = y] = Pair(y, x.v)
  BY DEF Pair
<1>2. [x EXCEPT !.v = y] = Pair(x.m, y)
  BY DEF Pair
<1> QED
  BY <1>1, <1>2

LEMMA ApplyM ==
    ASSUME NEW x, Sound(x), NEW v \in MVotes \cup {NoVote}, ~mPanics(x, v)
    PROVE  LET y == applyMVotes(x, v)
           IN /\ Sound(y) /\ y.v = x.v
              /\ Counted(x.m) => Counted(y.m) /\ MajorityChange(x.m, y.m, v)
<1> DEFINE y == applyMVotes(x, v)
<1>1. CASE v = NoVote
  <2>1. y = x
    BY <1>1 DEF applyMVotes
  <2> QED
    BY <2>1 DEF MajorityChange
<1>2. CASE v # NoVote
  <2> DEFINE new == settle(add(Kept(x.m, v), v), v.candidate)
  <2>1. v \in MVotes /\ ~writesNil(x.m, v)
    BY <1>2 DEF mPanics
  <2>2. y = [x EXCEPT !.m = new]
    BY <1>2 DEF applyMVotes, Kept
  <2>3. Typed(new, GenesisManagers, MVotes) /\ OneEach(new.votes)
    <3> DEFINE kept == Kept(x.m, v)
    <3>1. /\ Typed(kept, GenesisManagers, MVotes) /\ OneEach(kept.votes)
          /\ kept.members = x.m.members
          /\ kept.tally = NilMap <=> x.m.tally = NilMap
          /\ \A w \in Elems(kept.votes) : ~Same(w, v)
      BY <2>1, KeptTyped DEF Sound
    <3>2. ~writesNil(kept, v)
      BY <2>1, <3>1 DEF writesNil, checkVote
    <3> HIDE DEF kept
    <3>3. Typed(add(kept, v), GenesisManagers, MVotes) /\ OneEach(add(kept, v).votes)
      BY <2>1, <3>1, <3>2, AddTyped
    <3>4. v.candidate \in Candidates(MVotes)
      BY <2>1 DEF Candidates
    <3> QED
      BY <3>3, <3>4, SettleTyped DEF kept
  <2>4. Counted(x.m) => Counted(new) /\ MajorityChange(x.m, new, v)
    BY <2>1, AppliedCounted DEF Sound
  <2> HIDE DEF new, y
  <2>5. y = Pair(new, x.v)
    BY <2>2, PairExcept, Zenon DEF Sound
  <2>6. y.m = new /\ y.v = x.v /\ y = Pair(y.m, y.v)
    BY <2>5, PairFields
  <2> QED
    BY <2>3, <2>4, <2>6 DEF Sound, y
<1> QED
  BY <1>1, <1>2

LEMMA ApplyV ==
    ASSUME NEW x, Sound(x), NEW v \in VVotes \cup {NoVote}, ~vPanics(x, v)
    PROVE  LET y == applyVVotes(x, v)
           IN /\ Sound(y) /\ y.m.members = x.m.members
              /\ v = NoVote \/ earlier(x.v, v) = 0 =>
                    /\ y.m = x.m
                    /\ Counted(x.v) => Counted(y.v) /\ MajorityChange(x.v, y.v, v)
<1> DEFINE y == applyVVotes(x, v)
<1>1. CASE v = NoVote
  <2>1. y = x
    BY <1>1 DEF applyVVotes
  <2> QED
    BY <2>1 DEF MajorityChange
<1>2. CASE v # NoVote
  <2> DEFINE i == earlier(x.v, v)
             out == retract(x.v, v)
             new == settle(add(out, v), v.candidate)
             l == IF i = 0 THEN x.m.votes ELSE Seqs!RemoveAt(x.m.votes, i)
  <2>1. v \in VVotes /\ ~(i > Len(x.m.votes)) /\ ~writesNil(x.v, v)
    BY <1>2 DEF vPanics
  <2>2. y = [x EXCEPT !.m.votes = l, !.v = new]
    BY <1>2 DEF applyVVotes
  <2>3. Typed(new, GenesisValidators, VVotes)
    <3>1. /\ Typed(out, GenesisValidators, VVotes) /\ out.members = x.v.members
          /\ out.tally = NilMap <=> x.v.tally = NilMap
      BY <2>1, RetractTyped DEF Sound
    <3>2. ~writesNil(out, v)
      BY <2>1, <3>1 DEF writesNil, checkVote
    <3> HIDE DEF out
    <3>3. Typed(add(out, v), GenesisValidators, VVotes)
      BY <2>1, <3>1, <3>2, AddTyped
    <3>4. v.candidate \in Candidates(VVotes)
      BY <2>1 DEF Candidates
    <3> QED
      BY <3>3, <3>4, SettleTyped DEF out
  <2>4. i = 0 => (Counted(x.v) => Counted(new) /\ MajorityChange(x.v, new, v))
    <3>1. i = 0 => new = settle(add(Kept(x.v, v), v), v.candidate)
      BY DEF Kept
    <3> HIDE DEF new, i
    <3> QED
      BY <2>1, <3>1, AppliedCounted DEF Sound
  <2>5. l \in Seq(MVotes) /\ OneEach(l)
    <3>1. x.m.votes \in Seq(MVotes) /\ x.v.votes \in Seq(VVotes) /\ OneEach(x.m.votes)
      BY DEF Sound, Typed, IsSide
    <3>2. i # 0 => i \in 1 .. Len(x.v.votes)
      BY <3>1, EarlierFacts
    <3>3. i # 0 => i \in 1 .. Len(x.m.votes)
      BY <2>1, <3>1, <3>2
    <3> QED
      BY <3>1, <3>3, RemoveFacts
  <2> DEFINE m == Side(x.m.members, l, x.m.tally)
  <2> HIDE DEF new, y, l
  <2>6. y = Pair(m, new)
    <3>1. PICK k : k = x.m
      OBVIOUS
    <3>2. IsRecord(k)
      BY <3>1 DEF Sound, Typed
    <3>3. [k EXCEPT !.votes = l] = Side(k.members, l, k.tally)
      BY <3>2, FieldExcept, Zenon
    <3>4. PICK z : z = [x EXCEPT !.m = [k EXCEPT !.votes = l]]
      OBVIOUS
    <3>5. z = Pair(m, x.v)
      <4>1. [k EXCEPT !.votes = l] = m
        BY <3>1, <3>3, Zenon
      <4> HIDE DEF m
      <4>2. [x EXCEPT !.m = m] = Pair(m, x.v)
        BY PairExcept, Zenon DEF Sound
      <4> QED
        BY <3>4, <4>1, <4>2, Zenon
    <3> HIDE DEF m
    <3>6. [z EXCEPT !.v = new] = Pair(m, new)
      BY <3>5 DEF Pair
    <3>7. y = [z EXCEPT !.v = new]
      BY <2>2, <3>1, <3>4
    <3> QED
      BY <3>6, <3>7
  <2>7. y.m = m /\ y.v = new /\ y = Pair(y.m, y.v)
    BY <2>6, PairFields
  <2>8. m.members = x.m.members /\ m.votes = l /\ m.tally = x.m.tally /\ IsRecord(m)
    BY SideFields
  <2>9. i = 0 => m = x.m
    BY DEF l, Sound, Typed, IsRecord
  <2> HIDE DEF m, i
  <2>10. Typed(m, GenesisManagers, MVotes)
    BY <2>5, <2>8 DEF Sound, Typed, IsSide
  <2> QED
    BY <1>2, <2>3, <2>4, <2>5, <2>7, <2>8, <2>9, <2>10 DEF Sound, y, i
<1> QED
  BY <1>1, <1>2

-----------------------------------------------------------------------------
(* The life of a count. *)

\* Until a repeated validator vote is misfiled, both sides are in order.
CountInv ==
    /\ Sound(vs)
    /\ crashed \in BOOLEAN /\ misfiled \in BOOLEAN
    /\ misfiled = FALSE => Counted(vs.m) /\ Counted(vs.v)

\* Nil and empty tallies are exact for a side without votes.
LEMMA NewSide ==
    ASSUME NEW members, NEW G, NEW V, members \subseteq G \cup Candidates(V),
           NEW t \in {NilMap, EmptyMap}
    PROVE  /\ Typed(Side(members, <<>>, t), G, V)
           /\ Counted(Side(members, <<>>, t))
<1> DEFINE new == Side(members, <<>>, t)
<1>1. new.members = members /\ new.votes = <<>> /\ new.tally = t /\ IsRecord(new)
  BY SideFields
<1>2. Entries(t) = EmptyMap /\ RealMap(EmptyMap) /\ DOMAIN EmptyMap = {}
  BY EmptyIsReal, RealNotNil DEF Entries
<1> HIDE DEF new
<1>3. Typed(new, G, V)
  <2>1. <<>> \in Seq(V) /\ IsMap(EmptyMap, Candidates(V))
    BY <1>2 DEF IsMap
  <2> QED
    BY <1>1, <1>2, <2>1 DEF Typed, IsSide
<1>4. Elems(<<>>) = {} /\ OneEach(<<>>)
  BY DEF Elems, OneEach
<1>5. \A c, a : VotersIn({}, c, a) = {}
  BY DEF VotersIn
<1>6. Exact(EmptyMap, members, {}) /\ Fresh(members, {})
  BY <1>2, <1>5 DEF Exact, Fresh
<1>7. Counted(new)
  BY <1>1, <1>2, <1>4, <1>6 DEF Counted
<1> QED
  BY <1>3, <1>7 DEF new

\* Only the tally of a side changes, and not what it says.
LEMMA SameEntries ==
    ASSUME NEW side, NEW G, NEW V, Typed(side, G, V), NEW t, t = NilMap \/ RealMap(t),
           Entries(t) = Entries(side.tally)
    PROVE  LET new == Side(side.members, side.votes, t)
           IN /\ Typed(new, G, V) /\ new.members = side.members /\ new.votes = side.votes
              /\ Counted(side) => Counted(new)
<1> DEFINE new == Side(side.members, side.votes, t)
<1>1. new.members = side.members /\ new.votes = side.votes /\ new.tally = t /\ IsRecord(new)
  BY SideFields
<1> HIDE DEF new
<1> QED
  BY <1>1 DEF Typed, IsSide, Counted, new

LEMMA CountInit == Init => CountInv
<1> SUFFICES ASSUME Init PROVE CountInv
  OBVIOUS
<1> DEFINE m == Side(GenesisManagers, <<>>, NilMap)
           v == Side(GenesisValidators, <<>>, NilMap)
<1>1. vs = Pair(m, v) /\ crashed = FALSE /\ misfiled = FALSE
  BY DEF Init, newVoteSnapshot, Pair, Side
<1>2. Typed(m, GenesisManagers, MVotes) /\ Counted(m)
  BY NewSide
<1>3. Typed(v, GenesisValidators, VVotes) /\ Counted(v)
  BY NewSide
<1> HIDE DEF m, v
<1>4. vs.m = m /\ vs.v = v /\ vs = Pair(vs.m, vs.v)
  BY <1>1, PairFields
<1> QED
  BY <1>1, <1>2, <1>3, <1>4 DEF CountInv, Sound, Counted

\* Both votes of a header.
LEMMA HeaderStep ==
    ASSUME CountInv, NEW mVote \in MVotes \cup {NoVote}, NEW vVote \in VVotes \cup {NoVote},
           ApplyHeader(mVote, vVote)
    PROVE  /\ CountInv'
           /\ misfiled' = FALSE =>
                 MajorityChange(vs.m, vs'.m, mVote) /\ MajorityChange(vs.v, vs'.v, vVote)
<1> DEFINE data == [mVote |-> mVote, vVote |-> vVote]
           y == applyMVotes(vs, mVote)
           z == applyVVotes(y, vVote)
<1>1. /\ crashed' = panics(vs, data)
      /\ vs' = IF crashed' THEN vs ELSE applyHeader(vs, data)
      /\ misfiled' = (misfiled \/ (vVote # NoVote /\ earlier(vs.v, vVote) # 0))
  BY DEF ApplyHeader
<1>2. data.mVote = mVote /\ data.vVote = vVote
  OBVIOUS
<1> HIDE DEF data
<1>3. misfiled' \in BOOLEAN /\ crashed' \in BOOLEAN
  BY <1>1 DEF panics, mPanics
<1>4. misfiled' = FALSE => misfiled = FALSE /\ (vVote = NoVote \/ earlier(vs.v, vVote) = 0)
  BY <1>1 DEF CountInv
<1>5. CASE crashed'
  <2>1. vs' = vs
    BY <1>1, <1>5
  <2> QED
    BY <1>3, <1>4, <2>1 DEF CountInv, MajorityChange
<1>6. CASE ~crashed'
  <2>1. ~mPanics(vs, mVote) /\ ~vPanics(y, vVote)
    BY <1>1, <1>2, <1>6 DEF panics
  <2>2. vs' = z
    BY <1>1, <1>2, <1>6 DEF applyHeader
  <2>3. /\ Sound(y) /\ y.v = vs.v
        /\ Counted(vs.m) => Counted(y.m) /\ MajorityChange(vs.m, y.m, mVote)
    BY <2>1, ApplyM DEF CountInv
  <2> HIDE DEF y
  <2>4. /\ Sound(z)
        /\ vVote = NoVote \/ earlier(y.v, vVote) = 0 =>
              /\ z.m = y.m
              /\ Counted(y.v) => Counted(z.v) /\ MajorityChange(y.v, z.v, vVote)
    BY <2>1, <2>3, ApplyV
  <2> HIDE DEF z
  <2> QED
    BY <1>3, <1>4, <2>2, <2>3, <2>4 DEF CountInv, Sound
<1> QED
  BY <1>5, <1>6

\* One field of one side replaced.
LEMMA NestedExcept ==
    ASSUME NEW x, x = Pair(x.m, x.v), IsRecord(x.m), IsRecord(x.v), NEW f
    PROVE  /\ [x EXCEPT !.m.votes = f] = Pair(Side(x.m.members, f, x.m.tally), x.v)
           /\ [x EXCEPT !.m.tally = f] = Pair(Side(x.m.members, x.m.votes, f), x.v)
           /\ [x EXCEPT !.v.votes = f] = Pair(x.m, Side(x.v.members, f, x.v.tally))
           /\ [x EXCEPT !.v.tally = f] = Pair(x.m, Side(x.v.members, x.v.votes, f))
<1>1. PICK k, l : k = x.m /\ l = x.v
  OBVIOUS
<1>2. /\ [k EXCEPT !.votes = f] = Side(k.members, f, k.tally)
      /\ [k EXCEPT !.tally = f] = Side(k.members, k.votes, f)
      /\ [l EXCEPT !.votes = f] = Side(l.members, f, l.tally)
      /\ [l EXCEPT !.tally = f] = Side(l.members, l.votes, f)
  BY <1>1, FieldExcept, Zenon
<1>3. \A y : [x EXCEPT !.m = y] = Pair(y, x.v) /\ [x EXCEPT !.v = y] = Pair(x.m, y)
  BY PairExcept, Zenon
<1>4. /\ [x EXCEPT !.m.votes = f] = [x EXCEPT !.m = [k EXCEPT !.votes = f]]
      /\ [x EXCEPT !.m.tally = f] = [x EXCEPT !.m = [k EXCEPT !.tally = f]]
      /\ [x EXCEPT !.v.votes = f] = [x EXCEPT !.v = [l EXCEPT !.votes = f]]
      /\ [x EXCEPT !.v.tally = f] = [x EXCEPT !.v = [l EXCEPT !.tally = f]]
  BY <1>1
<1> QED
  BY <1>1, <1>2, <1>3, <1>4, Zenon

\* The tallies of both sides replaced.
LEMMA TalliesExcept ==
    ASSUME NEW x, Sound(x), NEW s, NEW t
    PROVE  [x EXCEPT !.m.tally = s, !.v.tally = t] =
               Pair(Side(x.m.members, x.m.votes, s), Side(x.v.members, x.v.votes, t))
<1> DEFINE m == Side(x.m.members, x.m.votes, s)
<1>1. x = Pair(x.m, x.v) /\ IsRecord(x.m) /\ IsRecord(x.v)
  BY DEF Sound, Typed
<1>2. PICK y : y = [x EXCEPT !.m.tally = s]
  OBVIOUS
<1>3. y = Pair(m, x.v)
  BY <1>1, <1>2, NestedExcept, Zenon
<1>4. IsRecord(m)
  BY SideFields
<1> HIDE DEF m
<1>5. y.m = m /\ y.v = x.v /\ y = Pair(y.m, y.v)
  BY <1>3, PairFields
<1>6. IsRecord(y.m) /\ IsRecord(y.v)
  BY <1>1, <1>4, <1>5
<1>7. [y EXCEPT !.v.tally = t] = Pair(y.m, Side(y.v.members, y.v.votes, t))
  BY <1>5, <1>6, NestedExcept, Zenon
<1>8. [y EXCEPT !.v.tally = t] = Pair(m, Side(x.v.members, x.v.votes, t))
  BY <1>5, <1>7, Zenon
<1> QED
  BY <1>2, <1>8, Zenon DEF m

\* The votes and tallies of both sides replaced.
LEMMA SidesExcept ==
    ASSUME NEW x, Sound(x), NEW l, NEW e
    PROVE  [x EXCEPT !.m.votes = l, !.m.tally = e, !.v.votes = l, !.v.tally = e] =
               Pair(Side(x.m.members, l, e), Side(x.v.members, l, e))
<1> DEFINE m1 == Side(x.m.members, l, x.m.tally)
           m2 == Side(x.m.members, l, e)
           v1 == Side(x.v.members, l, x.v.tally)
<1>1. x = Pair(x.m, x.v) /\ IsRecord(x.m) /\ IsRecord(x.v)
  BY DEF Sound, Typed
<1>2. /\ IsRecord(m1) /\ m1.members = x.m.members /\ m1.votes = l
      /\ IsRecord(m2)
      /\ IsRecord(v1) /\ v1.members = x.v.members /\ v1.votes = l
  BY SideFields
<1>3. PICK y : y = [x EXCEPT !.m.votes = l]
  OBVIOUS
<1>4. y = Pair(m1, x.v)
  BY <1>1, <1>3, NestedExcept, Zenon
<1> HIDE DEF m1, m2, v1
<1>5. y.m = m1 /\ y.v = x.v /\ y = Pair(y.m, y.v)
  BY <1>4, PairFields
<1>6. PICK z : z = [y EXCEPT !.m.tally = e]
  OBVIOUS
<1>7. z = Pair(m2, x.v)
  <2>1. z = Pair(Side(y.m.members, y.m.votes, e), y.v)
    BY <1>1, <1>2, <1>5, <1>6, NestedExcept, Zenon
  <2> QED
    BY <1>2, <1>5, <2>1, Zenon DEF m2
<1>8. z.m = m2 /\ z.v = x.v /\ z = Pair(z.m, z.v)
  BY <1>7, PairFields
<1>9. PICK u : u = [z EXCEPT !.v.votes = l]
  OBVIOUS
<1>10. u = Pair(m2, v1)
  <2>1. u = Pair(z.m, Side(z.v.members, l, z.v.tally))
    BY <1>1, <1>2, <1>8, <1>9, NestedExcept, Zenon
  <2> QED
    BY <1>8, <2>1, Zenon DEF v1
<1>11. u.m = m2 /\ u.v = v1 /\ u = Pair(u.m, u.v)
  BY <1>10, PairFields
<1>12. [u EXCEPT !.v.tally = e] = Pair(u.m, Side(u.v.members, u.v.votes, e))
  BY <1>2, <1>11, NestedExcept, Zenon
<1>13. [u EXCEPT !.v.tally = e] = Pair(m2, Side(x.v.members, l, e))
  BY <1>2, <1>11, <1>12, Zenon
<1> QED
  BY <1>3, <1>6, <1>9, <1>13, Zenon DEF m2

LEMMA ResetForm ==
    ASSUME NEW x, Sound(x)
    PROVE  reset(x) = Pair(Side(x.m.members, <<>>, EmptyMap), Side(x.v.members, <<>>, EmptyMap))
<1>1. PICK l, e : l = <<>> /\ e = EmptyMap
  OBVIOUS
<1>2. reset(x) = [x EXCEPT !.m.votes = l, !.m.tally = e, !.v.votes = l, !.v.tally = e]
  BY <1>1, Zenon DEF reset
<1>3. reset(x) = Pair(Side(x.m.members, l, e), Side(x.v.members, l, e))
  BY <1>2, SidesExcept, Zenon
<1> QED
  BY <1>1, <1>3, Zenon

LEMMA ResetStep ==
    ASSUME CountInv, Reset
    PROVE  CountInv' /\ vs'.m.members = vs.m.members /\ vs'.v.members = vs.v.members
<1> DEFINE m == Side(vs.m.members, <<>>, EmptyMap)
           v == Side(vs.v.members, <<>>, EmptyMap)
<1>1. vs' = Pair(m, v) /\ misfiled' = FALSE /\ crashed' = crashed
  BY ResetForm DEF Reset, CountInv
<1>2. /\ vs.m.members \subseteq GenesisManagers \cup Candidates(MVotes)
      /\ vs.v.members \subseteq GenesisValidators \cup Candidates(VVotes)
  BY DEF CountInv, Sound, Typed, IsSide
<1>3. Typed(m, GenesisManagers, MVotes) /\ Counted(m)
  BY <1>2, NewSide
<1>4. Typed(v, GenesisValidators, VVotes) /\ Counted(v)
  BY <1>2, NewSide
<1>5. m.members = vs.m.members /\ v.members = vs.v.members
  BY SideFields
<1> HIDE DEF m, v
<1>6. vs'.m = m /\ vs'.v = v /\ vs' = Pair(vs'.m, vs'.v)
  BY <1>1, PairFields
<1> QED
  BY <1>1, <1>3, <1>4, <1>5, <1>6 DEF CountInv, Sound, Counted

\* Tallies that say the same keep everything in order.
LEMMA SameTallies ==
    ASSUME NEW x, Sound(x), NEW s, NEW t, s = NilMap \/ RealMap(s), t = NilMap \/ RealMap(t),
           Entries(s) = Entries(x.m.tally), Entries(t) = Entries(x.v.tally)
    PROVE  LET y == Pair(Side(x.m.members, x.m.votes, s), Side(x.v.members, x.v.votes, t))
           IN /\ Sound(y)
              /\ y.m.members = x.m.members /\ y.v.members = x.v.members
              /\ (Counted(x.m) => Counted(y.m)) /\ (Counted(x.v) => Counted(y.v))
<1> DEFINE m == Side(x.m.members, x.m.votes, s)
           v == Side(x.v.members, x.v.votes, t)
           y == Pair(m, v)
<1>1. /\ Typed(m, GenesisManagers, MVotes) /\ m.members = x.m.members
      /\ m.votes = x.m.votes /\ (Counted(x.m) => Counted(m))
  BY SameEntries DEF Sound
<1>2. /\ Typed(v, GenesisValidators, VVotes) /\ v.members = x.v.members
      /\ (Counted(x.v) => Counted(v))
  BY SameEntries DEF Sound
<1> HIDE DEF m, v
<1>3. y.m = m /\ y.v = v /\ y = Pair(y.m, y.v)
  BY PairFields
<1> HIDE DEF y
<1>4. Sound(y)
  BY <1>1, <1>2, <1>3 DEF Sound
<1> QED
  BY <1>1, <1>2, <1>3, <1>4 DEF y, m, v

LEMMA CopyStep ==
    ASSUME CountInv, Copy
    PROVE  CountInv' /\ vs'.m.members = vs.m.members /\ vs'.v.members = vs.v.members
<1> DEFINE s == Entries(vs.m.tally)
           t == Entries(vs.v.tally)
<1>1. Sound(vs)
  BY DEF CountInv
<1>2. RealMap(s) /\ RealMap(t)
  BY <1>1, EntriesReal DEF Sound
<1>3. Entries(s) = s /\ Entries(t) = t
  BY <1>2, RealNotNil
<1>4. crashed' = crashed /\ misfiled' = misfiled
  BY DEF Copy
<1>5. vs' = Pair(Side(vs.m.members, vs.m.votes, s), Side(vs.v.members, vs.v.votes, t))
  BY <1>1, TalliesExcept, Zenon DEF Copy, copy
<1> HIDE DEF s, t
<1>6. /\ Sound(vs')
      /\ vs'.m.members = vs.m.members /\ vs'.v.members = vs.v.members
      /\ (Counted(vs.m) => Counted(vs'.m)) /\ (Counted(vs.v) => Counted(vs'.v))
  <2> DEFINE y == Pair(Side(vs.m.members, vs.m.votes, s), Side(vs.v.members, vs.v.votes, t))
  <2>1. /\ Sound(y)
        /\ y.m.members = vs.m.members /\ y.v.members = vs.v.members
        /\ (Counted(vs.m) => Counted(y.m)) /\ (Counted(vs.v) => Counted(y.v))
    BY <1>1, <1>2, <1>3, SameTallies, Zenon DEF s, t
  <2> HIDE DEF y
  <2> QED
    BY <1>5, <2>1, Zenon DEF y
<1> QED
  BY <1>4, <1>6 DEF CountInv, Sound

LEMMA ReloadStep ==
    ASSUME CountInv, Reload
    PROVE  CountInv' /\ vs'.m.members = vs.m.members /\ vs'.v.members = vs.v.members
<1> DEFINE s == roundTrip(vs.m.tally)
           t == roundTrip(vs.v.tally)
<1>1. Sound(vs)
  BY DEF CountInv
<1>2. ASSUME NEW map, map = NilMap \/ RealMap(map)
      PROVE  /\ roundTrip(map) = NilMap \/ RealMap(roundTrip(map))
             /\ Entries(roundTrip(map)) = Entries(map)
  BY <1>2 DEF roundTrip, Entries
<1>3. /\ s = NilMap \/ RealMap(s)
      /\ t = NilMap \/ RealMap(t)
      /\ Entries(s) = Entries(vs.m.tally) /\ Entries(t) = Entries(vs.v.tally)
  BY <1>1, <1>2 DEF Sound, Typed
<1>4. crashed' = crashed /\ misfiled' = misfiled
  BY DEF Reload
<1>5. vs' = Pair(Side(vs.m.members, vs.m.votes, s), Side(vs.v.members, vs.v.votes, t))
  BY <1>1, TalliesExcept, Zenon DEF Reload, reload
<1> HIDE DEF s, t
<1>6. /\ Sound(vs')
      /\ vs'.m.members = vs.m.members /\ vs'.v.members = vs.v.members
      /\ (Counted(vs.m) => Counted(vs'.m)) /\ (Counted(vs.v) => Counted(vs'.v))
  <2> DEFINE y == Pair(Side(vs.m.members, vs.m.votes, s), Side(vs.v.members, vs.v.votes, t))
  <2>1. /\ Sound(y)
        /\ y.m.members = vs.m.members /\ y.v.members = vs.v.members
        /\ (Counted(vs.m) => Counted(y.m)) /\ (Counted(vs.v) => Counted(y.v))
    BY <1>1, <1>3, SameTallies, Zenon
  <2> HIDE DEF y
  <2> QED
    BY <1>5, <2>1, Zenon DEF y
<1> QED
  BY <1>4, <1>6 DEF CountInv, Sound

LEMMA CountStep == CountInv /\ [Next]_vars => CountInv'
<1> SUFFICES ASSUME CountInv, [Next]_vars PROVE CountInv'
  OBVIOUS
<1>1. ASSUME NEW mVote \in MVotes \cup {NoVote}, NEW vVote \in VVotes \cup {NoVote},
             ApplyHeader(mVote, vVote)
      PROVE  CountInv'
  BY <1>1, HeaderStep
<1>2. CASE Reset
  BY <1>2, ResetStep
<1>3. CASE Copy
  BY <1>3, CopyStep
<1>4. CASE Reload
  BY <1>4, ReloadStep
<1>5. CASE UNCHANGED vars
  BY <1>5 DEF CountInv, Sound, vars
<1> QED
  BY <1>1, <1>2, <1>3, <1>4, <1>5 DEF Next

LEMMA CountsAlways == Spec => []CountInv
<1>1. Init => CountInv
  BY CountInit
<1>2. CountInv /\ [Next]_vars => CountInv'
  BY CountStep
<1> QED
  BY <1>1, <1>2, PTL DEF Spec

-----------------------------------------------------------------------------
(* What follows for the count. *)

\* A side whose tally is exact for the set of its votes counts them.
LEMMA CountedCounts ==
    ASSUME NEW side, NEW G, NEW V, Typed(side, G, V), Counted(side)
    PROVE  TallyCounts(side)
<1> DEFINE map == Entries(side.tally)
           E == Elems(side.votes)
<1>1. \A c, a : Voters(side, c, a) = VotersIn(E, c, a)
  BY DEF Voters, Indices, VotersIn, Elems
<1>2. DOMAIN map \subseteq Cands
  BY EntriesReal DEF RealMap
<1>3. Exact(map, side.members, E)
  BY DEF Counted
<1> HIDE DEF map, E
<1>4. ASSUME NEW c \in Cands
      PROVE  /\ c \in DOMAIN map <=> Voters(side, c, c \notin side.members) # {}
             /\ c \in DOMAIN map =>
                   /\ map[c].authorize = (c \notin side.members)
                   /\ map[c].votes = Cardinality(Voters(side, c, c \notin side.members))
  <2> DEFINE S == VotersIn(E, c, Change(side.members, c))
  <2>1. PICK a, n : a = Change(side.members, c) /\ n = Cardinality(S)
    OBVIOUS
  <2>2. /\ c \in DOMAIN map <=> S # {}
        /\ c \in DOMAIN map => map[c] = [authorize |-> a, votes |-> n]
    BY <1>3, <2>1, Zenon DEF Exact
  <2>3. Voters(side, c, c \notin side.members) = S
    BY <1>1, Zenon DEF Change
  <2> HIDE DEF S
  <2>4. c \in DOMAIN map => map[c].authorize = a /\ map[c].votes = n
    BY <2>2
  <2>5. a = (c \notin side.members)
    BY <2>1, Zenon DEF Change
  <2> QED
    BY <2>1, <2>2, <2>3, <2>4, <2>5, Zenon
<1> QED
  BY <1>2, <1>4 DEF TallyCounts, Cands, map

\* Whatever headers, resets, copies and reloads come, both sides keep votes of
\* known managers and candidates, and every tally of a candidate is at least 1:
\* uncastM and uncastV delete a tally before it reaches 0.
THEOREM VoteSnapshotTyped == Spec => []TypeOK
<1>1. CountInv => TypeOK
  BY DEF CountInv, Sound, Typed, TypeOK
<1> QED
  BY <1>1, CountsAlways, PTL

\* A manager has at most one standing vote about a candidate in mVotes, also
\* after a validator vote was misfiled: applyMVotes takes the earlier vote out,
\* and nothing that applyVVotes removes can bring it back.
THEOREM ManagersVoteOnce == Spec => []OneManagerVoteEach
<1>1. CountInv => OneManagerVoteEach
  BY DEF CountInv, Sound, OneEach, Same, OneManagerVoteEach
<1> QED
  BY <1>1, CountsAlways, PTL

\* Until a validator vote is misfiled, mTally has for a candidate the number of
\* managers that want its membership changed, over replaced and retracted
\* votes, members that come and go, resets, copies and reloads.
THEOREM ManagerTalliesCount == Spec => []ManagerTallyCounts
<1>1. CountInv => ManagerTallyCounts
  BY CountedCounts DEF CountInv, Sound, ManagerTallyCounts
<1> QED
  BY <1>1, CountsAlways, PTL

\* Until then, vTally has the number of managers for or against a validator.
THEOREM ValidatorTalliesCount == Spec => []ValidatorTallyCounts
<1>1. CountInv => ValidatorTallyCounts
  BY CountedCounts DEF CountInv, Sound, ValidatorTallyCounts
<1> QED
  BY <1>1, CountsAlways, PTL

\* Until then, applyMVotes and applyVVotes change the members of their side for
\* the candidate of the header's vote only, and only with more managers behind
\* that change than half of the members; nothing else changes members.
THEOREM MembersChangeByMajority == Spec => ChangedByMajority
<1> DEFINE Step ==
        ~misfiled' /\ (vs'.m.members # vs.m.members \/ vs'.v.members # vs.v.members) =>
            \E mVote \in MVotes \cup {NoVote}, vVote \in VVotes \cup {NoVote} :
                /\ ApplyHeader(mVote, vVote)
                /\ MajorityChange(vs.m, vs'.m, mVote)
                /\ MajorityChange(vs.v, vs'.v, vVote)
<1>1. CountInv /\ [Next]_vars => [Step]_vars
  <2> SUFFICES ASSUME CountInv, Next, ~misfiled',
                      vs'.m.members # vs.m.members \/ vs'.v.members # vs.v.members
               PROVE  Step
    OBVIOUS
  <2>1. ~Reset /\ ~Copy /\ ~Reload
    BY ResetStep, CopyStep, ReloadStep
  <2>2. PICK mVote \in MVotes \cup {NoVote}, vVote \in VVotes \cup {NoVote} :
            ApplyHeader(mVote, vVote)
    BY <2>1 DEF Next
  <2>3. misfiled' = FALSE
    BY <2>2, HeaderStep DEF CountInv
  <2>4. MajorityChange(vs.m, vs'.m, mVote) /\ MajorityChange(vs.v, vs'.v, vVote)
    BY <2>2, <2>3, HeaderStep
  <2> QED
    BY <2>2, <2>4
<1> QED
  BY <1>1, CountsAlways, PTL DEF Spec, ChangedByMajority
=============================================================================
