-------------------------- MODULE VoteManagerProofs --------------------------
(***************************************************************************)
(* The votes between the API and the blocks, for any managers, candidates, *)
(* deadlines and length of the chain: what a prepared header carries, and  *)
(* what the pools forget.                                                  *)
(***************************************************************************)
EXTENDS VoteManager, TLAPS

-----------------------------------------------------------------------------
(* getVotes. *)

\* The chosen vote is one of the pool and usable, and only votes that are not
\* usable are deleted.
LEMMA GetVotesFacts ==
    ASSUME NEW side \in Sides, NEW height, NEW result \in getVotes(side, height)
    PROVE  /\ result[1] # NoVote =>
                 result[1] \in Pooled(side) /\ Usable(side, result[1], height)
           /\ \A c \in result[2] : c \in Pooled(side) /\ ~Usable(side, c, height)
<1> DEFINE usable == {c \in Pooled(side) : Usable(side, c, height)}
           dead == Pooled(side) \ usable
<1>1. CASE usable = {}
  <2>1. result = <<NoVote, dead>>
    BY <1>1 DEF getVotes
  <2> QED
    BY <2>1
<1>2. CASE usable # {}
  <2>1. result \in usable \X SUBSET dead
    BY <1>2 DEF getVotes
  <2> QED
    BY <2>1
<1> QED
  BY <1>1, <1>2

\* What Prepare does to the header and to the pools.
LEMMA PrepareFacts ==
    ASSUME TypeOK, Prepare
    PROVE  /\ head + 1 <= MaxHeight /\ members' = members /\ head' = head
           /\ header' = [height |-> head + 1, vote |-> header'.vote]
           /\ header'.vote = [side \in Sides |-> header'.vote[side]]
           /\ \A side \in Sides :
                 \/ header'.vote[side] = NoVote
                 \/ \E c \in Pooled(side) :
                       /\ Usable(side, c, head + 1)
                       /\ header'.vote[side] = [candidate |-> c, vote |-> pool[side][c]]
           /\ pool' = [side \in Sides |-> [c \in Candidates |-> pool'[side][c]]]
           /\ \A side \in Sides, c \in Candidates :
                 \/ pool'[side][c] = pool[side][c]
                 \/ pool'[side][c] = NoVote /\ ~Usable(side, c, head + 1)
<1> DEFINE height == head + 1
<1>1. PICK m \in getVotes("m", height), v \in getVotes("v", height) :
         LET result == [side \in Sides |-> IF side = "m" THEN m ELSE v]
         IN /\ header' = [height |-> height,
                          vote |-> [side \in Sides |-> ChosenVote(side, result[side][1])]]
            /\ pool' = [side \in Sides |->
                           [c \in Candidates |-> IF c \in result[side][2] THEN NoVote
                                                 ELSE pool[side][c]]]
  BY DEF Prepare
<1> DEFINE result == [side \in Sides |-> IF side = "m" THEN m ELSE v]
<1>2. \A side \in Sides : result[side] \in getVotes(side, height)
  BY DEF Sides
<1>3. /\ header' = [height |-> height,
                    vote |-> [side \in Sides |-> ChosenVote(side, result[side][1])]]
      /\ pool' = [side \in Sides |->
                     [c \in Candidates |-> IF c \in result[side][2] THEN NoVote
                                           ELSE pool[side][c]]]
  BY <1>1
<1>4. head + 1 <= MaxHeight /\ members' = members /\ head' = head
  BY DEF Prepare
<1> HIDE DEF result
<1>5. /\ header' = [height |-> head + 1, vote |-> header'.vote]
      /\ \A side \in Sides : header'.vote[side] = ChosenVote(side, result[side][1])
      /\ header'.vote = [side \in Sides |-> header'.vote[side]]
  BY <1>3
<1>6. ASSUME NEW side \in Sides
      PROVE  \/ header'.vote[side] = NoVote
             \/ \E c \in Pooled(side) :
                   /\ Usable(side, c, head + 1)
                   /\ header'.vote[side] = [candidate |-> c, vote |-> pool[side][c]]
  <2>1. CASE result[side][1] = NoVote
    BY <1>5, <2>1 DEF ChosenVote
  <2>2. CASE result[side][1] # NoVote
    <3>1. result[side][1] \in Pooled(side) /\ Usable(side, result[side][1], head + 1)
      BY <1>2, <2>2, GetVotesFacts
    <3>2. header'.vote[side] = [candidate |-> result[side][1], vote |-> pool[side][result[side][1]]]
      BY <1>5, <2>2 DEF ChosenVote
    <3> QED
      BY <3>1, <3>2
  <2> QED
    BY <2>1, <2>2
<1>7. ASSUME NEW side \in Sides, NEW c \in Candidates
      PROVE  \/ pool'[side][c] = pool[side][c]
             \/ pool'[side][c] = NoVote /\ ~Usable(side, c, head + 1)
  <2>1. pool'[side][c] = IF c \in result[side][2] THEN NoVote ELSE pool[side][c]
    BY <1>3
  <2>2. CASE c \in result[side][2]
    <3>1. ~Usable(side, c, head + 1)
      BY <1>2, <2>2, GetVotesFacts
    <3> QED
      BY <2>1, <2>2, <3>1
  <2>3. CASE c \notin result[side][2]
    BY <2>1, <2>3
  <2> QED
    BY <2>2, <2>3
<1>8. pool' = [side \in Sides |-> [c \in Candidates |-> pool'[side][c]]]
  BY <1>3
<1> QED
  BY <1>4, <1>5, <1>6, <1>7, <1>8

-----------------------------------------------------------------------------
(* Types. *)

LEMMA TypeInit == Init => TypeOK
<1> SUFFICES ASSUME Init PROVE TypeOK
  OBVIOUS
<1>1. pool \in [Sides -> [Candidates -> Vote \cup {NoVote}]]
  BY DEF Init
<1>2. members \in [Sides -> SUBSET (Managers \cup Candidates)]
  BY DEF Init
<1>3. head \in 0 .. MaxHeight /\ header.height \in 0 .. MaxHeight
  BY ManagerAssumption DEF Init, NoHeader
<1>4. header.vote \in [Sides -> [candidate : Candidates, vote : Vote] \cup {NoVote}]
  BY DEF Init, NoHeader
<1> QED
  BY <1>1, <1>2, <1>3, <1>4 DEF TypeOK

LEMMA TypeStep == TypeOK /\ [Next]_vars => TypeOK'
<1> SUFFICES ASSUME TypeOK, [Next]_vars PROVE TypeOK'
  OBVIOUS
<1>1. ASSUME NEW side \in Sides, NEW manager \in Managers, NEW c \in Candidates,
             NEW authorize \in BOOLEAN, NEW deadline \in Deadlines,
             Propose(side, manager, c, authorize, deadline)
      PROVE  TypeOK'
  <2> DEFINE vote == [manager |-> manager, authorize |-> authorize, deadline |-> deadline]
  <2>1. vote \in Vote
    BY DEF Vote
  <2>2. /\ pool' = [pool EXCEPT ![side][c] = vote]
        /\ members' = members /\ head' = head /\ header' = header
    BY <1>1 DEF Propose
  <2> HIDE DEF vote
  <2>3. pool' \in [Sides -> [Candidates -> Vote \cup {NoVote}]]
    BY <2>1, <2>2 DEF TypeOK
  <2> QED
    BY <2>2, <2>3 DEF TypeOK
<1>2. CASE Prepare
  <2>1. pool' \in [Sides -> [Candidates -> Vote \cup {NoVote}]]
    <3>1. \A side \in Sides, c \in Candidates : pool'[side][c] \in Vote \cup {NoVote}
      BY <1>2, PrepareFacts DEF TypeOK
    <3>2. pool' = [side \in Sides |-> [c \in Candidates |-> pool'[side][c]]]
      BY <1>2, PrepareFacts
    <3> QED
      BY <3>1, <3>2
  <2>2. header'.height \in 0 .. MaxHeight /\ head' \in 0 .. MaxHeight
    <3>1. header'.height = head + 1 /\ head + 1 <= MaxHeight /\ head' = head
      BY <1>2, PrepareFacts
    <3> QED
      BY <3>1, ManagerAssumption DEF TypeOK
  <2>3. header'.vote \in [Sides -> [candidate : Candidates, vote : Vote] \cup {NoVote}]
    <3>1. ASSUME NEW side \in Sides
          PROVE  header'.vote[side] \in [candidate : Candidates, vote : Vote] \cup {NoVote}
      <4> SUFFICES ASSUME NEW c \in Pooled(side),
                          header'.vote[side] = [candidate |-> c, vote |-> pool[side][c]]
                   PROVE  header'.vote[side] \in [candidate : Candidates, vote : Vote]
        BY <1>2, PrepareFacts
      <4>1. c \in Candidates /\ pool[side][c] \in Vote
        BY DEF Pooled, TypeOK
      <4> QED
        BY <4>1
    <3>2. header'.vote = [side \in Sides |-> header'.vote[side]]
      BY <1>2, PrepareFacts
    <3> QED
      BY <3>1, <3>2
  <2>4. members' = members
    BY <1>2 DEF Prepare
  <2> QED
    BY <2>1, <2>2, <2>3, <2>4 DEF TypeOK
<1>3. CASE Insert
  <2>1. members' \in [Sides -> SUBSET (Managers \cup Candidates)]
    BY <1>3 DEF Insert, TypeOK
  <2>2. head' \in 0 .. MaxHeight /\ pool' = pool /\ header' = header
    BY <1>3, ManagerAssumption DEF Insert, TypeOK
  <2> QED
    BY <2>1, <2>2 DEF TypeOK
<1>4. CASE UNCHANGED vars
  BY <1>4 DEF vars, TypeOK
<1> QED
  BY <1>1, <1>2, <1>3, <1>4 DEF Next

\* The pools hold votes of managers about candidates, and a header carries a
\* whole vote or none (getVotes, setMVote, setVVote).
THEOREM VoteManagerTyped == Spec => []TypeOK
BY TypeInit, TypeStep, PTL DEF Spec

-----------------------------------------------------------------------------
(* What a header carries. *)

\* A header is never prepared for a later block than the next one, so that it is
\* out of date, whatever its votes, as soon as the members may have changed.
HeaderInv ==
    /\ TypeOK
    /\ header.height <= head + 1
    /\ HeaderVotesLive

LEMMA HeaderInit == Init => HeaderInv
<1> SUFFICES ASSUME Init PROVE HeaderInv
  OBVIOUS
<1>1. header.height = 0 /\ head = 0 /\ \A side \in Sides : header.vote[side] = NoVote
  BY DEF Init, NoHeader
<1> QED
  BY <1>1, TypeInit DEF HeaderInv, HeaderVotesLive

\* The low bits of a number are at most the number.
LEMMA LowBits ==
    ASSUME NEW d \in Nat
    PROVE  Uint64(d) \in Nat /\ Uint64(d) <= d
<1>1. Word \in Nat /\ Word > 0
  BY ManagerAssumption
<1> QED
  BY <1>1 DEF Uint64

LEMMA HeaderStep == HeaderInv /\ [Next]_vars => HeaderInv'
<1> SUFFICES ASSUME HeaderInv, [Next]_vars PROVE HeaderInv'
  OBVIOUS
<1>0. TypeOK /\ TypeOK'
  BY TypeStep DEF HeaderInv
<1>1. CASE UNCHANGED <<members, head, header>>
  BY <1>0, <1>1 DEF HeaderInv, HeaderVotesLive
<1>2. CASE Prepare
  <2>1. header'.height = head + 1 /\ head' = head /\ members' = members
    BY <1>0, <1>2, PrepareFacts
  <2>2. ASSUME NEW side \in Sides, header'.vote[side] # NoVote
        PROVE  /\ header'.vote[side].vote.authorize #
                     (header'.vote[side].candidate \in members'[side])
               /\ header'.vote[side].vote.deadline > header'.height
    <3>1. PICK c \in Pooled(side) :
             /\ Usable(side, c, head + 1)
             /\ header'.vote[side] = [candidate |-> c, vote |-> pool[side][c]]
      BY <1>0, <1>2, <2>2, PrepareFacts
    <3>2. header'.vote[side].candidate = c /\ header'.vote[side].vote = pool[side][c]
      BY <3>1
    <3>3. /\ pool[side][c].authorize # (c \in members[side])
          /\ pool[side][c].deadline > head + 1
      <4>1. /\ pool[side][c].authorize # (c \in members[side])
            /\ Uint64(pool[side][c].deadline) > head + 1
        BY <3>1 DEF Usable, checkVote
      <4>2. pool[side][c].deadline \in Nat
        <5>1. pool[side][c] \in Vote \cup {NoVote} /\ pool[side][c] # NoVote
          BY <1>0 DEF TypeOK, Pooled
        <5> QED
          BY <5>1, ManagerAssumption DEF Vote
      <4>3. /\ Uint64(pool[side][c].deadline) <= pool[side][c].deadline
            /\ Uint64(pool[side][c].deadline) \in Nat
        BY <4>2, LowBits
      <4>4. head \in Nat
        BY <1>0, ManagerAssumption DEF TypeOK
      <4> QED
        BY <4>1, <4>2, <4>3, <4>4
    <3> QED
      BY <2>1, <3>2, <3>3
  <2>3. HeaderVotesLive'
    BY <2>2 DEF HeaderVotesLive
  <2>4. header'.height <= head' + 1
    BY <1>0, <2>1 DEF TypeOK
  <2> QED
    BY <1>0, <2>3, <2>4 DEF HeaderInv
<1>3. CASE Insert
  <2>1. head' = head + 1 /\ header' = header
    BY <1>3 DEF Insert
  <2>2. header'.height < head' + 1
    BY <1>0, <2>1, ManagerAssumption DEF HeaderInv, TypeOK
  <2>3. header'.height # head' + 1 /\ header'.height <= head' + 1
    BY <1>0, <2>2, ManagerAssumption DEF TypeOK
  <2> QED
    BY <1>0, <2>3 DEF HeaderInv, HeaderVotesLive
<1>4. ASSUME NEW side \in Sides, NEW manager \in Managers, NEW c \in Candidates,
             NEW authorize \in BOOLEAN, NEW deadline \in Deadlines,
             Propose(side, manager, c, authorize, deadline)
      PROVE  UNCHANGED <<members, head, header>>
  BY <1>4 DEF Propose
<1> QED
  BY <1>1, <1>2, <1>3, <1>4 DEF Next, vars

\* A header that can still become the next block carries only votes that would
\* change the members now and whose deadline is after the block, whatever the
\* API has put into the pools since and however often the chain has grown
\* (getVotes, Prepare).
THEOREM HeaderVotesAreLive == Spec => []HeaderVotesLive
<1>1. HeaderInv => HeaderVotesLive
  BY DEF HeaderInv
<1> QED
  BY <1>1, HeaderInit, HeaderStep, PTL DEF Spec

-----------------------------------------------------------------------------
(* What the pools forget. *)

\* The step that OnlyDeadVotesForgotten allows.
ForgetsOnlyDead ==
    \A side \in Sides, c \in Candidates :
        (pool[side][c] # NoVote /\ pool'[side][c] = NoVote) =>
            ~(/\ pool[side][c].authorize # (c \in members[side])
              /\ Uint64(pool[side][c].deadline) > head + 1)

LEMMA StepForgetsOnlyDead == TypeOK /\ [Next]_vars => [ForgetsOnlyDead]_vars
<1> SUFFICES ASSUME TypeOK, Next PROVE ForgetsOnlyDead
  OBVIOUS
<1>1. ASSUME NEW side \in Sides, NEW manager \in Managers, NEW c \in Candidates,
             NEW authorize \in BOOLEAN, NEW deadline \in Deadlines,
             Propose(side, manager, c, authorize, deadline)
      PROVE  ForgetsOnlyDead
  <2> DEFINE vote == [manager |-> manager, authorize |-> authorize, deadline |-> deadline]
  <2>1. vote # NoVote
    BY ManagerAssumption DEF Vote
  <2>2. pool' = [pool EXCEPT ![side][c] = vote]
    BY <1>1 DEF Propose
  <2> HIDE DEF vote
  <2>3. \A s \in Sides, d \in Candidates : pool'[s][d] \in {vote, pool[s][d]}
    BY <2>2 DEF TypeOK
  <2> QED
    BY <2>1, <2>3 DEF ForgetsOnlyDead
<1>2. CASE Prepare
  <2>1. \A side \in Sides, c \in Candidates :
           \/ pool'[side][c] = pool[side][c]
           \/ pool'[side][c] = NoVote /\ ~Usable(side, c, head + 1)
    BY <1>2, PrepareFacts
  <2> QED
    BY <2>1 DEF ForgetsOnlyDead, Usable, checkVote
<1>3. CASE Insert
  BY <1>3 DEF Insert, ForgetsOnlyDead
<1> QED
  BY <1>1, <1>2, <1>3 DEF Next

\* A vote leaves its pool without another in its place only when it is moot or
\* will be expired in the next block: neither a header that is prepared in vain
\* nor a change of members by others' blocks loses a live vote (getVotes).
THEOREM VotesForgottenOnlyDead == Spec => OnlyDeadVotesForgotten
<1>1. OnlyDeadVotesForgotten <=> [][ForgetsOnlyDead]_vars
  BY DEF OnlyDeadVotesForgotten, ForgetsOnlyDead
<1> QED
  BY <1>1, VoteManagerTyped, StepForgetsOnlyDead, PTL DEF Spec
=============================================================================
