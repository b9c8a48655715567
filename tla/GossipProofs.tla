---------------------------- MODULE GossipProofs ----------------------------
(***************************************************************************)
(* How a message spreads, for any number of validators, messages and lost  *)
(* sends: nobody handles it twice, and where it stopped spreading without  *)
(* having reached everybody, at least as many sends got lost as there are  *)
(* validators besides its signer.                                          *)
(***************************************************************************)
EXTENDS Gossip, FiniteSetTheorems, TLAPS

-----------------------------------------------------------------------------
(* The validator set. *)

LEMMA SizeFacts ==
    Size \in Nat /\ Size > 0 /\ DOMAIN ValList = 1 .. Size
BY ValListAssumption DEF Size

LEMMA ValidatorsCardinality ==
    IsFiniteSet(Validators) /\ Cardinality(Validators) = Size
<1>1. IsFiniteSet(1 .. Size) /\ Cardinality(1 .. Size) = Size
  BY SizeFacts, FS_Interval
<1> DEFINE f == [i \in 1 .. Size |-> ValList[i]]
<1>2. f \in Surjection(1 .. Size, Validators)
  BY SizeFacts DEF Surjection, Validators
<1>3. f \in Injection(1 .. Size, Validators)
  <2>1. f \in [1 .. Size -> Validators]
    BY SizeFacts DEF Validators
  <2>2. \A i, j \in 1 .. Size : f[i] = f[j] => i = j
    BY SizeFacts, ValListAssumption
  <2> QED BY <2>1, <2>2 DEF Injection, IsInjective
<1>4. f \in Bijection(1 .. Size, Validators)
  BY <1>2, <1>3 DEF Bijection
<1>5. ExistsBijection(1 .. Size, Validators)
  BY <1>4 DEF ExistsBijection
<1> QED BY <1>1, <1>5, FS_Bijection

LEMMA SubsetOfValidators ==
    ASSUME NEW Q \in SUBSET Validators
    PROVE  IsFiniteSet(Q) /\ Cardinality(Q) \in Nat /\ Cardinality(Q) <= Size
BY ValidatorsCardinality, FS_Subset, FS_CardinalityType

-----------------------------------------------------------------------------
(* The operators. *)

\* The packets that GossipPayload makes.
Out(n, m, known) ==
    {[src |-> n, dst |-> v, msg |-> m] : v \in {v \in Validators \ {n} : m \notin known[v]}}

\* The validators in to, and no others, come to be believed to know m.
LEMMA MarkFacts ==
    ASSUME NEW known \in [Validators -> SUBSET Messages], NEW m \in Messages, NEW to
    PROVE  /\ Mark(known, m, to) \in [Validators -> SUBSET Messages]
           /\ \A v \in Validators :
                 Mark(known, m, to)[v] = IF v \in to THEN known[v] \cup {m} ELSE known[v]
BY DEF Mark

LEMMA PacketsFinite ==
    ASSUME NEW m \in Messages
    PROVE  IsFiniteSet({p \in Packets : p.msg = m})
<1> DEFINE S == Validators \X Validators
           T == {p \in Packets : p.msg = m}
           f == [pair \in S |-> [src |-> pair[1], dst |-> pair[2], msg |-> m]]
<1>1. IsFiniteSet(S)
  BY ValidatorsCardinality, FS_Product
<1>2. f \in [S -> T]
  BY DEF Packets
<1>3. ASSUME NEW p \in T PROVE \E pair \in S : f[pair] = p
  <2>1. <<p.src, p.dst>> \in S
    BY DEF Packets
  <2>2. f[<<p.src, p.dst>>] = p
    BY <2>1 DEF Packets
  <2> QED
    BY <2>1, <2>2
<1>4. f \in Surjection(S, T)
  BY <1>2, <1>3 DEF Surjection
<1> HIDE DEF S, T, f
<1> QED
  <2>1. IsFiniteSet(T)
    BY <1>1, <1>4, FS_Surjection
  <2> QED
    BY <2>1 DEF T

LEMMA OutFacts ==
    ASSUME NEW n \in Validators, NEW m \in Messages,
           NEW known \in [Validators -> SUBSET Messages]
    PROVE  /\ Out(n, m, known) \subseteq Packets
           /\ \A p \in Packets :
                 p \in Out(n, m, known) <=>
                    p.src = n /\ p.msg = m /\ p.dst # n /\ m \notin known[p.dst]
           /\ IsFiniteSet(Out(n, m, known))
<1>4. Out(n, m, known) \subseteq Packets
  BY DEF Out, Packets
<1>5. ASSUME NEW p \in Packets
      PROVE  p \in Out(n, m, known) <=>
                p.src = n /\ p.msg = m /\ p.dst # n /\ m \notin known[p.dst]
  BY DEF Out, Packets
<1>6. IsFiniteSet(Out(n, m, known))
  <2>1. Out(n, m, known) \subseteq {p \in Packets : p.msg = m}
    BY <1>4, <1>5
  <2> QED
    BY <2>1, PacketsFinite, FS_Subset
<1> QED
  BY <1>4, <1>5, <1>6

\* What GossipPayload does: everybody else is marked, and every packet it makes
\* is in flight or counted as lost.
LEMMA PayloadFacts ==
    ASSUME TypeOK,
           NEW n \in Validators, NEW m \in Messages,
           NEW known \in [Validators -> SUBSET Messages],
           NEW inFlight \in SUBSET Packets,
           GossipPayload(n, m, known, inFlight)
    PROVE  /\ peersMessages' \in [Validators -> [Validators -> SUBSET Messages]]
           /\ \A k \in Validators \ {n} : peersMessages'[k] = peersMessages[k]
           /\ \A v \in Validators \ {n} : peersMessages'[n][v] = known[v] \cup {m}
           /\ peersMessages'[n][n] = known[n]
           /\ \E lost \in SUBSET Out(n, m, known) :
                 /\ IsFiniteSet(lost) /\ Cardinality(lost) \in Nat
                 /\ losses' = losses + Cardinality(lost)
                 /\ net' = inFlight \cup (Out(n, m, known) \ lost)
           /\ losses' \in 0 .. MaxLosses
           /\ net' \subseteq Packets
<1> DEFINE to == {v \in Validators \ {n} : m \notin known[v]}
<1>1. peersMessages' = [peersMessages EXCEPT ![n] = Mark(known, m, to)]
  BY DEF GossipPayload
<1>2. peersMessages'[n] = Mark(known, m, to)
  BY <1>1 DEF TypeOK
<1>m. /\ Mark(known, m, to) \in [Validators -> SUBSET Messages]
      /\ \A v \in Validators :
            Mark(known, m, to)[v] = IF v \in to THEN known[v] \cup {m} ELSE known[v]
  <2> HIDE DEF to
  <2> QED BY MarkFacts
<1>3. peersMessages' \in [Validators -> [Validators -> SUBSET Messages]]
  BY <1>1, <1>m DEF TypeOK
<1>4. \A k \in Validators \ {n} : peersMessages'[k] = peersMessages[k]
  BY <1>1 DEF TypeOK
<1>5. /\ \A v \in Validators \ {n} : peersMessages'[n][v] = known[v] \cup {m}
      /\ peersMessages'[n][n] = known[n]
  BY <1>2, <1>m
<1>6. PICK lost \in SUBSET Out(n, m, known) :
         /\ losses + Cardinality(lost) <= MaxLosses
         /\ losses' = losses + Cardinality(lost)
         /\ net' = inFlight \cup (Out(n, m, known) \ lost)
  BY DEF GossipPayload, Out
<1>7. IsFiniteSet(lost) /\ Cardinality(lost) \in Nat
  BY <1>6, OutFacts, FS_Subset, FS_CardinalityType
<1>8. losses' \in 0 .. MaxLosses
  BY <1>6, <1>7, GossipAssumption DEF TypeOK
<1>9. net' \subseteq Packets
  BY <1>6, OutFacts
<1> QED
  BY <1>3, <1>4, <1>5, <1>6, <1>7, <1>8, <1>9

-----------------------------------------------------------------------------
(* Types. *)

LEMMA SeenFacts ==
    ASSUME TypeOK, NEW p \in net
    PROVE  /\ p \in Packets /\ p.dst \in Validators /\ p.msg \in Messages
           /\ Signer[p.msg] \in Validators
           /\ Seen(p) \in [Validators -> SUBSET Messages]
           /\ \A v \in Validators \ {Signer[p.msg]} : Seen(p)[v] = peersMessages[p.dst][v]
           /\ Seen(p)[Signer[p.msg]] = peersMessages[p.dst][Signer[p.msg]] \cup {p.msg}
<1>1. p \in Packets /\ p.dst \in Validators /\ p.msg \in Messages
  BY DEF TypeOK, Packets
<1>2. Signer[p.msg] \in Validators
  BY <1>1, GossipAssumption
<1>3. peersMessages[p.dst] \in [Validators -> SUBSET Messages]
  BY <1>1 DEF TypeOK
<1>4. /\ Seen(p) \in [Validators -> SUBSET Messages]
      /\ \A v \in Validators :
            Seen(p)[v] = IF v \in {Signer[p.msg]} THEN peersMessages[p.dst][v] \cup {p.msg}
                         ELSE peersMessages[p.dst][v]
  <2> DEFINE known == peersMessages[p.dst]
             to == {Signer[p.msg]}
  <2>1. known \in [Validators -> SUBSET Messages]
    BY <1>3
  <2> HIDE DEF known, to
  <2>2. /\ Mark(known, p.msg, to) \in [Validators -> SUBSET Messages]
        /\ \A v \in Validators : Mark(known, p.msg, to)[v] =
              IF v \in to THEN known[v] \cup {p.msg} ELSE known[v]
    BY <1>1, <2>1, MarkFacts
  <2> QED
    BY <2>2 DEF Seen, known, to
<1> QED
  BY <1>1, <1>2, <1>4

LEMMA TypeInit == Init => TypeOK
BY GossipAssumption DEF Init, TypeOK

LEMMA TypeStep == TypeOK /\ [Next]_vars => TypeOK'
<1> SUFFICES ASSUME TypeOK, [Next]_vars PROVE TypeOK'
  OBVIOUS
<1>1. ASSUME NEW m \in Messages, Broadcast(m) PROVE TypeOK'
  <2>1. Signer[m] \in Validators
    BY GossipAssumption
  <2>2. handled' \in [Validators -> [Messages -> Nat]]
    BY <1>1, <2>1 DEF Broadcast, TypeOK
  <2>3. knownMessages' \in [Validators -> SUBSET Messages]
    BY <1>1 DEF Broadcast, TypeOK
  <2>4. GossipPayload(Signer[m], m, peersMessages[Signer[m]], net)
    BY <1>1 DEF Broadcast
  <2>5. peersMessages[Signer[m]] \in [Validators -> SUBSET Messages] /\ net \in SUBSET Packets
    BY <2>1 DEF TypeOK
  <2>6. /\ peersMessages' \in [Validators -> [Validators -> SUBSET Messages]]
        /\ net' \subseteq Packets /\ losses' \in 0 .. MaxLosses
    BY <2>1, <2>4, <2>5, PayloadFacts
  <2> QED
    BY <2>2, <2>3, <2>6 DEF TypeOK
<1>2. ASSUME NEW p \in net, ReceiveAgain(p) PROVE TypeOK'
  BY <1>2, SeenFacts DEF ReceiveAgain, TypeOK
<1>3. ASSUME NEW p \in net, NEW verdict, ReceiveNew(p, verdict) PROVE TypeOK'
  <2>1. p.dst \in Validators /\ p.msg \in Messages
    BY SeenFacts
  <2>2. handled' \in [Validators -> [Messages -> Nat]]
    BY <1>3, <2>1 DEF ReceiveNew, TypeOK
  <2>3. knownMessages' \in [Validators -> SUBSET Messages]
    BY <1>3, <2>1 DEF ReceiveNew, TypeOK
  <2>4. /\ peersMessages' \in [Validators -> [Validators -> SUBSET Messages]]
        /\ net' \subseteq Packets /\ losses' \in 0 .. MaxLosses
    <3>1. CASE Relays(verdict)
      <4>1. GossipPayload(p.dst, p.msg, Seen(p), net \ {p})
        BY <1>3, <3>1 DEF ReceiveNew
      <4>2. net \ {p} \in SUBSET Packets
        BY DEF TypeOK
      <4> QED
        BY <2>1, <4>1, <4>2, SeenFacts, PayloadFacts
    <3>2. CASE ~Relays(verdict)
      BY <1>3, <3>2, SeenFacts DEF ReceiveNew, TypeOK
    <3> QED
      BY <3>1, <3>2
  <2> QED
    BY <2>2, <2>3, <2>4 DEF TypeOK
<1>4. CASE UNCHANGED vars
  BY <1>4 DEF vars, TypeOK
<1> QED
  BY <1>1, <1>2, <1>3, <1>4 DEF Next, Receive

\* The caches hold messages, packets go between validators, and no more sends
\* are lost than may be (GossipPayload, handleLoop).
THEOREM GossipTyped == Spec => []TypeOK
BY TypeInit, TypeStep, PTL DEF Spec

-----------------------------------------------------------------------------
(* Handling a message once. *)

\* No message goes back to its signer.
NoneReturns == \A p \in net : p.dst # Signer[p.msg]

\* knownMessages tells what a validator has handled, except of its own messages:
\* those it handles without a note, and they are never noted later.
KnownIsHandled ==
    \A n \in Validators, m \in Messages :
        /\ m \in knownMessages[n] => n # Signer[m]
        /\ n # Signer[m] => handled[n][m] = IF m \in knownMessages[n] THEN 1 ELSE 0

\* The signer has sent a message at most once.
SentOnce == \A m \in Messages : handled[Signer[m]][m] \in {0, 1}

OnceInv == TypeOK /\ NoneReturns /\ KnownIsHandled /\ SentOnce

LEMMA OnceInit == Init => OnceInv
<1> SUFFICES ASSUME Init PROVE OnceInv
  OBVIOUS
<1>1. TypeOK
  BY TypeInit
<1>2. NoneReturns /\ KnownIsHandled /\ SentOnce
  BY GossipAssumption DEF Init, NoneReturns, KnownIsHandled, SentOnce
<1> QED
  BY <1>1, <1>2 DEF OnceInv

\* GossipPayload sends to nobody that known says knows the message.
LEMMA PayloadSpares ==
    ASSUME TypeOK, NoneReturns,
           NEW n \in Validators, NEW m \in Messages,
           NEW known \in [Validators -> SUBSET Messages],
           NEW inFlight \in SUBSET net,
           GossipPayload(n, m, known, inFlight),
           n = Signer[m] \/ m \in known[Signer[m]]
    PROVE  NoneReturns'
<1>1. net \subseteq Packets /\ inFlight \in SUBSET Packets
  BY DEF TypeOK
<1>2. PICK lost \in SUBSET Out(n, m, known) :
         /\ IsFiniteSet(lost) /\ Cardinality(lost) \in Nat
         /\ losses' = losses + Cardinality(lost)
         /\ net' = inFlight \cup (Out(n, m, known) \ lost)
  BY <1>1, PayloadFacts
<1>3. ASSUME NEW p \in net' PROVE p.dst # Signer[p.msg]
  <2>1. CASE p \in inFlight
    BY <2>1 DEF NoneReturns
  <2>2. CASE p \in Out(n, m, known)
    <3>1. p.msg = m /\ p.dst # n /\ m \notin known[p.dst]
      BY <2>2, OutFacts
    <3> QED
      BY <3>1
  <2> QED
    BY <1>2, <2>1, <2>2
<1> QED
  BY <1>3 DEF NoneReturns

LEMMA OnceStep == OnceInv /\ [Next]_vars => OnceInv'
<1> SUFFICES ASSUME OnceInv, [Next]_vars PROVE OnceInv'
  OBVIOUS
<1>0. TypeOK /\ TypeOK'
  BY TypeStep DEF OnceInv
<1>1. ASSUME NEW m \in Messages, Broadcast(m) PROVE OnceInv'
  <2>1. Signer[m] \in Validators
    BY GossipAssumption
  <2>2. /\ handled[Signer[m]][m] = 0
        /\ handled' = [handled EXCEPT ![Signer[m]][m] = @ + 1]
        /\ knownMessages' = knownMessages
    BY <1>1 DEF Broadcast
  <2>3. NoneReturns'
    <3>1. GossipPayload(Signer[m], m, peersMessages[Signer[m]], net)
      BY <1>1 DEF Broadcast
    <3>2. peersMessages[Signer[m]] \in [Validators -> SUBSET Messages]
      BY <1>0, <2>1 DEF TypeOK
    <3> QED
      BY <1>0, <2>1, <3>1, <3>2, PayloadSpares DEF OnceInv
  <2>4. KnownIsHandled'
    BY <1>0, <2>1, <2>2 DEF TypeOK, KnownIsHandled, OnceInv
  <2>5. SentOnce'
    BY <1>0, <2>1, <2>2, GossipAssumption DEF TypeOK, SentOnce, OnceInv
  <2> QED
    BY <1>0, <2>3, <2>4, <2>5 DEF OnceInv
<1>2. ASSUME NEW p \in net, ReceiveAgain(p) PROVE OnceInv'
  <2>1. net' = net \ {p} /\ knownMessages' = knownMessages /\ handled' = handled
    BY <1>2 DEF ReceiveAgain
  <2>2. NoneReturns'
    BY <2>1 DEF OnceInv, NoneReturns
  <2>3. KnownIsHandled' /\ SentOnce'
    BY <2>1 DEF OnceInv, KnownIsHandled, SentOnce
  <2> QED
    BY <1>0, <2>2, <2>3 DEF OnceInv
<1>3. ASSUME NEW p \in net, NEW verdict, ReceiveNew(p, verdict) PROVE OnceInv'
  <2>1. p.dst \in Validators /\ p.msg \in Messages /\ Signer[p.msg] \in Validators
    BY <1>0, SeenFacts
  <2>2. p.dst # Signer[p.msg]
    BY DEF OnceInv, NoneReturns
  <2>3. /\ p.msg \notin knownMessages[p.dst]
        /\ knownMessages' = [knownMessages EXCEPT ![p.dst] = @ \cup {p.msg}]
        /\ handled' = [handled EXCEPT ![p.dst][p.msg] = @ + 1]
    BY <1>3 DEF ReceiveNew
  <2>4. NoneReturns'
    <3>1. CASE Relays(verdict)
      <4>1. GossipPayload(p.dst, p.msg, Seen(p), net \ {p})
        BY <1>3, <3>1 DEF ReceiveNew
      <4>2. Seen(p) \in [Validators -> SUBSET Messages] /\ p.msg \in Seen(p)[Signer[p.msg]]
        BY <1>0, <2>1, SeenFacts
      <4>3. net \ {p} \in SUBSET net
        OBVIOUS
      <4> QED
        BY <1>0, <2>1, <4>1, <4>2, <4>3, PayloadSpares DEF OnceInv
    <3>2. CASE ~Relays(verdict)
      BY <1>3, <3>2 DEF ReceiveNew, OnceInv, NoneReturns
    <3> QED
      BY <3>1, <3>2
  <2>5. KnownIsHandled'
    <3> SUFFICES ASSUME NEW n \in Validators, NEW m \in Messages
                 PROVE  /\ m \in knownMessages'[n] => n # Signer[m]
                        /\ n # Signer[m] =>
                              handled'[n][m] = IF m \in knownMessages'[n] THEN 1 ELSE 0
      BY DEF KnownIsHandled
    <3>1. CASE n = p.dst /\ m = p.msg
      <4>1. handled[n][m] = 0
        BY <2>2, <2>3, <3>1 DEF OnceInv, KnownIsHandled
      <4>2. handled'[n][m] = 1 /\ m \in knownMessages'[n]
        BY <1>0, <2>3, <3>1, <4>1 DEF TypeOK
      <4> QED
        BY <2>2, <3>1, <4>2
    <3>2. CASE ~(n = p.dst /\ m = p.msg)
      <4>1. handled'[n][m] = handled[n][m] /\ (m \in knownMessages'[n] <=> m \in knownMessages[n])
        BY <1>0, <2>1, <2>3, <3>2 DEF TypeOK
      <4> QED
        BY <4>1 DEF OnceInv, KnownIsHandled
    <3> QED
      BY <3>1, <3>2
  <2>6. SentOnce'
    <3> SUFFICES ASSUME NEW m \in Messages PROVE handled'[Signer[m]][m] \in {0, 1}
      BY DEF SentOnce
    <3>1. Signer[m] \in Validators
      BY GossipAssumption
    <3>2. handled'[Signer[m]][m] = handled[Signer[m]][m]
      BY <1>0, <2>1, <2>2, <2>3, <3>1 DEF TypeOK
    <3> QED
      BY <3>2 DEF OnceInv, SentOnce
  <2> QED
    BY <1>0, <2>4, <2>5, <2>6 DEF OnceInv
<1>4. CASE UNCHANGED vars
  BY <1>0, <1>4 DEF vars, OnceInv, NoneReturns, KnownIsHandled, SentOnce
<1> QED
  BY <1>1, <1>2, <1>3, <1>4 DEF Next, Receive

\* No validator handles a message twice, its own included, with any number of
\* relays and losses: every relay marks the signer before it sends on, so that
\* the signer's message, which the signer does not have in knownMessages, never
\* comes back (GossipPayload, the p2pMsgCh case of handleLoop).
THEOREM MessagesHandledOnce == Spec => []HandledOnce
<1>1. OnceInv => HandledOnce
  <2> SUFFICES ASSUME OnceInv, NEW n \in Validators, NEW m \in Messages
               PROVE  handled[n][m] <= 1
    BY DEF HandledOnce
  <2>1. handled[n][m] \in {0, 1}
    BY DEF OnceInv, KnownIsHandled, SentOnce
  <2> QED
    BY <2>1
<1> QED
  BY <1>1, OnceInit, OnceStep, PTL DEF Spec

-----------------------------------------------------------------------------
(* Reaching everybody. *)

\* Who is sure to send m to everybody it has not marked: the signer, and if no
\* handler refuses m, whoever has handled it.
Senders(m) == {n \in Validators : handled[n][m] > 0 /\ (n = Signer[m] \/ m \notin Refused)}

\* The sends of m that have been made, are over, and were in vain.
Missing(m) ==
    {p \in Packets : /\ p.msg = m /\ p.src \in Senders(m)
                     /\ p.dst # p.src /\ p.dst # Signer[m]
                     /\ m \notin knownMessages[p.dst]
                     /\ p \notin net}

\* Before a validator handles a message it has marked at most its signer, so
\* that it will send it to all others.
MarksFollow ==
    \A n \in Validators, m \in Messages, v \in Validators :
        handled[n][m] = 0 /\ v # Signer[m] => m \notin peersMessages[n][v]

\* Each send in vain is a lost one of its own.
LossesCover == \A m \in Messages : Cardinality(Missing(m)) <= losses

SpreadInv == OnceInv /\ MarksFollow /\ LossesCover

LEMMA MissingFinite ==
    ASSUME NEW m \in Messages
    PROVE  IsFiniteSet(Missing(m)) /\ Cardinality(Missing(m)) \in Nat
<1>1. Missing(m) \subseteq {p \in Packets : p.msg = m}
  BY DEF Missing
<1> QED
  BY <1>1, PacketsFinite, FS_Subset, FS_CardinalityType

LEMMA MissingFiniteNext ==
    ASSUME NEW m \in Messages
    PROVE  IsFiniteSet(Missing(m)') /\ Cardinality(Missing(m)') \in Nat
<1>1. Missing(m)' \subseteq {p \in Packets : p.msg = m}
  BY DEF Missing
<1> QED
  BY <1>1, PacketsFinite, FS_Subset, FS_CardinalityType

LEMMA SpreadInit == Init => SpreadInv
<1> SUFFICES ASSUME Init PROVE SpreadInv
  OBVIOUS
<1>1. MarksFollow
  BY DEF Init, MarksFollow
<1>2. ASSUME NEW m \in Messages PROVE Cardinality(Missing(m)) <= losses
  <2>1. Missing(m) = {}
    BY DEF Init, Missing, Senders
  <2>2. Cardinality({}) = 0
    BY FS_EmptySet
  <2> QED
    BY <2>1, <2>2 DEF Init
<1> QED
  BY <1>1, <1>2, OnceInit DEF SpreadInv, LossesCover

\* A step in which sends of some message are lost and no others come to be in
\* vain keeps LossesCover.
LEMMA CoverKept ==
    ASSUME LossesCover, losses \in Nat,
           NEW m \in Messages, NEW lost, IsFiniteSet(lost), Cardinality(lost) \in Nat,
           Missing(m)' \subseteq Missing(m) \cup lost,
           losses' = losses + Cardinality(lost)
    PROVE  Cardinality(Missing(m)') <= losses'
<1>1. IsFiniteSet(Missing(m) \cup lost) /\ Cardinality(Missing(m) \cup lost) \in Nat
  BY MissingFinite, FS_Union, FS_CardinalityType
<1>2. Cardinality(Missing(m) \cup lost) <= Cardinality(Missing(m)) + Cardinality(lost)
  <2>1. IsFiniteSet(Missing(m) \cap lost)
    BY MissingFinite, FS_Intersection
  <2>2. Cardinality(Missing(m) \cap lost) \in Nat
    BY <2>1, FS_CardinalityType
  <2>3. Cardinality(Missing(m) \cup lost) =
          Cardinality(Missing(m)) + Cardinality(lost) - Cardinality(Missing(m) \cap lost)
    BY MissingFinite, FS_Union
  <2> QED
    BY <2>2, <2>3, MissingFinite
<1>3. Cardinality(Missing(m)') <= Cardinality(Missing(m) \cup lost)
  BY <1>1, FS_Subset
<1>4. Cardinality(Missing(m)) <= losses
  BY DEF LossesCover
<1> QED
  BY <1>1, <1>2, <1>3, <1>4, MissingFinite, MissingFiniteNext

\* GossipPayload by a validator that handles k in the same step.
LEMMA PayloadSpreads ==
    ASSUME SpreadInv, TypeOK',
           NEW n \in Validators, NEW k \in Messages,
           NEW known \in [Validators -> SUBSET Messages],
           NEW q, q \notin net \/ (q \in net /\ q.msg = k /\ q.dst = n),
           GossipPayload(n, k, known, net \ {q}),
           handled[n][k] = 0,
           handled' = [handled EXCEPT ![n][k] = @ + 1],
           \A v \in Validators, m \in Messages :
              v # Signer[m] => (m \in known[v] <=> m \in peersMessages[n][v]),
           \/ knownMessages' = knownMessages /\ q \notin net
           \/ knownMessages' = [knownMessages EXCEPT ![n] = @ \cup {k}]
    PROVE  MarksFollow' /\ LossesCover'
<1>0. TypeOK
  BY DEF SpreadInv, OnceInv
<1>1. net \ {q} \in SUBSET Packets
  BY <1>0 DEF TypeOK
<1>2. /\ \A i \in Validators \ {n} : peersMessages'[i] = peersMessages[i]
      /\ \A v \in Validators \ {n} : peersMessages'[n][v] = known[v] \cup {k}
      /\ peersMessages'[n][n] = known[n]
  <2> DEFINE inFlight == net \ {q}
  <2>1. inFlight \in SUBSET Packets /\ GossipPayload(n, k, known, inFlight)
    BY <1>1
  <2> HIDE DEF inFlight
  <2>2. \A i \in Validators \ {n} : peersMessages'[i] = peersMessages[i]
    BY <1>0, <2>1, PayloadFacts
  <2>3. /\ \A v \in Validators \ {n} : peersMessages'[n][v] = known[v] \cup {k}
        /\ peersMessages'[n][n] = known[n]
    BY <1>0, <2>1, PayloadFacts
  <2> QED
    BY <2>2, <2>3
<1>3. PICK lost \in SUBSET Out(n, k, known) :
         /\ IsFiniteSet(lost) /\ Cardinality(lost) \in Nat
         /\ losses' = losses + Cardinality(lost)
         /\ net' = (net \ {q}) \cup (Out(n, k, known) \ lost)
  BY <1>0, <1>1, PayloadFacts
<1>4. \A i \in Validators, m \in Messages :
         handled'[i][m] = IF i = n /\ m = k THEN 1 ELSE handled[i][m]
  BY <1>0 DEF TypeOK
<1>5. MarksFollow'
  <2> SUFFICES ASSUME NEW i \in Validators, NEW m \in Messages, NEW v \in Validators,
                      handled'[i][m] = 0, v # Signer[m]
               PROVE  m \notin peersMessages'[i][v]
    BY DEF MarksFollow
  <2>1. handled[i][m] = 0 /\ ~(i = n /\ m = k)
    BY <1>4
  <2>2. m \notin peersMessages[i][v]
    BY <2>1 DEF SpreadInv, MarksFollow
  <2>3. CASE i # n
    BY <1>2, <2>2, <2>3
  <2>4. CASE i = n
    <3>1. m \notin known[v] /\ m # k
      BY <2>1, <2>2, <2>4
    <3>2. peersMessages'[n][v] \in {known[v], known[v] \cup {k}}
      BY <1>2
    <3> QED
      BY <2>4, <3>1, <3>2
  <2> QED
    BY <2>3, <2>4
<1>6. \A v \in Validators, m \in Messages : m \in knownMessages[v] => m \in knownMessages'[v]
  <2>1. CASE knownMessages' = knownMessages
    BY <2>1
  <2>2. CASE knownMessages' = [knownMessages EXCEPT ![n] = @ \cup {k}]
    BY <1>0, <2>2 DEF TypeOK
  <2> QED
    BY <2>1, <2>2
<1>7. ASSUME NEW m \in Messages PROVE Missing(m)' \subseteq Missing(m) \cup lost
  <2> SUFFICES ASSUME NEW p \in Missing(m)', p \notin lost PROVE p \in Missing(m)
    OBVIOUS
  <2>1. /\ p \in Packets /\ p.src \in Validators /\ p.dst \in Validators
        /\ p.msg = m /\ p.dst # p.src /\ p.dst # Signer[m]
        /\ p.src \in Senders(m)'
        /\ m \notin knownMessages'[p.dst] /\ p \notin net'
    BY DEF Missing, Packets
  <2>2. m \notin knownMessages[p.dst]
    BY <1>6, <2>1
  <2>3. p # q \/ q \notin net
    <3> SUFFICES ASSUME p = q, q \in net PROVE FALSE
      OBVIOUS
    <3>1. m = k /\ p.dst = n
      BY <2>1
    <3>2. k \in knownMessages'[n]
      BY <1>0 DEF TypeOK
    <3> QED
      BY <2>1, <3>1, <3>2
  <2>4. p \notin net
    BY <1>3, <2>1, <2>3
  <2>5. p \notin Out(n, k, known)
    BY <1>3, <2>1
  <2>6. ~(p.src = n /\ m = k)
    <3> SUFFICES ASSUME p.src = n, m = k PROVE FALSE
      OBVIOUS
    <3>1. k \notin peersMessages[n][p.dst]
      BY <2>1 DEF SpreadInv, MarksFollow
    <3>2. k \notin known[p.dst]
      BY <2>1, <3>1
    <3> QED
      BY <2>1, <2>5, <3>2, OutFacts
  <2>7. p.src \in Senders(m)
    BY <1>4, <2>1, <2>6 DEF Senders
  <2> QED
    BY <2>1, <2>2, <2>4, <2>7 DEF Missing
<1>8. losses \in Nat
  BY <1>0 DEF TypeOK
<1>9. LossesCover'
  BY <1>3, <1>7, <1>8, CoverKept DEF SpreadInv, LossesCover
<1> QED
  BY <1>5, <1>9

LEMMA SpreadStep == SpreadInv /\ [Next]_vars => SpreadInv'
<1> SUFFICES ASSUME SpreadInv, [Next]_vars PROVE SpreadInv'
  OBVIOUS
<1>0. TypeOK /\ OnceInv /\ OnceInv' /\ TypeOK'
  BY OnceStep DEF SpreadInv, OnceInv
<1>1. ASSUME NEW k \in Messages, Broadcast(k) PROVE SpreadInv'
  <2> DEFINE n == Signer[k]
             known == peersMessages[n]
             q == [src |-> n, dst |-> n, msg |-> k]
  <2>1. n \in Validators /\ known \in [Validators -> SUBSET Messages]
    BY <1>0, GossipAssumption DEF TypeOK
  <2>2. q \notin net
    BY <1>0 DEF OnceInv, NoneReturns
  <2>3. net \ {q} = net
    BY <2>2
  <2>4. /\ GossipPayload(n, k, known, net \ {q})
        /\ handled[n][k] = 0
        /\ handled' = [handled EXCEPT ![n][k] = @ + 1]
        /\ knownMessages' = knownMessages
    BY <1>1, <2>3 DEF Broadcast
  <2>5. \A v \in Validators, m \in Messages :
           v # Signer[m] => (m \in known[v] <=> m \in peersMessages[n][v])
    OBVIOUS
  <2> HIDE DEF n, known, q
  <2>6. MarksFollow' /\ LossesCover'
    BY <1>0, <2>1, <2>2, <2>4, <2>5, PayloadSpreads
  <2> QED
    BY <1>0, <2>6 DEF SpreadInv
<1>2. ASSUME NEW q \in net, ReceiveAgain(q) PROVE SpreadInv'
  <2>1. /\ net' = net \ {q} /\ q.msg \in knownMessages[q.dst]
        /\ knownMessages' = knownMessages /\ handled' = handled /\ losses' = losses
        /\ peersMessages' = [peersMessages EXCEPT ![q.dst] = Seen(q)]
    BY <1>2 DEF ReceiveAgain
  <2>2. MarksFollow'
    <3> SUFFICES ASSUME NEW i \in Validators, NEW m \in Messages, NEW v \in Validators,
                        handled[i][m] = 0, v # Signer[m]
                 PROVE  m \notin peersMessages'[i][v]
      BY <2>1 DEF MarksFollow
    <3>1. m \notin peersMessages[i][v]
      BY DEF SpreadInv, MarksFollow
    <3>2. CASE i # q.dst
      BY <1>0, <2>1, <3>1, <3>2 DEF TypeOK
    <3>3. CASE i = q.dst
      <4>1. peersMessages'[i][v] = Seen(q)[v]
        BY <1>0, <2>1, <3>3 DEF TypeOK
      <4>2. m \in Seen(q)[v] => m = q.msg /\ v = Signer[q.msg]
        BY <1>0, <3>1, <3>3, SeenFacts
      <4> QED
        BY <4>1, <4>2
    <3> QED
      BY <3>2, <3>3
  <2>3. ASSUME NEW m \in Messages PROVE Missing(m)' = Missing(m)
    <3>1. Senders(m)' = Senders(m)
      BY <2>1 DEF Senders
    <3>2. q \notin Missing(m) /\ q \notin Missing(m)'
      BY <2>1 DEF Missing
    <3>3. ASSUME NEW p \in Packets, p # q PROVE p \in Missing(m)' <=> p \in Missing(m)
      BY <2>1, <3>1, <3>3 DEF Missing
    <3>4. Missing(m) \subseteq Packets /\ Missing(m)' \subseteq Packets
      BY DEF Missing
    <3> QED
      BY <3>2, <3>3, <3>4
  <2>4. LossesCover'
    BY <2>1, <2>3 DEF SpreadInv, LossesCover
  <2> QED
    BY <1>0, <2>2, <2>4 DEF SpreadInv
<1>3. ASSUME NEW q \in net, NEW verdict \in Verdicts(q.msg), ReceiveNew(q, verdict)
      PROVE  SpreadInv'
  <2> DEFINE n == q.dst
             k == q.msg
  <2>1. n \in Validators /\ k \in Messages /\ Signer[k] \in Validators
    BY <1>0, SeenFacts
  <2>2. n # Signer[k]
    BY <1>0 DEF OnceInv, NoneReturns
  <2>3. /\ k \notin knownMessages[n]
        /\ knownMessages' = [knownMessages EXCEPT ![n] = @ \cup {k}]
        /\ handled' = [handled EXCEPT ![n][k] = @ + 1]
    BY <1>3 DEF ReceiveNew
  <2>4. handled[n][k] = 0
    BY <1>0, <2>1, <2>2, <2>3 DEF OnceInv, KnownIsHandled
  <2>5. Seen(q) \in [Validators -> SUBSET Messages]
    BY <1>0, SeenFacts
  <2>6. \A v \in Validators, m \in Messages :
           v # Signer[m] => (m \in Seen(q)[v] <=> m \in peersMessages[n][v])
    BY <1>0, SeenFacts
  <2>7. CASE Relays(verdict)
    <3> DEFINE known == Seen(q)
    <3>1. GossipPayload(n, k, known, net \ {q})
      BY <1>3, <2>7 DEF ReceiveNew
    <3>2. q \in net /\ q.msg = k /\ q.dst = n
      OBVIOUS
    <3>3. /\ known \in [Validators -> SUBSET Messages]
          /\ \A v \in Validators, m \in Messages :
                v # Signer[m] => (m \in known[v] <=> m \in peersMessages[n][v])
      BY <2>5, <2>6
    <3> HIDE DEF n, k, known
    <3>4. MarksFollow' /\ LossesCover'
      BY <1>0, <2>1, <2>3, <2>4, <3>1, <3>2, <3>3, PayloadSpreads
    <3> QED
      BY <1>0, <3>4 DEF SpreadInv
  <2>8. CASE ~Relays(verdict)
    <3>1. /\ peersMessages' = [peersMessages EXCEPT ![n] = Seen(q)]
          /\ net' = net \ {q} /\ losses' = losses
      BY <1>3, <2>8 DEF ReceiveNew
    <3>2. k \in Refused
      BY <2>8 DEF Verdicts, Relays
    <3>3. \A i \in Validators, m \in Messages :
             handled'[i][m] = IF i = n /\ m = k THEN 1 ELSE handled[i][m]
      BY <1>0, <2>1, <2>3, <2>4 DEF TypeOK
    <3>4. MarksFollow'
      <4> SUFFICES ASSUME NEW i \in Validators, NEW m \in Messages, NEW v \in Validators,
                          handled'[i][m] = 0, v # Signer[m]
                   PROVE  m \notin peersMessages'[i][v]
        BY DEF MarksFollow
      <4>1. handled[i][m] = 0
        BY <3>3
      <4>2. m \notin peersMessages[i][v]
        BY <4>1 DEF SpreadInv, MarksFollow
      <4>3. CASE i # n
        BY <1>0, <3>1, <4>2, <4>3 DEF TypeOK
      <4>4. CASE i = n
        <5>1. peersMessages'[n] = Seen(q)
          BY <1>0, <2>1, <3>1 DEF TypeOK
        <5> QED
          BY <2>6, <4>2, <4>4, <5>1
      <4> QED
        BY <4>3, <4>4
    <3>5. ASSUME NEW m \in Messages PROVE Missing(m)' \subseteq Missing(m)
      <4> SUFFICES ASSUME NEW p \in Missing(m)' PROVE p \in Missing(m)
        OBVIOUS
      <4>1. /\ p \in Packets /\ p.src \in Validators /\ p.dst \in Validators
            /\ p.msg = m /\ p.dst # p.src /\ p.dst # Signer[m]
            /\ p.src \in Senders(m)'
            /\ m \notin knownMessages'[p.dst] /\ p \notin net'
        BY DEF Missing, Packets
      <4>2. m \notin knownMessages[p.dst]
        BY <1>0, <2>1, <2>3, <4>1 DEF TypeOK
      <4>3. p # q
        <5>1. k \in knownMessages'[n]
          BY <1>0, <2>1, <2>3 DEF TypeOK
        <5> QED
          BY <4>1, <5>1
      <4>4. p.src \in Senders(m)
        BY <2>2, <3>2, <3>3, <4>1 DEF Senders
      <4> QED
        BY <3>1, <4>1, <4>2, <4>3, <4>4 DEF Missing
    <3>6. LossesCover'
      <4> SUFFICES ASSUME NEW m \in Messages PROVE Cardinality(Missing(m)') <= losses'
        BY DEF LossesCover
      <4>1. Cardinality(Missing(m)') <= Cardinality(Missing(m))
        BY <3>5, MissingFinite, FS_Subset
      <4>2. Cardinality(Missing(m)) <= losses /\ losses \in Nat
        BY <1>0 DEF SpreadInv, LossesCover, TypeOK
      <4> QED
        BY <3>1, <4>1, <4>2, MissingFinite, MissingFiniteNext
    <3> QED
      BY <1>0, <3>4, <3>6 DEF SpreadInv
  <2> QED
    BY <2>7, <2>8
<1>4. CASE UNCHANGED vars
  BY <1>0, <1>4 DEF vars, SpreadInv, MarksFollow, LossesCover, Missing, Senders
<1> QED
  BY <1>1, <1>2, <1>3, <1>4 DEF Next, Receive

\* The lost sends that a message is sure to survive: those of a message that no
\* handler refuses come again from every validator that has it.
Survives(m) == IF m \in Refused THEN losses = 0 ELSE losses < Size - 1

\* A message that was sent and of which nothing is in flight any more has
\* reached every validator, unless it lost as many sends as there are relays.
Delivered ==
    \A m \in Messages :
        /\ handled[Signer[m]][m] > 0
        /\ \A p \in net : p.msg # m
        /\ Survives(m)
        => \A n \in Validators : handled[n][m] > 0

\* k validators have a message and u lack it: at least k + u - 1 sends are over.
LEMMA PairsOutnumber ==
    ASSUME NEW k \in Nat, NEW u \in Nat, k > 0, u > 0
    PROVE  k * u >= k + u - 1
<1>1. (k - 1) * (u - 1) >= 0
  BY Z3
<1>2. (k - 1) * (u - 1) = k * u - k - u + 1
  BY Z3
<1> QED
  BY <1>1, <1>2, Z3

LEMMA SpreadDelivers == SpreadInv => Delivered
<1> SUFFICES ASSUME SpreadInv, NEW m \in Messages,
                    handled[Signer[m]][m] > 0, \A p \in net : p.msg # m, Survives(m),
                    NEW lacking \in Validators, ~(handled[lacking][m] > 0)
             PROVE  FALSE
  BY DEF Delivered
<1> DEFINE K == Senders(m)
           U == {n \in Validators : ~(handled[n][m] > 0)}
           f == [pair \in K \X U |-> [src |-> pair[1], dst |-> pair[2], msg |-> m]]
<1>0. TypeOK /\ Signer[m] \in Validators
  BY GossipAssumption DEF SpreadInv, OnceInv
<1>1. Signer[m] \in K /\ lacking \in U /\ K \subseteq Validators /\ U \subseteq Validators
  BY <1>0 DEF Senders
<1>2. ASSUME NEW s \in K, NEW d \in U
      PROVE  [src |-> s, dst |-> d, msg |-> m] \in Missing(m)
  <2>1. s \in Validators /\ d \in Validators /\ s # d /\ d # Signer[m]
    BY DEF Senders
  <2>2. handled[d][m] \in Nat
    BY <1>0, <2>1 DEF TypeOK
  <2>3. m \notin knownMessages[d]
    BY <2>1, <2>2 DEF SpreadInv, OnceInv, KnownIsHandled
  <2>4. [src |-> s, dst |-> d, msg |-> m] \in Packets
    BY <2>1 DEF Packets
  <2>5. [src |-> s, dst |-> d, msg |-> m] \notin net
    OBVIOUS
  <2> QED
    BY <2>1, <2>3, <2>4, <2>5 DEF Missing
<1>3. f \in Injection(K \X U, Missing(m))
  <2>1. f \in [K \X U -> Missing(m)]
    BY <1>2
  <2>2. ASSUME NEW a \in K \X U, NEW b \in K \X U, f[a] = f[b] PROVE a = b
    <3>1. f[a].src = a[1] /\ f[a].dst = a[2] /\ f[b].src = b[1] /\ f[b].dst = b[2]
      OBVIOUS
    <3> QED
      BY <2>2, <3>1
  <2> QED
    BY <2>1, <2>2 DEF Injection, IsInjective
<1>4. /\ IsFiniteSet(K) /\ Cardinality(K) \in Nat
      /\ IsFiniteSet(U) /\ Cardinality(U) \in Nat
  BY <1>1, SubsetOfValidators
<1>5. Cardinality(K) > 0 /\ Cardinality(U) > 0
  BY <1>1, <1>4, FS_EmptySet
<1>6. m \notin Refused => Cardinality(K) + Cardinality(U) = Size
  <2> SUFFICES ASSUME m \notin Refused PROVE Cardinality(K) + Cardinality(U) = Size
    OBVIOUS
  <2>1. K \cup U = Validators /\ K \cap U = {}
    BY DEF Senders
  <2> HIDE DEF K, U
  <2>2. Cardinality(K \cup U) = Cardinality(K) + Cardinality(U) - Cardinality(K \cap U)
    BY <1>4, FS_Union
  <2>3. Cardinality(K \cap U) = 0 /\ Cardinality(K \cup U) = Size
    BY <2>1, FS_EmptySet, ValidatorsCardinality
  <2> QED
    BY <1>4, <2>2, <2>3, SizeFacts
<1> HIDE DEF K, U, f
<1>7. Cardinality(K \X U) = Cardinality(K) * Cardinality(U)
  BY <1>4, FS_Product
<1>8. Cardinality(K \X U) <= Cardinality(Missing(m))
  BY <1>3, MissingFinite, FS_Injection
<1>9. Cardinality(K) * Cardinality(U) >= Cardinality(K) + Cardinality(U) - 1
  BY <1>4, <1>5, PairsOutnumber
<1>10. Cardinality(Missing(m)) <= losses /\ losses \in Nat
  BY <1>0 DEF SpreadInv, LossesCover, TypeOK
<1>11. losses >= Cardinality(K) + Cardinality(U) - 1
  <2> DEFINE product == Cardinality(K) * Cardinality(U)
  <2>1. product \in Nat
    BY <1>4
  <2>2. product <= Cardinality(Missing(m)) /\ product >= Cardinality(K) + Cardinality(U) - 1
    BY <1>7, <1>8, <1>9
  <2> HIDE DEF product
  <2> QED
    BY <1>4, <1>10, <2>1, <2>2, MissingFinite
<1> QED
  BY <1>4, <1>5, <1>6, <1>10, <1>11, SizeFacts DEF Survives

\* The safety half of ReachesAll, for any number of validators: what has been
\* sent and is no longer in flight was handled by every validator, unless as
\* many sends were lost as there are other validators, or a single one if a
\* handler may refuse the message.  It holds although a validator marks its
\* receivers before it knows whether they got the message, and never sends to
\* them again (GossipPayload).
THEOREM QuietMeansDelivered == Spec => []Delivered
BY SpreadInit, SpreadStep, SpreadDelivers, PTL DEF Spec
=============================================================================
