------------------------------- MODULE Gossip -------------------------------
(***************************************************************************)
(* How a message spreads (core/broadcast.go and the p2pMsgCh case of       *)
(* handleLoop in core/pbft.go): its signer sends it to every validator and *)
(* hands it to itself; a validator that receives it for the first time     *)
(* handles it and, if the handler returns no error, sends it on to the     *)
(* validators that it does not believe to know it.  Sends may get lost, or *)
(* fail after the receivers were marked.  The caches are large enough here *)
(* that they forget nothing.                                               *)
(***************************************************************************)
EXTENDS Validators

CONSTANTS
    Messages,   \* the messages the validators may send
    Signer,     \* Signer[m] is the validator that signed m
    Refused,    \* the messages for which handlers may return an error
    MaxLosses   \* bound: sends that get lost

ASSUME GossipAssumption ==
    /\ Signer \in [Messages -> Validators]
    /\ Refused \subseteq Messages /\ MaxLosses \in Nat

Packets == [src : Validators, dst : Validators, msg : Messages]

VARIABLES
    peersMessages,  \* what each validator believes each other one to know
    knownMessages,  \* the messages each validator has received
    handled,        \* how often each validator handled each message
    net,            \* packets in flight
    losses          \* how many packets were lost

vars == <<peersMessages, knownMessages, handled, net, losses>>

\* The validators in to are believed to know m.
Mark(known, m, to) ==
    [v \in Validators |-> IF v \in to THEN known[v] \cup {m} ELSE known[v]]

\* Send m to the validators that by known do not know it, and mark them before
\* the outcome is clear.  Of the packets some get lost; inFlight are the others.
GossipPayload(n, m, known, inFlight) ==
    LET to == {v \in Validators \ {n} : m \notin known[v]}
        out == {[src |-> n, dst |-> v, msg |-> m] : v \in to}
    IN /\ peersMessages' = [peersMessages EXCEPT ![n] = Mark(known, m, to)]
       /\ \E lost \in SUBSET out :
            /\ losses + Cardinality(lost) <= MaxLosses
            /\ losses' = losses + Cardinality(lost)
            /\ net' = inFlight \cup (out \ lost)

\* The signer sends m and gets it itself, through localMsgCh.
Broadcast(m) ==
    LET n == Signer[m]
    IN /\ handled[n][m] = 0
       /\ handled' = [handled EXCEPT ![n][m] = @ + 1]
       /\ GossipPayload(n, m, peersMessages[n], net)
       /\ UNCHANGED knownMessages

Seen_SenderOnly(p) == Mark(peersMessages[p.dst], p.msg, {p.src})

\* The receiver marks the signer, not the relay it got the message from.
Seen(p) == Mark(peersMessages[p.dst], p.msg, {Signer[p.msg]})

\* A message that is known already.
ReceiveAgain(p) ==
    /\ p.msg \in knownMessages[p.dst]
    /\ peersMessages' = [peersMessages EXCEPT ![p.dst] = Seen(p)]
    /\ net' = net \ {p}
    /\ UNCHANGED <<knownMessages, handled, losses>>

Relays_Never(verdict) == FALSE

\* The loop sends a message on only if its handler returned nil.
Relays(verdict) == verdict = "nil"

\* A new message, with the verdict of its handler.
ReceiveNew(p, verdict) ==
    /\ p.msg \notin knownMessages[p.dst]
    /\ knownMessages' = [knownMessages EXCEPT ![p.dst] = @ \cup {p.msg}]
    /\ handled' = [handled EXCEPT ![p.dst][p.msg] = @ + 1]
    /\ IF Relays(verdict)
       THEN GossipPayload(p.dst, p.msg, Seen(p), net \ {p})
       ELSE /\ peersMessages' = [peersMessages EXCEPT ![p.dst] = Seen(p)]
            /\ net' = net \ {p}
            /\ UNCHANGED losses

\* What handleMsg returns to the loop: early messages, for instance, and round
\* change votes of a lower round (errIgnored) end in an error.
Verdicts(m) == IF m \in Refused THEN {"nil", "err"} ELSE {"nil"}

Receive(p) == ReceiveAgain(p) \/ \E verdict \in Verdicts(p.msg) : ReceiveNew(p, verdict)

Init ==
    /\ peersMessages = [n \in Validators |-> [v \in Validators |-> {}]]
    /\ knownMessages = [n \in Validators |-> {}]
    /\ handled = [n \in Validators |-> [m \in Messages |-> 0]]
    /\ net = {}
    /\ losses = 0

Next ==
    \/ \E m \in Messages : Broadcast(m)
    \/ \E p \in net : Receive(p)

\* What is not lost arrives, and the loops keep reading p2pMsgCh.
Spec == Init /\ [][Next]_vars /\ WF_vars(\E p \in net : Receive(p))

-----------------------------------------------------------------------------
(* Properties. *)

TypeOK ==
    /\ peersMessages \in [Validators -> [Validators -> SUBSET Messages]]
    /\ knownMessages \in [Validators -> SUBSET Messages]
    /\ handled \in [Validators -> [Messages -> Nat]]
    /\ net \subseteq Packets
    /\ losses \in 0 .. MaxLosses

\* No validator handles a message twice, its own included, although its own are
\* not in knownMessages and come back if any relay does not take the signer for
\* one who knows (the p2pMsgCh case of handleLoop).
HandledOnce == \A n \in Validators, m \in Messages : handled[n][m] <= 1

\* With fewer lost sends than relays on the way, a message that is sent reaches
\* the handler of every validator, although nobody sends it again to one that
\* was marked (GossipPayload).  A message that some handler refuses is not sent
\* on by that validator and is sure to arrive only if no send is lost.
ReachesAll ==
    \A m \in Messages, n \in Validators :
        handled[Signer[m]][m] > 0 ~> handled[n][m] > 0 \/ (m \in Refused /\ losses > 0)
=============================================================================
