------------------------- MODULE CoreLifecycleProofs -------------------------
(***************************************************************************)
(* What holds of the core through any number of starts and stops in turn,  *)
(* at whatever moment they come: the types, that a quit waits for every    *)
(* loop but the one that serves, and that a Stop that overtakes its loop's *)
(* goroutine is the only way to a second loop and to a handler without a   *)
(* round state.                                                            *)
(***************************************************************************)
EXTENDS CoreLifecycle, TLAPS

-----------------------------------------------------------------------------
(* Types. *)

\* The Boolean half of the type invariant.
FlagsTyped ==
    /\ started \in BOOLEAN /\ stopping \in BOOLEAN /\ overtaken \in BOOLEAN
    /\ roundState \in BOOLEAN /\ timer \in BOOLEAN
    /\ panic \in {"none", "handler", "request"}

\* TypeOK bounds the goroutines by MaxCalls.  What a step preserves is that
\* there are at most as many as there were calls.
CountsBounded ==
    /\ calls \in 0 .. MaxCalls /\ timeouts \in 0 .. MaxTimeouts
    /\ spawned \in Nat /\ running \in Nat /\ quits \in Nat
    /\ spawned + running <= calls
    /\ quits <= calls

CountsInv == FlagsTyped /\ CountsBounded

LEMMA CountsType == CountsInv => TypeOK
<1> SUFFICES ASSUME CountsInv PROVE TypeOK
  OBVIOUS
<1>1. spawned \in 0 .. MaxCalls /\ running \in 0 .. MaxCalls /\ quits \in 0 .. MaxCalls
  BY LifecycleAssumption DEF CountsInv, CountsBounded
<1> QED
  BY <1>1, Zenon DEF CountsInv, FlagsTyped, CountsBounded, TypeOK

LEMMA CountsInit == Init => CountsInv
<1> SUFFICES ASSUME Init PROVE CountsInv
  OBVIOUS
<1>1. FlagsTyped
  BY Zenon DEF Init, FlagsTyped
<1>2. CountsBounded
  BY LifecycleAssumption DEF Init, CountsBounded
<1> QED
  BY <1>1, <1>2 DEF CountsInv

\* Every assignment to a flag is Boolean.
LEMMA FlagsStep == FlagsTyped /\ [Next]_vars => FlagsTyped'
<1> SUFFICES ASSUME FlagsTyped, [Next]_vars PROVE FlagsTyped'
  OBVIOUS
<1> USE DEF FlagsTyped
<1>1. CASE Start
  BY <1>1, Zenon DEF Start, Called
<1>2. CASE Stop
  BY <1>2, Zenon DEF Stop, Called
<1>3. CASE StopReturns
  BY <1>3, Zenon DEF StopReturns
<1>4. CASE LoopBegins
  BY <1>4, Zenon DEF LoopBegins
<1>5. CASE HandleMsg
  BY <1>5, Zenon DEF HandleMsg, UseRoundState
<1>6. CASE HandleTimeout
  BY <1>6, Zenon DEF HandleTimeout, UseRoundState
<1>7. CASE HandleNewHead
  BY <1>7, Zenon DEF HandleNewHead
<1>8. CASE LoopQuits
  BY <1>8, Zenon DEF LoopQuits, Done
<1>9. CASE TimerFires
  BY <1>9, Zenon DEF TimerFires
<1>10. CASE Request
  BY <1>10, Zenon DEF Request, UseRoundState
<1>11. CASE UNCHANGED vars
  BY <1>11, Zenon DEF vars
<1> QED
  BY <1>1, <1>2, <1>3, <1>4, <1>5, <1>6, <1>7, <1>8, <1>9, <1>10, <1>11 DEF Next, Loop

\* Only Start adds a goroutine of the loop and only Stop one that sends on
\* quitCh, and each of them is a call.
LEMMA CountsStep == CountsInv /\ [Next]_vars => CountsInv'
<1> SUFFICES ASSUME CountsInv, [Next]_vars PROVE CountsInv'
  OBVIOUS
<1>0. FlagsTyped'
  BY FlagsStep DEF CountsInv
<1> SUFFICES CountsBounded'
  BY <1>0 DEF CountsInv
<1> USE LifecycleAssumption DEF CountsInv, CountsBounded
<1>1. CASE Start
  BY <1>1 DEF Start, Called
<1>2. CASE Stop
  BY <1>2 DEF Stop, Called
<1>3. CASE StopReturns
  BY <1>3 DEF StopReturns
<1>4. CASE LoopBegins
  BY <1>4 DEF LoopBegins
<1>5. CASE HandleMsg
  BY <1>5 DEF HandleMsg, UseRoundState
<1>6. CASE HandleTimeout
  BY <1>6 DEF HandleTimeout, UseRoundState
<1>7. CASE HandleNewHead
  BY <1>7 DEF HandleNewHead
<1>8. CASE LoopQuits
  BY <1>8 DEF LoopQuits, Done
<1>9. CASE TimerFires
  BY <1>9 DEF TimerFires
<1>10. CASE Request
  BY <1>10 DEF Request, UseRoundState
<1>11. CASE UNCHANGED vars
  BY <1>11 DEF vars
<1> QED
  BY <1>1, <1>2, <1>3, <1>4, <1>5, <1>6, <1>7, <1>8, <1>9, <1>10, <1>11 DEF Next, Loop

\* At whatever moment Start, Stop and Request are called, the variables have
\* their types: in particular the wait group's counter is never negative, each
\* loop calls Done once for its Add, and nothing waits to send on quitCh that no
\* Stop made (Start, Stop, handleLoop).
THEOREM LifecycleTyped == Spec => []TypeOK
<1> QED
  BY CountsType, CountsInit, CountsStep, PTL DEF Spec

-----------------------------------------------------------------------------
(* Loops and quits. *)

\* The loops that are to go on: the one of a core that is started and that no
\* Stop has been called for.
Served == IF started /\ ~stopping THEN 1 ELSE 0

\* Every other loop has a quit waiting for it, and no quit waits for no loop.
LoopsMatchQuits == spawned + running = quits + Served

LoopsInv == CountsInv /\ (stopping => started) /\ LoopsMatchQuits

LEMMA LoopsInit == Init => LoopsInv
BY CountsInit DEF Init, LoopsInv, LoopsMatchQuits, Served

\* Start adds a loop to be served, Stop turns it into a loop with a quit, and a
\* quit ends one loop, whichever of them receives it.
LEMMA LoopsStep == LoopsInv /\ [Next]_vars => LoopsInv'
<1> SUFFICES ASSUME LoopsInv, [Next]_vars PROVE LoopsInv'
  OBVIOUS
<1>0. CountsInv'
  BY CountsStep DEF LoopsInv
<1> USE <1>0 DEF LoopsInv, LoopsMatchQuits, Served, CountsInv, FlagsTyped, CountsBounded
<1>1. CASE Start
  BY <1>1 DEF Start, Called
<1>2. CASE Stop
  BY <1>2 DEF Stop, Called
<1>3. CASE StopReturns
  BY <1>3 DEF StopReturns
<1>4. CASE LoopBegins
  BY <1>4 DEF LoopBegins
<1>5. CASE HandleMsg
  BY <1>5 DEF HandleMsg
<1>6. CASE HandleTimeout
  BY <1>6 DEF HandleTimeout
<1>7. CASE HandleNewHead
  BY <1>7 DEF HandleNewHead
<1>8. CASE LoopQuits
  BY <1>8 DEF LoopQuits, Done
<1>9. CASE TimerFires
  BY <1>9 DEF TimerFires
<1>10. CASE Request
  BY <1>10 DEF Request
<1>11. CASE UNCHANGED vars
  BY <1>11 DEF vars
<1> QED
  BY <1>1, <1>2, <1>3, <1>4, <1>5, <1>6, <1>7, <1>8, <1>9, <1>10, <1>11 DEF Next, Loop

\* No loop is left without the quit that ends it, and no quit without a loop to
\* take it, although quits and loops may meet crosswise: a loop that outlives
\* Stop, or was started twice, does so only until it has read quitCh (Stop,
\* handleLoop).
THEOREM EveryLoopHasItsQuit == Spec => []LoopsMatchQuits
<1>1. LoopsInv => LoopsMatchQuits
  BY DEF LoopsInv
<1> QED
  BY <1>1, LoopsInit, LoopsStep, PTL DEF Spec

-----------------------------------------------------------------------------
(* Cores whose Stops did not overtake their loops. *)

\* One loop, about to begin or running, and a round state for it.
Serving == spawned + running = 1 /\ quits = 0 /\ roundState

\* One loop and one quit for it; or the loop has taken it and is gone.
Quitting ==
    \/ spawned + running = 1 /\ quits = 1 /\ roundState
    \/ spawned = 0 /\ running = 0 /\ quits = 0

\* No loop, and nobody who could end the next one.
Idle == spawned = 0 /\ running = 0 /\ quits = 0

\* The three phases that a core passes through again and again.
Phases ==
    /\ panic # "handler"
    /\ stopping => started /\ Quitting
    /\ started /\ ~stopping => Serving
    /\ ~started => Idle

PhaseInv == CountsInv /\ (~overtaken => Phases)

LEMMA PhaseInit == Init => PhaseInv
BY CountsInit DEF Init, PhaseInv, Phases, Idle

\* A Stop makes one quit for the one loop.  When it returns the loop has taken
\* it, unless the loop is still to begin, and then the Stop has overtaken it.
LEMMA PhaseStep == PhaseInv /\ [Next]_vars => PhaseInv'
<1> SUFFICES ASSUME PhaseInv, [Next]_vars, ~overtaken' PROVE Phases'
  BY CountsStep DEF PhaseInv
<1>0. ~overtaken /\ CountsInv
  BY DEF PhaseInv, CountsInv, FlagsTyped, Next, Loop, Start, Stop, Called, StopReturns,
         LoopBegins, HandleMsg, HandleTimeout, HandleNewHead, LoopQuits, TimerFires, Request, vars
<1> USE <1>0 DEF PhaseInv, Phases, CountsInv, FlagsTyped, CountsBounded, Idle, Serving, Quitting
<1>1. CASE Start
  BY <1>1 DEF Start, Called
<1>2. CASE Stop
  BY <1>2 DEF Stop, Called
<1>3. CASE StopReturns
  BY <1>3 DEF StopReturns, WaitOver
<1>4. CASE LoopBegins
  BY <1>4 DEF LoopBegins
<1>5. CASE HandleMsg
  BY <1>5 DEF HandleMsg, UseRoundState
<1>6. CASE HandleTimeout
  BY <1>6 DEF HandleTimeout, UseRoundState
<1>7. CASE HandleNewHead
  BY <1>7 DEF HandleNewHead
<1>8. CASE LoopQuits
  BY <1>8 DEF LoopQuits, Done
<1>9. CASE TimerFires
  BY <1>9 DEF TimerFires
<1>10. CASE Request
  BY <1>10 DEF Request, UseRoundState
<1>11. CASE UNCHANGED vars
  BY <1>11 DEF vars
<1> QED
  BY <1>1, <1>2, <1>3, <1>4, <1>5, <1>6, <1>7, <1>8, <1>9, <1>10, <1>11 DEF Next, Loop

\* Through any number of starts and stops, unless some Stop has overtaken its
\* loop, there is never a second loop, a served core has a round state for every
\* request, and no handler, be it of a timeout of an earlier run, meets a nil
\* round state (Start, Stop, handleLoop, checkRequestMsg).
THEOREM CoresServedSoundly == Spec => []ServedSoundly
<1>1. PhaseInv => ServedSoundly
  BY DEF PhaseInv, Phases, CountsInv, FlagsTyped, CountsBounded, Idle, Serving, Quitting,
         ServedSoundly
<1> QED
  BY <1>1, PhaseInit, PhaseStep, PTL DEF Spec
=============================================================================
