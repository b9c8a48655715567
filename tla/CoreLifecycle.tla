---------------------------- MODULE CoreLifecycle ----------------------------
(***************************************************************************)
(* Starting and stopping the core (Start, Stop and handleLoop in           *)
(* core/pbft.go): the goroutine of the event loop, the wait group and the  *)
(* quit channel between Stop and the loop, the round change timer and its  *)
(* event, and the round state that the loop's exit clears while the sealer *)
(* may call Request.  Each handler is one step here; PBFTCore has the      *)
(* handlers' own state, and relies on one loop running them.               *)
(*                                                                         *)
(* Callers start and stop the core in turn, which they can see to; they    *)
(* cannot see whether the loop's goroutine has begun, and the sealer calls *)
(* Request at any time.                                                    *)
(***************************************************************************)
EXTENDS Naturals

CONSTANTS
    MaxCalls,     \* bound: calls of Start and Stop
    MaxTimeouts   \* bound: timeout events waiting, in timeoutCh or to enter it

ASSUME LifecycleAssumption == MaxCalls \in Nat /\ MaxTimeouts \in Nat

VARIABLES
    calls,      \* calls of Start and Stop so far
    started,    \* the last call that returned was Start
    stopping,   \* a call of Stop waits for the loop
    spawned,    \* goroutines on their way to handlerWg.Add
    running,    \* loops that count in handlerWg
    quits,      \* goroutines of Stop that wait to send on quitCh
    roundState, \* currentRoundState is not nil
    timer,      \* roundChangeTimer is armed
    timeouts,   \* timeoutEvents sent, not yet received
    panic,      \* the goroutine that used a nil round state, which ends the process
    overtaken   \* history: a Stop has returned before its loop's goroutine began

vars == <<calls, started, stopping, spawned, running, quits, roundState, timer, timeouts,
          panic, overtaken>>

Alive == panic = "none"

\* What a goroutine of the given kind does to the process when it needs the
\* round state.
UseRoundState(kind) == panic' = IF roundState THEN panic ELSE kind

Called ==
    /\ Alive /\ ~stopping
    /\ calls < MaxCalls
    /\ calls' = calls + 1
    /\ UNCHANGED <<panic, overtaken>>

\* StartNewRound, which does nothing if there is a round state and no new head,
\* then the goroutine of the loop.
Start ==
    /\ Called /\ ~started
    /\ started' = TRUE
    /\ roundState' = TRUE
    /\ timer' \in IF roundState THEN {timer, TRUE} ELSE {TRUE}
    /\ spawned' = spawned + 1
    /\ UNCHANGED <<stopping, running, quits, timeouts>>

Stop_NoQuit ==
    /\ Called /\ started
    /\ timer' = FALSE
    /\ stopping' = TRUE
    /\ UNCHANGED <<started, spawned, running, quits, roundState, timeouts>>

Stop_Offers ==
    /\ Called /\ started
    /\ timer' = FALSE
    /\ quits' = IF running > 0 THEN quits + 1 ELSE quits
    /\ stopping' = TRUE
    /\ UNCHANGED <<started, spawned, running, roundState, timeouts>>

\* Stop the timer, leave it to a goroutine to send on quitCh, and wait.
Stop ==
    /\ Called /\ started
    /\ timer' = FALSE
    /\ quits' = quits + 1
    /\ stopping' = TRUE
    /\ UNCHANGED <<started, spawned, running, roundState, timeouts>>

WaitOver_AtOnce == TRUE

\* handlerWg.Wait() returns.
WaitOver == running = 0

StopReturns ==
    /\ Alive /\ stopping /\ WaitOver
    /\ stopping' = FALSE
    /\ started' = FALSE
    /\ overtaken' = (overtaken \/ spawned > 0)
    /\ UNCHANGED <<calls, spawned, running, quits, roundState, timer, timeouts, panic>>

\* handlerWg.Add(1) is the loop's first statement, in its own goroutine.
LoopBegins ==
    /\ Alive /\ spawned > 0
    /\ spawned' = spawned - 1
    /\ running' = running + 1
    /\ UNCHANGED <<calls, started, stopping, quits, roundState, timer, timeouts, panic,
                   overtaken>>

\* A handler: it needs the round state, and may arm the timer anew.
HandleMsg ==
    /\ Alive /\ running > 0
    /\ UseRoundState("handler")
    /\ timer' \in {timer, TRUE}
    /\ UNCHANGED <<calls, started, stopping, spawned, running, quits, roundState, timeouts,
                   overtaken>>

\* handleTimeoutMsg always ends in a new round or a round change, which arm the
\* timer.
HandleTimeout ==
    /\ Alive /\ running > 0 /\ timeouts > 0
    /\ timeouts' = timeouts - 1
    /\ UseRoundState("handler")
    /\ timer' = TRUE
    /\ UNCHANGED <<calls, started, stopping, spawned, running, quits, roundState, overtaken>>

\* HandleFinalCommitted: StartNewRound also makes a round state from nil.
HandleNewHead ==
    /\ Alive /\ running > 0
    /\ roundState' = TRUE
    /\ timer' = TRUE
    /\ UNCHANGED <<calls, started, stopping, spawned, running, quits, timeouts, panic,
                   overtaken>>

Done_Twice(num) == num - 2

Done(num) == num - 1

\* The loop receives from quitCh: the deferred function clears the round state.
LoopQuits ==
    /\ Alive /\ running > 0 /\ quits > 0
    /\ quits' = quits - 1
    /\ roundState' = FALSE
    /\ running' = Done(running)
    /\ UNCHANGED <<calls, started, stopping, spawned, timer, timeouts, panic,
                   overtaken>>

TimerFires ==
    /\ Alive /\ timer /\ timeouts < MaxTimeouts
    /\ timer' = FALSE
    /\ timeouts' = timeouts + 1
    /\ UNCHANGED <<calls, started, stopping, spawned, running, quits, roundState, panic,
                   overtaken>>

\* The sealer's goroutine: checkRequestMsg reads the round state.
Request ==
    /\ Alive
    /\ UseRoundState("request")
    /\ UNCHANGED <<calls, started, stopping, spawned, running, quits, roundState, timer, timeouts,
                   overtaken>>

Init ==
    /\ calls = 0 /\ started = FALSE /\ stopping = FALSE
    /\ spawned = 0 /\ running = 0 /\ quits = 0
    /\ roundState = FALSE /\ timer = FALSE /\ timeouts = 0 /\ panic = "none" /\ overtaken = FALSE

Loop == LoopBegins \/ HandleMsg \/ HandleTimeout \/ HandleNewHead \/ LoopQuits

Next == Start \/ Stop \/ StopReturns \/ Loop \/ TimerFires \/ Request

\* Goroutines get to run.  select chooses at random among the channels that are
\* ready, so quitCh is not passed over forever.
Spec ==
    /\ Init /\ [][Next]_vars
    /\ WF_vars(LoopBegins) /\ WF_vars(StopReturns) /\ SF_vars(LoopQuits)

-----------------------------------------------------------------------------
(* Properties. *)

\* The counts and flags keep their types: the wait group's counter is never
\* negative, and goroutines never outnumber the calls (Start, Stop, handleLoop).
TypeOK ==
    /\ calls \in 0 .. MaxCalls
    /\ started \in BOOLEAN /\ stopping \in BOOLEAN /\ overtaken \in BOOLEAN
    /\ spawned \in 0 .. MaxCalls /\ running \in 0 .. MaxCalls /\ quits \in 0 .. MaxCalls
    /\ roundState \in BOOLEAN /\ timer \in BOOLEAN
    /\ timeouts \in 0 .. MaxTimeouts
    /\ panic \in {"none", "handler", "request"}

\* A Stop that returns before its loop's goroutine began is the only way to two
\* loops and to a handler or a request of a served core that meets a nil round
\* state; a timeout of an earlier run, a timer armed after Stop stopped it and
\* requests at any time do no harm to a core that is being served (Start, Stop,
\* handleLoop, checkRequestMsg).
ServedSoundly ==
    ~overtaken => /\ spawned + running <= 1
                  /\ started /\ ~stopping => roundState
                  /\ panic # "handler"

\* Stop returns, even while events keep coming and the timer is armed again,
\* unless the process is gone.
StopEnds == stopping ~> (~stopping \/ ~Alive)

\* What Stop's quit is sent for: the loops of a core that stays stopped end, be
\* it after Stop has returned (Stop, handleLoop).
LoopsEnd ==
    (~started /\ ~stopping) ~> (spawned + running = 0 \/ started \/ ~Alive)

-----------------------------------------------------------------------------
(* What the repository says and the code does not do. *)

\* "确保所有的协程推出" (make sure that all goroutines have exited, Stop): when
\* Stop has returned no event loop is left, running or about to.
StopEndsLoops == ~started /\ ~stopping => spawned + running = 0
=============================================================================
