------------------------------- MODULE Emitters -------------------------------
(***************************************************************************)
(* The two emitters of events/event-bus-utilities.ts that keep events back *)
(* before they give them to EventBus.emit: createBatchedEmitter and        *)
(* createRateLimitedEmitter.  Here an emit of the bus is an await of any   *)
(* length.                                                                 *)
(*                                                                         *)
(* Batched: events 1..pushed are collected in a batch, which is flushed    *)
(* when it is full, when a timer fires, and by stop().  A flush takes the  *)
(* whole batch and emits it event by event; flushes overlap.  A timer's    *)
(* callback clears timeoutId only after its flush, so timeoutId may name a *)
(* timer that has already fired.                                           *)
(*                                                                         *)
(* Rate limited: events wait in a queue for the one call of processQueue   *)
(* that is at work.                                                        *)
(***************************************************************************)
EXTENDS Naturals, Sequences

CONSTANTS
    MaxBatchSize,
    MaxPushed,      \* bounds: events given to the batched emitter
    MaxGiven        \*    and to the rate-limited one

ASSUME EmittersAssumption == MaxPushed \in Nat /\ MaxGiven \in Nat

Timers == 1..MaxPushed

VARIABLES
    \* createBatchedEmitter
    batch,      \* events not yet taken by a flush
    pushed,     \* number of events so far
    timeoutId,  \* the timer the emitter remembers, 0 if none
    armed,      \* timers that are going to fire
    flushes,    \* what each flush in progress has still to emit, the event
                \* the bus is at first, and the timer that began it, or 0
    late,       \* ghost: an event joined the batch during a timer's flush
    \* createRateLimitedEmitter
    eventQueue,
    processing, \* what processQueue awaits: "no" while isProcessing is false
    given,      \* number of events so far
    threw       \* onRateLimitExceeded threw out of processQueue

batchVars   == <<batch, pushed, timeoutId, armed, flushes, late>>
limitVars   == <<eventQueue, processing, given, threw>>
emitterVars == <<batchVars, limitVars>>

Events == 1..MaxPushed

EmittersTypeOK ==
    /\ batch \in Seq(Events)
    /\ pushed \in 0..MaxPushed
    /\ timeoutId \in Timers \cup {0}
    /\ armed \subseteq Timers
    /\ \A f \in flushes : f.by \in Timers \cup {0} /\ f.rest \in Seq(Events)
    /\ late \in BOOLEAN
    /\ eventQueue \in Seq(1..MaxGiven)
    /\ processing \in {"no", "interval", "emit", "stuck"}
    /\ given \in 0..MaxGiven
    /\ threw \in BOOLEAN

EmittersInit ==
    /\ batch = <<>> /\ pushed = 0
    /\ timeoutId = 0 /\ armed = {}
    /\ flushes = {}
    /\ late = FALSE
    /\ eventQueue = <<>> /\ processing = "no" /\ given = 0
    /\ threw = FALSE

-----------------------------------------------------------------------------
(* createBatchedEmitter *)

(* flushBatch() of the batch b, up to its first await.                     *)
Flush(b, by) ==
    /\ flushes' = IF b = <<>> THEN flushes
                  ELSE flushes \cup {[by |-> by, rest |-> b]}
    /\ batch' = <<>>
    /\ late' = FALSE

(* Mutant: the timer is cleared and still remembered. *)
TimerAfterFullCleared ==
    armed' = armed \ {timeoutId} /\ UNCHANGED timeoutId

(* What becomes of the timer when the batch is full: it is left armed.     *)
TimerAfterFull == UNCHANGED <<timeoutId, armed>>

(* Timers that a new one is told apart from.                               *)
InUse == armed \cup {timeoutId} \cup {f.by : f \in flushes}

(* emit() of an event that is batched: it flushes a full batch, or arms a  *)
(* timer unless the emitter remembers one.                                 *)
Push ==
    /\ pushed < MaxPushed
    /\ pushed' = pushed + 1
    /\ LET b == Append(batch, pushed + 1) IN
       \/ /\ Len(b) >= MaxBatchSize
          /\ Flush(b, 0)
          /\ TimerAfterFull
       \/ /\ Len(b) < MaxBatchSize
          /\ batch' = b
          /\ UNCHANGED flushes
          /\ \/ /\ timeoutId = 0
                /\ \E t \in Timers \ InUse :
                    /\ \A u \in Timers \ InUse : t <= u
                    /\ timeoutId' = t
                    /\ armed' = armed \cup {t}
                /\ UNCHANGED late
             \/ /\ timeoutId # 0
                /\ late' = (late \/ \E f \in flushes : f.by = timeoutId)
                /\ UNCHANGED <<timeoutId, armed>>
    /\ UNCHANGED limitVars

(* The callback of a timer.  With an empty batch its flush returns at once *)
(* and timeoutId is cleared, even if it is another timer's by now.         *)
TimerFires(t) ==
    /\ t \in armed
    /\ armed' = armed \ {t}
    /\ Flush(batch, t)
    /\ timeoutId' = IF batch = <<>> THEN 0 ELSE timeoutId
    /\ UNCHANGED <<pushed, limitVars>>

(* The bus is done with the event a flush is at.                           *)
FlushGoes(f) ==
    /\ f \in flushes
    /\ \/ /\ Len(f.rest) > 1
          /\ flushes' = (flushes \ {f}) \cup {[f EXCEPT !.rest = Tail(@)]}
          /\ UNCHANGED timeoutId
       \/ /\ Len(f.rest) = 1
          /\ flushes' = flushes \ {f}
          /\ timeoutId' = IF f.by # 0 THEN 0 ELSE timeoutId
    /\ UNCHANGED <<batch, pushed, armed, late, limitVars>>

(* stop(): the timer it remembers is cleared and the batch flushed.        *)
StopBatching ==
    /\ timeoutId # 0 \/ batch # <<>>
    /\ armed' = armed \ {timeoutId}
    /\ timeoutId' = 0
    /\ Flush(batch, 0)
    /\ UNCHANGED <<pushed, limitVars>>

ClearBatch ==
    /\ batch # <<>>
    /\ batch' = <<>>
    /\ late' = FALSE
    /\ UNCHANGED <<pushed, timeoutId, armed, flushes, limitVars>>

-----------------------------------------------------------------------------
(* createRateLimitedEmitter *)

(* The loop of processQueue with the queue q, up to its next await: it     *)
(* ends when the queue is empty, waits when the last emit was too recent,  *)
(* after it told so, and emits.  onRateLimitExceeded may throw, and then   *)
(* isProcessing stays true.                                                *)
Process(q) ==
    \/ /\ q = <<>>
       /\ processing' = "no"
       /\ eventQueue' = q
       /\ UNCHANGED threw
    \/ /\ q # <<>>
       /\ processing' = "emit"
       /\ eventQueue' = Tail(q)
       /\ UNCHANGED threw
    \/ /\ q # <<>>
       /\ processing' = "interval"
       /\ eventQueue' = q
       /\ UNCHANGED threw
    \/ /\ q # <<>>
       /\ processing' = "stuck"
       /\ eventQueue' = q
       /\ threw' = TRUE

(* emit(): the event is queued, and processed unless a call is at work.    *)
Give ==
    /\ given < MaxGiven
    /\ given' = given + 1
    /\ LET q == Append(eventQueue, given + 1) IN
       \/ processing = "no" /\ Process(q)
       \/ /\ processing # "no"
          /\ eventQueue' = q
          /\ UNCHANGED <<processing, threw>>
    /\ UNCHANGED batchVars

(* The interval is over; if the queue was cleared there is nothing to      *)
(* emit.                                                                   *)
IntervalEnds ==
    /\ processing = "interval"
    /\ \/ eventQueue = <<>> /\ processing' = "no" /\ UNCHANGED eventQueue
       \/ /\ eventQueue # <<>>
          /\ processing' = "emit"
          /\ eventQueue' = Tail(eventQueue)
    /\ UNCHANGED <<given, threw, batchVars>>

(* Mutant: processQueue returns after one event and stays processing. *)
EmitReturnsBusy ==
    /\ processing = "emit"
    /\ processing' = "stuck"
    /\ UNCHANGED <<eventQueue, threw, given, batchVars>>

(* The bus is done with the event.                                         *)
EmitReturns ==
    /\ processing = "emit"
    /\ Process(eventQueue)
    /\ UNCHANGED <<given, batchVars>>

ClearQueue ==
    /\ eventQueue # <<>>
    /\ eventQueue' = <<>>
    /\ UNCHANGED <<processing, given, threw, batchVars>>

SomeTimerFires == \E t \in Timers : TimerFires(t)
SomeFlushGoes  == \E f \in flushes : FlushGoes(f)

EmittersNext ==
    \/ Push \/ SomeTimerFires \/ SomeFlushGoes
    \/ StopBatching \/ ClearBatch
    \/ Give \/ IntervalEnds \/ EmitReturns \/ ClearQueue

(* Timers fire and the bus ends each emit.                                 *)
EmittersFairness ==
    /\ WF_emitterVars(SomeTimerFires) /\ WF_emitterVars(SomeFlushGoes)
    /\ WF_emitterVars(IntervalEnds) /\ WF_emitterVars(EmitReturns)

EmittersSpec == EmittersInit /\ [][EmittersNext]_emitterVars /\ EmittersFairness

-----------------------------------------------------------------------------
(* No event is kept for ever: the batch is flushed unless an event joined  *)
(* it while a timer's flush awaited its handlers, which holds the place of *)
(* the next timer; and the queue of the rate limit is emptied unless its   *)
(* callback threw out of the loop.                                         *)
EventsGoOut ==
    /\ batch # <<>> ~> batch = <<>> \/ late
    /\ eventQueue # <<>> ~> eventQueue = <<>> \/ threw

=============================================================================
