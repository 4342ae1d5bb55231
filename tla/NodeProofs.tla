------------------------------ MODULE NodeProofs ------------------------------
(***************************************************************************)
(* What holds of the events and the end of a node, and of all its          *)
(* components side by side, whatever their constants: a listener of once() *)
(* is called once; events that are held back have something under way that *)
(* takes them out; whoever waits for an answer is served until the end;    *)
(* and the node of MCNode does what its components do and has every one of *)
(* their types and safety properties.                                      *)
(***************************************************************************)
EXTENDS MCNode, PeerKeysProofs, TableProofs, ConnectionProofs, TLAPS

-----------------------------------------------------------------------------
(* EventBus: a wrapper of once() is added a single time.                   *)

(* Whoever is registered, is called or has run was added.                  *)
AddedOnce ==
    /\ registry \cap Once \subseteq added
    /\ ranWell \cap Once \subseteq added
    /\ \A e \in 1..Emits : calls[e] \cap Once \subseteq added

BusIInv == BusTypeOK /\ AddedOnce /\ OnceIsGone

LEMMA InitBusIInv == BusInit => BusIInv
<1> SUFFICES ASSUME BusInit PROVE BusIInv
  OBVIOUS
<1>1. history \in Seq(1..Emits)
  BY DEF BusInit
<1>2. QED
  BY <1>1 DEF BusInit, BusIInv, BusTypeOK, AddedOnce, OnceIsGone

(* The history holds events, however it is cut.                            *)
LEMMA UpdateKeepsType ==
    ASSUME BusTypeOK, NEW e \in 1..Emits, UpdateHistory(e)
    PROVE  history' \in Seq(1..Emits)
<1> DEFINE h == Append(history, e)
<1>1. h \in Seq(1..Emits)
  BY DEF BusTypeOK
<1>2. history' = Keep(h)
  BY DEF UpdateHistory
<1> HIDE DEF h
<1>3. CASE Len(h) > MaxHistorySize
  <2>1. Len(h) \in Nat
    BY <1>1
  <2>2. \A i \in Len(h) - MaxHistorySize + 1..Len(h) : i \in 1..Len(h)
    BY <1>3, <2>1, BusAssumption
  <2>3. SubSeq(h, Len(h) - MaxHistorySize + 1, Len(h)) \in Seq(1..Emits)
    BY <1>1, <2>1, <2>2, BusAssumption
  <2>4. QED
    BY <1>2, <1>3, <2>3 DEF Keep
<1>4. CASE ~(Len(h) > MaxHistorySize)
  BY <1>1, <1>2, <1>4 DEF Keep
<1>5. QED
  BY <1>3, <1>4

(* Only a wrapper that was never added is registered anew.                 *)
LEMMA ListenersKeep ==
    ASSUME BusIInv, NEW l \in Listeners, AddListener(l) \/ RemoveListener(l)
    PROVE  BusIInv'
<1>1. CASE AddListener(l)
  BY <1>1 DEF AddListener, BusIInv, BusTypeOK, AddedOnce, OnceIsGone
<1>2. CASE RemoveListener(l)
  BY <1>2 DEF RemoveListener, BusIInv, BusTypeOK, AddedOnce, OnceIsGone
<1>3. QED
  BY <1>1, <1>2

LEMMA EmitBeginsKeeps ==
    ASSUME BusIInv, NEW e \in 1..Emits, EmitBegins(e)
    PROVE  BusIInv'
<1>1. /\ UNCHANGED <<registry, added, shut, ranWell>>
      /\ calls' \in {calls, [calls EXCEPT ![e] = registry]}
      /\ \E p \in {"over", "running"} : phase' = [phase EXCEPT ![e] = p]
      /\ UpdateHistory(e) \/ UNCHANGED history
  BY DEF EmitBegins
<1>2. history' \in Seq(1..Emits)
  BY <1>1, UpdateKeepsType DEF BusIInv, BusTypeOK
<1>3. BusTypeOK'
  BY <1>1, <1>2 DEF BusIInv, BusTypeOK
<1>4. AddedOnce' /\ OnceIsGone'
  BY <1>1 DEF BusIInv, BusTypeOK, AddedOnce, OnceIsGone
<1>5. QED
  BY <1>3, <1>4 DEF BusIInv

(* A wrapper whose handler succeeds removes itself, and was added.         *)
LEMMA HandlersKeep ==
    ASSUME BusIInv, NEW e \in 1..Emits, NEW l \in Listeners,
           HandlerReturns(e, l) \/ HandlerThrows(e, l)
    PROVE  BusIInv'
<1>1. CASE HandlerReturns(e, l)
  BY <1>1 DEF HandlerReturns, AfterOnce, BusIInv, BusTypeOK, AddedOnce, OnceIsGone
<1>2. CASE HandlerThrows(e, l)
  BY <1>2 DEF HandlerThrows, BusIInv, BusTypeOK, AddedOnce, OnceIsGone
<1>3. QED
  BY <1>1, <1>2

LEMMA EmitEndsKeeps ==
    ASSUME BusIInv, NEW e \in 1..Emits, EmitEnds(e)
    PROVE  BusIInv'
<1>1. history' \in Seq(1..Emits)
  BY UpdateKeepsType DEF EmitEnds, BusIInv
<1>2. QED
  BY <1>1 DEF EmitEnds, BusIInv, BusTypeOK, AddedOnce, OnceIsGone

LEMMA BusStepKeeps == BusIInv /\ [BusNext]_busVars => BusIInv'
<1> SUFFICES ASSUME BusIInv, [BusNext]_busVars PROVE BusIInv'
  OBVIOUS
<1>1. CASE RemoveAllListeners
  BY <1>1 DEF RemoveAllListeners, BusIInv, BusTypeOK, AddedOnce, OnceIsGone
<1>2. CASE ClearHistory \/ Shutdown
  <2>1. <<>> \in Seq(1..Emits)
    OBVIOUS
  <2>2. QED
    BY <1>2, <2>1
    DEF ClearHistory, Shutdown, BusIInv, BusTypeOK, AddedOnce, OnceIsGone
<1>3. CASE UNCHANGED busVars
  BY <1>3 DEF busVars, BusIInv, BusTypeOK, AddedOnce, OnceIsGone
<1>4. QED
  BY <1>1, <1>2, <1>3, ListenersKeep, EmitBeginsKeeps, HandlersKeep, EmitEndsKeeps
  DEF BusNext

(* A handler that was added with once() and has succeeded is not           *)
(* registered again, however many emits, removals and shutdowns overlap    *)
(* (EventBus.once).                                                        *)
THEOREM OnceCorrect == BusSpec => []OnceIsGone
<1>1. BusIInv => OnceIsGone
  BY DEF BusIInv
<1>2. QED
  BY InitBusIInv, BusStepKeeps, <1>1, PTL DEF BusSpec

-----------------------------------------------------------------------------
(* Emitters: something is under way that takes out what is held back.      *)

(* A timer the batched emitter remembers is going to fire or has a flush.  *)
TimerIsAlive == timeoutId # 0 => timeoutId \in armed \/ \E f \in flushes : f.by = timeoutId

(* What a timer or processQueue is going to emit.                          *)
HeldIsDue ==
    /\ batch # <<>> => late \/ armed # {}
    /\ eventQueue # <<>> => threw \/ processing \in {"interval", "emit"}

StuckThrew == processing = "stuck" => threw

EmittersIInv == EmittersTypeOK /\ TimerIsAlive /\ HeldIsDue /\ StuckThrew

(* The parts of it that the batched emitter and the queue each have.       *)
BatchPart ==
    /\ batch \in Seq(Events) /\ pushed \in 0..MaxPushed
    /\ timeoutId \in Timers \cup {0} /\ armed \subseteq Timers /\ late \in BOOLEAN
    /\ \A f \in flushes : f.by \in Timers \cup {0} /\ f.rest \in Seq(Events)
    /\ TimerIsAlive
    /\ batch # <<>> => late \/ armed # {}

QueuePart ==
    /\ eventQueue \in Seq(1..MaxGiven) /\ given \in 0..MaxGiven /\ threw \in BOOLEAN
    /\ processing \in {"no", "interval", "emit", "stuck"}
    /\ eventQueue # <<>> => threw \/ processing \in {"interval", "emit"}
    /\ StuckThrew

LEMMA TwoParts == EmittersIInv <=> BatchPart /\ QueuePart
BY DEF EmittersIInv, BatchPart, QueuePart, EmittersTypeOK, HeldIsDue

LEMMA InitEmittersIInv == EmittersInit => EmittersIInv
<1> SUFFICES ASSUME EmittersInit PROVE BatchPart /\ QueuePart
  BY TwoParts
<1>1. 0 \in 0..MaxPushed /\ 0 \in 0..MaxGiven
  BY EmittersAssumption
<1>2. BatchPart
  <2>1. batch \in Seq(Events) /\ pushed \in 0..MaxPushed /\ ~(batch # <<>>)
    BY <1>1 DEF EmittersInit
  <2>2. TimerIsAlive
    BY DEF EmittersInit, TimerIsAlive
  <2>3. QED
    BY <2>1, <2>2 DEF EmittersInit, BatchPart
<1>3. QueuePart
  <2>1. eventQueue \in Seq(1..MaxGiven) /\ given \in 0..MaxGiven /\ ~(eventQueue # <<>>)
    BY <1>1 DEF EmittersInit
  <2>2. QED
    BY <2>1 DEF EmittersInit, QueuePart, StuckThrew
<1>4. QED
  BY <1>2, <1>3

(* A flush empties the batch; what it takes is still of events.            *)
LEMMA FlushKeeps ==
    ASSUME BatchPart, NEW b \in Seq(Events), NEW by \in Timers \cup {0}, Flush(b, by),
           pushed' \in 0..MaxPushed, timeoutId' \in Timers \cup {0}, armed' \subseteq Timers,
           timeoutId' # 0 => timeoutId' = timeoutId /\
                             (timeoutId \in armed => timeoutId \in armed'
                                                     \/ (b # <<>> /\ by = timeoutId))
    PROVE  BatchPart'
<1>1. /\ flushes' = IF b = <<>> THEN flushes ELSE flushes \cup {[by |-> by, rest |-> b]}
      /\ batch' = <<>> /\ late' = FALSE
  BY DEF Flush
<1>2. \A f \in flushes' : f.by \in Timers \cup {0} /\ f.rest \in Seq(Events)
  BY <1>1 DEF BatchPart
<1>3. TimerIsAlive'
  <2> SUFFICES ASSUME timeoutId' # 0
               PROVE  timeoutId' \in armed' \/ \E f \in flushes' : f.by = timeoutId'
    BY DEF TimerIsAlive
  <2>1. timeoutId' = timeoutId
    OBVIOUS
  <2>2. CASE \E f \in flushes : f.by = timeoutId
    BY <1>1, <2>1, <2>2
  <2>3. CASE timeoutId \in armed
    <3>1. CASE b # <<>> /\ by = timeoutId
      <4>1. [by |-> by, rest |-> b] \in flushes' /\ [by |-> by, rest |-> b].by = timeoutId
        BY <1>1, <3>1
      <4>2. QED
        BY <2>1, <4>1
    <3>2. QED
      BY <2>1, <2>3, <3>1
  <2>4. QED
    BY <2>1, <2>2, <2>3 DEF BatchPart, TimerIsAlive
<1>4. batch' \in Seq(Events) /\ late' \in BOOLEAN /\ ~(batch' # <<>>)
  <2>1. <<>> \in Seq(Events)
    OBVIOUS
  <2>2. batch' = <<>> /\ late' \in BOOLEAN
    BY <1>1
  <2>3. QED
    BY <2>1, <2>2
<1>5. QED
  BY <1>2, <1>3, <1>4 DEF BatchPart

LEMMA PushKeeps == ASSUME BatchPart, Push PROVE BatchPart'
<1> DEFINE b == Append(batch, pushed + 1)
<1>1. /\ pushed < MaxPushed /\ pushed' = pushed + 1
      /\ \/ Flush(b, 0) /\ timeoutId' = timeoutId /\ armed' = armed
         \/ /\ batch' = b /\ flushes' = flushes
            /\ \/ /\ timeoutId = 0
                  /\ \E t \in Timers : timeoutId' = t /\ armed' = armed \cup {t}
                  /\ late' = late
               \/ /\ timeoutId # 0
                  /\ late' = (late \/ \E f \in flushes : f.by = timeoutId)
                  /\ timeoutId' = timeoutId /\ armed' = armed
  BY DEF Push, TimerAfterFull
<1>2. pushed' \in 0..MaxPushed /\ b \in Seq(Events)
  <2>1. pushed \in 0..MaxPushed /\ batch \in Seq(Events)
    BY DEF BatchPart
  <2>2. pushed' \in 0..MaxPushed /\ pushed + 1 \in Events
    BY <1>1, <2>1, EmittersAssumption DEF Events
  <2>3. QED
    BY <2>1, <2>2
<1> HIDE DEF b
<1>3. CASE Flush(b, 0) /\ timeoutId' = timeoutId /\ armed' = armed
  BY <1>2, <1>3, FlushKeeps DEF BatchPart
<1>4. CASE /\ batch' = b /\ flushes' = flushes /\ late' = late
           /\ \E t \in Timers : timeoutId' = t /\ armed' = armed \cup {t}
  BY <1>2, <1>4 DEF BatchPart, TimerIsAlive
<1>5. CASE /\ batch' = b /\ flushes' = flushes /\ timeoutId # 0
           /\ late' = (late \/ \E f \in flushes : f.by = timeoutId)
           /\ timeoutId' = timeoutId /\ armed' = armed
  <2>1. late' \in BOOLEAN
    BY <1>5
  <2>2. late' \/ armed' # {}
    BY <1>5 DEF BatchPart, TimerIsAlive
  <2>3. TimerIsAlive'
    BY <1>5 DEF BatchPart, TimerIsAlive
  <2>4. QED
    BY <1>2, <1>5, <2>1, <2>2, <2>3 DEF BatchPart
<1>6. QED
  BY <1>1, <1>3, <1>4, <1>5

LEMMA TimerFiresKeeps == ASSUME BatchPart, NEW t \in Timers, TimerFires(t) PROVE BatchPart'
<1>1. /\ t \in armed /\ armed' = armed \ {t} /\ Flush(batch, t)
      /\ timeoutId' = IF batch = <<>> THEN 0 ELSE timeoutId
      /\ pushed' = pushed
  BY DEF TimerFires
<1>2. QED
  BY <1>1, FlushKeeps DEF BatchPart

LEMMA FlushGoesKeeps == ASSUME BatchPart, NEW f \in flushes, FlushGoes(f) PROVE BatchPart'
<1>1. batch' = batch /\ pushed' = pushed /\ armed' = armed /\ late' = late
  BY DEF FlushGoes
<1>2. f.by \in Timers \cup {0} /\ f.rest \in Seq(Events)
  BY DEF BatchPart
<1>3. CASE /\ Len(f.rest) > 1 /\ timeoutId' = timeoutId
           /\ flushes' = (flushes \ {f}) \cup {[f EXCEPT !.rest = Tail(@)]}
  <2> DEFINE g == [f EXCEPT !.rest = Tail(@)]
  <2>1. g.by = f.by /\ g.rest = Tail(f.rest)
    OBVIOUS
  <2>2. Tail(f.rest) \in Seq(Events)
    <3>1. f.rest # <<>>
      BY <1>2, <1>3
    <3>2. QED
      BY <1>2, <3>1
  <2> HIDE DEF g
  <2>3. \A e \in flushes' : e.by \in Timers \cup {0} /\ e.rest \in Seq(Events)
    BY <1>2, <1>3, <2>1, <2>2 DEF BatchPart, g
  <2>4. TimerIsAlive'
    BY <1>1, <1>3, <2>1 DEF BatchPart, TimerIsAlive, g
  <2>5. QED
    BY <1>1, <1>3, <2>3, <2>4 DEF BatchPart
<1>4. CASE /\ flushes' = flushes \ {f}
           /\ timeoutId' = IF f.by # 0 THEN 0 ELSE timeoutId
  <2>1. TimerIsAlive'
    BY <1>1, <1>4 DEF BatchPart, TimerIsAlive
  <2>2. QED
    BY <1>1, <1>4, <2>1 DEF BatchPart
<1>5. QED
  BY <1>3, <1>4 DEF FlushGoes

LEMMA StopOrClearKeeps == ASSUME BatchPart, StopBatching \/ ClearBatch PROVE BatchPart'
<1>1. CASE StopBatching
  <2>1. armed' = armed \ {timeoutId} /\ timeoutId' = 0 /\ Flush(batch, 0) /\ pushed' = pushed
    BY <1>1 DEF StopBatching
  <2>2. QED
    BY <2>1, FlushKeeps DEF BatchPart
<1>2. CASE ClearBatch
  <2>1. /\ batch' = <<>> /\ late' = FALSE /\ pushed' = pushed
        /\ timeoutId' = timeoutId /\ armed' = armed /\ flushes' = flushes
    BY <1>2 DEF ClearBatch
  <2>2. batch' \in Seq(Events) /\ late' \in BOOLEAN /\ ~(batch' # <<>>)
    <3>1. <<>> \in Seq(Events)
      OBVIOUS
    <3>2. batch' = <<>> /\ late' \in BOOLEAN
      BY <2>1
    <3>3. QED
      BY <3>1, <3>2
  <2>3. TimerIsAlive'
    BY <2>1 DEF BatchPart, TimerIsAlive
  <2>4. QED
    BY <2>1, <2>2, <2>3 DEF BatchPart
<1>3. QED
  BY <1>1, <1>2

LEMMA ProcessKeeps ==
    ASSUME QueuePart, NEW q \in Seq(1..MaxGiven), Process(q), given' \in 0..MaxGiven
    PROVE  QueuePart'
<1>1. CASE q = <<>> /\ processing' = "no" /\ eventQueue' = q /\ threw' = threw
  BY <1>1 DEF QueuePart, StuckThrew
<1>2. CASE q # <<>> /\ processing' = "emit" /\ eventQueue' = Tail(q) /\ threw' = threw
  <2>1. Tail(q) \in Seq(1..MaxGiven)
    BY <1>2
  <2>2. QED
    BY <1>2, <2>1 DEF QueuePart, StuckThrew
<1>3. CASE processing' = "interval" /\ eventQueue' = q /\ threw' = threw
  BY <1>3 DEF QueuePart, StuckThrew
<1>4. CASE processing' = "stuck" /\ eventQueue' = q /\ threw' = TRUE
  BY <1>4 DEF QueuePart, StuckThrew
<1>5. QED
  BY <1>1, <1>2, <1>3, <1>4 DEF Process

LEMMA QueueKeeps ==
    ASSUME QueuePart, Give \/ IntervalEnds \/ EmitReturns \/ ClearQueue
    PROVE  QueuePart'
<1>1. eventQueue \in Seq(1..MaxGiven) /\ given \in 0..MaxGiven
  BY DEF QueuePart
<1>2. CASE Give
  <2> DEFINE q == Append(eventQueue, given + 1)
  <2>1. /\ given < MaxGiven /\ given' = given + 1
        /\ \/ Process(q)
           \/ /\ processing # "no" /\ eventQueue' = q
              /\ processing' = processing /\ threw' = threw
    BY <1>2 DEF Give
  <2>2. given' \in 0..MaxGiven /\ given + 1 \in 1..MaxGiven
    BY <1>1, <2>1, EmittersAssumption
  <2>3. q \in Seq(1..MaxGiven)
    BY <1>1, <2>2
  <2> HIDE DEF q
  <2>4. CASE Process(q)
    BY <2>2, <2>3, <2>4, ProcessKeeps
  <2>5. CASE processing # "no" /\ eventQueue' = q /\ processing' = processing /\ threw' = threw
    BY <2>2, <2>3, <2>5 DEF QueuePart, StuckThrew
  <2>6. QED
    BY <2>1, <2>4, <2>5
<1>3. CASE IntervalEnds
  <2>1. given' = given /\ threw' = threw
    BY <1>3 DEF IntervalEnds
  <2>2. CASE eventQueue = <<>> /\ processing' = "no" /\ eventQueue' = eventQueue
    BY <2>1, <2>2 DEF QueuePart, StuckThrew
  <2>3. CASE eventQueue # <<>> /\ processing' = "emit" /\ eventQueue' = Tail(eventQueue)
    <3>1. Tail(eventQueue) \in Seq(1..MaxGiven)
      BY <1>1, <2>3
    <3>2. QED
      BY <2>1, <2>3, <3>1 DEF QueuePart, StuckThrew
  <2>4. QED
    BY <1>3, <2>2, <2>3 DEF IntervalEnds
<1>4. CASE EmitReturns
  BY <1>1, <1>4, ProcessKeeps DEF EmitReturns
<1>5. CASE ClearQueue
  BY <1>5 DEF ClearQueue, QueuePart, StuckThrew
<1>6. QED
  BY <1>2, <1>3, <1>4, <1>5

LEMMA EmittersStepKeeps == EmittersIInv /\ [EmittersNext]_emitterVars => EmittersIInv'
<1> SUFFICES ASSUME BatchPart, QueuePart, [EmittersNext]_emitterVars
             PROVE  BatchPart' /\ QueuePart'
  BY TwoParts DEF EmittersIInv, EmittersTypeOK, BatchPart, QueuePart, HeldIsDue
<1>1. ASSUME UNCHANGED batchVars PROVE BatchPart'
  BY <1>1 DEF batchVars, BatchPart, TimerIsAlive
<1>2. ASSUME UNCHANGED limitVars PROVE QueuePart'
  BY <1>2 DEF limitVars, QueuePart, StuckThrew
<1>3. CASE Push \/ SomeTimerFires \/ SomeFlushGoes \/ StopBatching \/ ClearBatch
  <2>1. UNCHANGED limitVars
    BY <1>3 DEF Push, SomeTimerFires, TimerFires, SomeFlushGoes, FlushGoes,
                StopBatching, ClearBatch
  <2>2. BatchPart'
    BY <1>3, PushKeeps, TimerFiresKeeps, FlushGoesKeeps, StopOrClearKeeps
       DEF SomeTimerFires, SomeFlushGoes
  <2>3. QED
    BY <1>2, <2>1, <2>2
<1>4. CASE Give \/ IntervalEnds \/ EmitReturns \/ ClearQueue
  <2>1. UNCHANGED batchVars
    BY <1>4 DEF Give, IntervalEnds, EmitReturns, ClearQueue
  <2>2. QED
    BY <1>1, <1>4, <2>1, QueueKeeps
<1>5. CASE UNCHANGED emitterVars
  BY <1>1, <1>2, <1>5 DEF emitterVars
<1>6. QED
  BY <1>3, <1>4, <1>5 DEF EmittersNext

(* What createBatchedEmitter and createRateLimitedEmitter hold back is due *)
(* to a timer or to processQueue: the safety that EventsGoOut needs.       *)
THEOREM HeldCorrect == EmittersSpec => []HeldIsDue
<1>1. EmittersIInv => HeldIsDue
  BY DEF EmittersIInv
<1>2. QED
  BY InitEmittersIInv, EmittersStepKeeps, <1>1, PTL DEF EmittersSpec

-----------------------------------------------------------------------------
(* Shutdown: whoever waits for an answer is served until the end.          *)

(* Who waits for an answer, and how far a way out is that has seen the     *)
(* last connection end.                                                    *)
Served == {r \in Requests : request[r] = "served"}
Beyond == {"libp2p", "close", "event"}

WayFunctions ==
    /\ request \in [Requests -> {"none", "served", "abandoned", "over"}]
    /\ way \in [Ways -> {"none", "asked", "api"} \cup Beyond]

(* Nothing has been asked for before the server listens.                   *)
StartIsQuiet ==
    process = "starting" =>
        /\ ~listening /\ Served = {}
        /\ \A w \in Ways : way[w] = "none"

(* A way out that has begun has closed the server ...                      *)
WayOutCloses ==
    \A w \in Ways : way[w] \in {"api"} \cup Beyond => ~listening

(* ... and one that has gone on has seen its last connection end.          *)
WayOutDrains ==
    \A w \in Ways : way[w] \in Beyond => Served = {}

(* The node of a way out through POST has stopped its timer; libp2p is up  *)
(* until one of them stops it, and stopping as long as that one waits; and *)
(* whichever closed the database is about to end the process.              *)
RetriesStopped == \A r \in Requests : way[r] \in Beyond => ~timerSet
Libp2pInStep ==
    /\ libp2p = "up" => \A r \in Requests : way[r] \notin Beyond
    /\ libp2p = "stopping" => \E r \in Requests : way[r] = "libp2p"
ClosedIsEnding == Alive /\ ~dbOpen => \E r \in Requests : way[r] = "event"

ServedIsAlive == Served # {} => Alive

ShutdownIInv ==
    /\ WayFunctions /\ StartIsQuiet /\ WayOutCloses /\ WayOutDrains
    /\ RetriesStopped /\ libp2p \in {"up", "stopping", "down"}
    /\ Libp2pInStep /\ ClosedIsEnding /\ ServedIsAlive

(* The process has just initialised its node.                              *)
LEMMA InitShutdownIInv == ShutdownInit => ShutdownIInv
<1> SUFFICES ASSUME ShutdownInit PROVE ShutdownIInv
  OBVIOUS
<1>1. /\ \A w \in Ways : way[w] = "none" /\ way[w] \notin {"api"} \cup Beyond
      /\ Requests \subseteq Ways /\ Served = {} /\ WayFunctions
  BY DEF ShutdownInit, Beyond, Ways, Served, WayFunctions
<1>2. StartIsQuiet /\ WayOutCloses /\ WayOutDrains /\ ServedIsAlive
  BY <1>1 DEF ShutdownInit, StartIsQuiet, WayOutCloses, WayOutDrains, ServedIsAlive
<1>3. RetriesStopped /\ Libp2pInStep /\ ClosedIsEnding
  BY <1>1 DEF ShutdownInit, RetriesStopped, Libp2pInStep, ClosedIsEnding
<1>4. QED
  BY <1>1, <1>2, <1>3 DEF ShutdownInit, ShutdownIInv

(* A database that is closed while the process lives belongs to a way out  *)
(* that has gone beyond every request.                                     *)
LEMMA ServedFollows == ShutdownIInv => ServedUntilTheEnd
<1> SUFFICES ASSUME ShutdownIInv PROVE ServedUntilTheEnd
  OBVIOUS
<1>1. ASSUME NEW r \in Requests, request[r] = "served" PROVE Alive /\ dbOpen
  <2>1. Served # {} /\ Alive
    BY <1>1 DEF ShutdownIInv, Served, ServedIsAlive
  <2>2. QED
    BY <2>1 DEF ShutdownIInv, WayOutDrains, ClosedIsEnding, Ways, Beyond
<1>2. ASSUME Alive, ~dbOpen
      PROVE  /\ ~timerSet
             /\ \/ libp2p = "down"
                \/ \E r, other \in Requests : way[r] = "event" /\ way[other] = "libp2p"
  <2>1. PICK r \in Requests : way[r] = "event"
    BY <1>2 DEF ShutdownIInv, ClosedIsEnding
  <2>2. ~timerSet /\ libp2p # "up"
    BY <2>1 DEF ShutdownIInv, RetriesStopped, Libp2pInStep, Beyond
  <2>3. QED
    BY <2>1, <2>2 DEF ShutdownIInv, Libp2pInStep
<1>3. QED
  BY <1>1, <1>2 DEF ServedUntilTheEnd

-----------------------------------------------------------------------------
(* The start *)

LEMMA StartKeeps ==
    ASSUME ShutdownIInv, NEW inUse \in BOOLEAN,
           Listens \/ BootstrapDialled \/ ListenFails(inUse)
    PROVE  ShutdownIInv'
<1>1. UNCHANGED <<request, way, timerSet, libp2p, dbOpen>>
  BY DEF Listens, BootstrapDialled, ListenFails
<1>2. Served' = Served
  BY <1>1 DEF Served
<1>3. WayFunctions' /\ WayOutDrains' /\ RetriesStopped' /\ Libp2pInStep'
      /\ libp2p' \in {"up", "stopping", "down"}
  BY <1>1, <1>2 DEF ShutdownIInv, WayFunctions, WayOutDrains, RetriesStopped, Libp2pInStep
<1>4. CASE Listens
  <2>1. Served = {} /\ \A w \in Ways : way[w] = "none"
    BY <1>4 DEF ShutdownIInv, StartIsQuiet, Listens
  <2>2. process' = "dialling" /\ process = "starting"
    BY <1>4 DEF Listens
  <2>3. QED
    BY <1>1, <1>2, <1>3, <2>1, <2>2 DEF ShutdownIInv, StartIsQuiet, WayOutCloses,
       ClosedIsEnding, ServedIsAlive, Alive, Beyond
<1>5. CASE BootstrapDialled
  <2>1. process = "dialling" /\ process' = "running" /\ UNCHANGED listening
    BY <1>5 DEF BootstrapDialled
  <2>2. QED
    BY <1>1, <1>2, <1>3, <2>1 DEF ShutdownIInv, StartIsQuiet, WayOutCloses,
       ClosedIsEnding, ServedIsAlive, Alive
<1>6. CASE ListenFails(inUse)
  <2>1. /\ process = "starting" /\ process' \in {"starting", "exited"}
        /\ UNCHANGED listening
    BY <1>6 DEF ListenFails
  <2>2. Served = {}
    BY <2>1 DEF ShutdownIInv, StartIsQuiet
  <2>3. QED
    BY <1>1, <1>2, <1>3, <2>1, <2>2 DEF ShutdownIInv, StartIsQuiet, WayOutCloses,
       ClosedIsEnding, ServedIsAlive, Alive
<1>7. QED
  BY <1>4, <1>5, <1>6

-----------------------------------------------------------------------------
(* The work *)

(* A request comes only through an open server of a process that lives.    *)
LEMMA ArrivalKeeps ==
    ASSUME ShutdownIInv, NEW r \in Requests, RequestArrives(r)
    PROVE  ShutdownIInv'
<1>1. /\ listening /\ Alive /\ request' = [request EXCEPT ![r] = "served"]
      /\ UNCHANGED <<process, way, listening, timerSet, libp2p, dbOpen>>
  BY DEF RequestArrives, Becomes
<1>2. \A w \in Ways : way[w] \notin Beyond
  BY <1>1 DEF ShutdownIInv, WayOutCloses
<1>3. process # "starting"
  BY <1>1 DEF ShutdownIInv, StartIsQuiet
<1>4. WayFunctions'
  BY <1>1 DEF ShutdownIInv, WayFunctions
<1>5. QED
  BY <1>1, <1>2, <1>3, <1>4 DEF ShutdownIInv, StartIsQuiet, WayOutCloses, WayOutDrains,
     RetriesStopped, Libp2pInStep, ClosedIsEnding, ServedIsAlive, Alive

(* A request that ends, or whose client leaves, leaves one less to wait    *)
(* for.                                                                    *)
LEMMA EndKeeps ==
    ASSUME ShutdownIInv, NEW r \in Requests, ClientLeaves(r) \/ HandlerEnds(r)
    PROVE  ShutdownIInv'
<1>1. PICK s \in {"abandoned", "over"} : request' = [request EXCEPT ![r] = s]
  BY DEF ClientLeaves, HandlerEnds, Becomes
<1>2. Alive /\ UNCHANGED <<process, listening, way, timerSet, libp2p, dbOpen>>
  BY DEF ClientLeaves, HandlerEnds, Becomes
<1>3. Served' \subseteq Served /\ WayFunctions'
  BY <1>1, <1>2 DEF ShutdownIInv, WayFunctions, Served
<1>4. QED
  BY <1>2, <1>3 DEF ShutdownIInv, StartIsQuiet, WayOutCloses, WayOutDrains,
     RetriesStopped, Libp2pInStep, ClosedIsEnding, ServedIsAlive, Alive

(* Retry passes and receive() change nothing a request depends on.         *)
LEMMA WorkKeeps ==
    ASSUME ShutdownIInv, NEW w, WorkBegins(w) \/ WorkEnds(w)
    PROVE  ShutdownIInv'
<1>1. UNCHANGED <<process, listening, request, way, timerSet, libp2p, dbOpen>>
  BY DEF WorkBegins, WorkEnds
<1>2. QED
  BY <1>1 DEF ShutdownIInv, WayFunctions, StartIsQuiet, Served, WayOutCloses,
     WayOutDrains, RetriesStopped, Libp2pInStep, ClosedIsEnding, ServedIsAlive, Alive

-----------------------------------------------------------------------------
(* The ways out *)

(* A way out that is not beyond the requests, and stays so: it is asked    *)
(* for, or closes the server.                                              *)
LEMMA BeginningKeeps ==
    ASSUME ShutdownIInv, NEW w \in Ways, NEW s \in {"asked", "api"},
           way' = [way EXCEPT ![w] = s], way[w] \notin Beyond,
           process # "starting", listening' \in {listening, FALSE},
           s = "api" => ~listening', WayFunctions', Served' \subseteq Served,
           UNCHANGED <<process, timerSet, libp2p, dbOpen>>
    PROVE  ShutdownIInv'
<1>1. /\ way'[w] = s /\ s \notin Beyond
      /\ \A v \in Ways \ {w} : way'[v] = way[v]
  BY DEF ShutdownIInv, WayFunctions, Beyond
<1>2. \A v \in Ways : way'[v] \in Beyond => way[v] \in Beyond
  BY <1>1
<1>3. \A r \in Requests : way[r] \in Beyond => way'[r] = way[r]
  BY <1>1 DEF Ways
<1>4. WayOutCloses' /\ WayOutDrains'
  <2>1. ASSUME NEW v \in Ways, way'[v] \in {"api"} \cup Beyond PROVE ~listening'
    <3>1. CASE v = w
      BY <1>1, <2>1, <3>1
    <3>2. CASE v # w
      BY <1>1, <2>1, <3>2 DEF ShutdownIInv, WayOutCloses
    <3>3. QED
      BY <3>1, <3>2
  <2>2. WayOutDrains'
    BY <1>2 DEF ShutdownIInv, WayOutDrains
  <2>3. QED
    BY <2>1, <2>2 DEF WayOutCloses
<1>5. RetriesStopped' /\ Libp2pInStep' /\ ClosedIsEnding'
  BY <1>2, <1>3 DEF ShutdownIInv, RetriesStopped, Libp2pInStep, ClosedIsEnding, Ways,
     Beyond, Alive
<1>6. QED
  BY <1>4, <1>5 DEF ShutdownIInv, StartIsQuiet, ServedIsAlive, Alive

LEMMA ClosingKeeps ==
    ASSUME ShutdownIInv, NEW w \in Ways, StopsApi(w), process # "starting",
           way[w] \in {"none", "asked"}
    PROVE  ShutdownIInv'
<1>1. /\ way' = [way EXCEPT ![w] = "api"] /\ listening' = FALSE
      /\ UNCHANGED <<process, request, timerSet, libp2p, dbOpen>>
  BY DEF StopsApi
<1>2. WayFunctions' /\ Served' = Served /\ way[w] \notin Beyond
  BY <1>1 DEF ShutdownIInv, WayFunctions, Served, Beyond
<1>3. QED
  BY <1>1, <1>2, BeginningKeeps

LEMMA PostStopKeeps ==
    ASSUME ShutdownIInv, NEW r \in Requests, PostStop(r)
    PROVE  ShutdownIInv'
<1>1. /\ request[r] = "served" /\ request' = [request EXCEPT ![r] = "over"]
      /\ way' = [way EXCEPT ![r] = "asked"]
      /\ UNCHANGED <<process, listening, timerSet, libp2p, dbOpen>>
  BY DEF PostStop, Becomes
<1>2. r \in Ways /\ Served # {}
  BY <1>1 DEF Ways, Served
<1>3. process # "starting" /\ way[r] \notin Beyond
  BY <1>2 DEF ShutdownIInv, StartIsQuiet, WayOutDrains
<1>4. WayFunctions' /\ Served' \subseteq Served
  BY <1>1 DEF ShutdownIInv, WayFunctions, Served
<1>5. QED
  BY <1>1, <1>2, <1>3, <1>4, BeginningKeeps

(* The last connection has ended, and no other can come: the way out goes  *)
(* on for good.                                                            *)
LEMMA DrainedGoesOn ==
    ASSUME ShutdownIInv, NEW w \in Ways, way[w] \in {"api"} \cup Beyond,
           Drained \/ way[w] \in Beyond, UNCHANGED <<process, request, listening>>,
           NEW s \in Beyond, way' = [way EXCEPT ![w] = s]
    PROVE  /\ WayFunctions' /\ StartIsQuiet' /\ WayOutCloses' /\ WayOutDrains'
           /\ ServedIsAlive' /\ way'[w] = s
           /\ \A v \in Ways \ {w} : way'[v] = way[v]
<1>1. ~listening
  BY DEF ShutdownIInv, WayOutCloses
<1>2. Served = {} /\ Served' = {}
  BY DEF Drained, Served, ShutdownIInv, WayOutDrains
<1>3. /\ WayFunctions' /\ way'[w] = s
      /\ \A v \in Ways \ {w} : way'[v] = way[v]
  BY DEF ShutdownIInv, WayFunctions
<1>4. process # "starting"
  BY DEF ShutdownIInv, StartIsQuiet, Beyond
<1>5. QED
  BY <1>1, <1>2, <1>3, <1>4 DEF WayOutCloses, WayOutDrains, StartIsQuiet, ServedIsAlive

(* A process that has ended serves nobody, and what its ways out had come  *)
(* to stays.                                                               *)
LEMMA ProcessEndKeeps ==
    ASSUME ShutdownIInv, process' = "exited", Served' = {}, WayFunctions',
           UNCHANGED <<listening, way, timerSet, libp2p>>
    PROVE  ShutdownIInv'
BY DEF ShutdownIInv, StartIsQuiet, WayOutCloses, WayOutDrains, RetriesStopped,
   Libp2pInStep, ClosedIsEnding, ServedIsAlive, Alive

(* A way out that is beyond the requests ends the process.                 *)
LEMMA WayEndKeeps ==
    ASSUME ShutdownIInv, NEW w \in Ways, way[w] \in Beyond, process' = "exited",
           UNCHANGED <<listening, request, way, timerSet, libp2p>>
    PROVE  ShutdownIInv'
<1>1. Served = {} /\ Served' = Served
  BY DEF ShutdownIInv, WayOutDrains, Served
<1>2. WayFunctions'
  BY DEF ShutdownIInv, WayFunctions
<1>3. QED
  BY <1>1, <1>2, ProcessEndKeeps

LEMMA KilledKeeps ==
    ASSUME ShutdownIInv, NEW w \in Signals, Killed(w)
    PROVE  ShutdownIInv'
<1>1. /\ process' = "exited" /\ UNCHANGED <<listening, way, timerSet, libp2p>>
      /\ request' = [r \in Requests |->
                    IF request[r] = "served" THEN "abandoned" ELSE request[r]]
  BY DEF Killed
<1>2. WayFunctions' /\ Served' = {}
  BY <1>1 DEF ShutdownIInv, WayFunctions, Served
<1>3. QED
  BY <1>1, <1>2, ProcessEndKeeps

LEMMA SignalKeeps ==
    ASSUME ShutdownIInv, NEW w \in Signals,
           Signal(w) \/ SignalShutsRouter(w) \/ SignalExits(w)
    PROVE  ShutdownIInv'
<1>1. w \in Ways /\ w \notin Requests
  BY ShutdownAssumption DEF Ways
<1>2. CASE Signal(w)
  BY <1>1, <1>2, ClosingKeeps DEF Signal
<1>3. CASE SignalShutsRouter(w)
  <2>1. /\ Alive /\ way[w] = "api" /\ Drained /\ ~timerSet'
        /\ way' = [way EXCEPT ![w] = "event"] /\ "event" \in Beyond
        /\ UNCHANGED <<process, listening, request, libp2p, dbOpen>>
    BY <1>3 DEF SignalShutsRouter, Beyond
  <2>2. /\ WayFunctions' /\ StartIsQuiet' /\ WayOutCloses' /\ WayOutDrains'
        /\ ServedIsAlive' /\ way'[w] = "event"
        /\ \A v \in Ways \ {w} : way'[v] = way[v]
    BY <1>1, <2>1, DrainedGoesOn
  <2>3. \A r \in Requests : way'[r] = way[r]
    BY <1>1, <2>2 DEF Ways
  <2>4. QED
    BY <2>1, <2>2, <2>3 DEF ShutdownIInv, RetriesStopped, Libp2pInStep, ClosedIsEnding,
       Alive
<1>4. CASE SignalExits(w)
  <2>1. way[w] \in Beyond /\ process' = "exited"
        /\ UNCHANGED <<listening, request, way, timerSet, libp2p>>
    BY <1>4 DEF SignalExits, Beyond
  <2>2. QED
    BY <1>1, <2>1, WayEndKeeps
<1>5. QED
  BY <1>2, <1>3, <1>4

LEMMA PostKeeps ==
    ASSUME ShutdownIInv, NEW r \in Requests, NEW ok \in BOOLEAN,
           \/ PostStopGoes(r) \/ PostStopsRetries(r) \/ Libp2pStops(r, ok)
           \/ PostCloses(r) \/ PostExits(r)
    PROVE  ShutdownIInv'
<1>1. r \in Ways
  BY DEF Ways
<1>2. CASE PostStopGoes(r)
  <2>1. process # "starting"
    BY <1>1, <1>2 DEF PostStopGoes, ShutdownIInv, StartIsQuiet
  <2>2. QED
    BY <1>1, <1>2, <2>1, ClosingKeeps DEF PostStopGoes
<1>3. CASE PostStopsRetries(r)
  <2> DEFINE s == IF libp2p = "up" THEN "libp2p" ELSE "close"
  <2>1. /\ Alive /\ way[r] = "api" /\ Drained /\ timerSet' = FALSE
        /\ libp2p' = IF libp2p = "up" THEN "stopping" ELSE libp2p
        /\ way' = [way EXCEPT ![r] = s] /\ s \in Beyond
        /\ UNCHANGED <<process, listening, request, dbOpen>>
    BY <1>3 DEF PostStopsRetries, Beyond
  <2> HIDE DEF s
  <2>2. /\ WayFunctions' /\ StartIsQuiet' /\ WayOutCloses' /\ WayOutDrains'
        /\ ServedIsAlive' /\ way'[r] = s
        /\ \A v \in Ways \ {r} : way'[v] = way[v]
    BY <1>1, <2>1, DrainedGoesOn
  <2>3. \A q \in Requests \ {r} : way'[q] = way[q]
    BY <2>2 DEF Ways
  <2>4. libp2p' \in {"stopping", "down"} /\ RetriesStopped'
    BY <2>1 DEF ShutdownIInv, RetriesStopped
  <2>5. Libp2pInStep'
    BY <2>1, <2>2, <2>3, <2>4 DEF ShutdownIInv, Libp2pInStep, s
  <2>6. ClosedIsEnding'
    BY <2>1, <2>3 DEF ShutdownIInv, ClosedIsEnding, Alive
  <2>7. QED
    BY <2>2, <2>4, <2>5, <2>6 DEF ShutdownIInv
<1>4. CASE Libp2pStops(r, ok)
  <2>1. way[r] = "libp2p" /\ way[r] \in Beyond
        /\ UNCHANGED <<listening, request, timerSet, dbOpen>>
    BY <1>4 DEF Libp2pStops, Beyond
  <2>2. CASE ok
    <3>1. /\ way' = [way EXCEPT ![r] = "close"] /\ "close" \in Beyond
          /\ libp2p' = "down" /\ process' = process
      BY <1>4, <2>2 DEF Libp2pStops, Beyond
    <3>2. /\ WayFunctions' /\ StartIsQuiet' /\ WayOutCloses' /\ WayOutDrains'
          /\ ServedIsAlive' /\ way'[r] = "close"
          /\ \A v \in Ways \ {r} : way'[v] = way[v]
      BY <1>1, <2>1, <3>1, DrainedGoesOn
    <3>3. \A q \in Requests \ {r} : way'[q] = way[q]
      BY <3>2 DEF Ways
    <3>4. RetriesStopped' /\ Libp2pInStep' /\ ClosedIsEnding'
      BY <2>1, <3>1, <3>2, <3>3 DEF ShutdownIInv, RetriesStopped, Libp2pInStep,
         ClosedIsEnding, Alive
    <3>5. QED
      BY <3>1, <3>2, <3>4 DEF ShutdownIInv
  <2>3. CASE ~ok
    BY <1>1, <1>4, <2>1, <2>3, WayEndKeeps DEF Libp2pStops
  <2>4. QED
    BY <2>2, <2>3
<1>5. CASE PostCloses(r)
  <2>1. /\ way[r] \in Beyond /\ way' = [way EXCEPT ![r] = "event"] /\ "event" \in Beyond
        /\ way[r] = "close"
        /\ UNCHANGED <<process, listening, request, timerSet, libp2p>>
    BY <1>5 DEF PostCloses, Beyond
  <2>2. /\ WayFunctions' /\ StartIsQuiet' /\ WayOutCloses' /\ WayOutDrains'
        /\ ServedIsAlive' /\ way'[r] = "event"
        /\ \A v \in Ways \ {r} : way'[v] = way[v]
    BY <1>1, <2>1, DrainedGoesOn
  <2>3. \A q \in Requests \ {r} : way'[q] = way[q]
    BY <2>2 DEF Ways
  <2>4. RetriesStopped' /\ Libp2pInStep' /\ ClosedIsEnding'
    BY <2>1, <2>2, <2>3 DEF ShutdownIInv, RetriesStopped, Libp2pInStep, ClosedIsEnding
  <2>5. QED
    BY <2>1, <2>2, <2>4 DEF ShutdownIInv
<1>6. CASE PostExits(r)
  <2>1. way[r] \in Beyond /\ process' = "exited"
        /\ UNCHANGED <<listening, request, way, timerSet, libp2p>>
    BY <1>6 DEF PostExits, Beyond
  <2>2. QED
    BY <1>1, <2>1, WayEndKeeps
<1>7. QED
  BY <1>2, <1>3, <1>4, <1>5, <1>6

-----------------------------------------------------------------------------

LEMMA ShutdownStepKeeps == ShutdownIInv /\ [ShutdownNext]_shutdownVars => ShutdownIInv'
<1> SUFFICES ASSUME ShutdownIInv, [ShutdownNext]_shutdownVars PROVE ShutdownIInv'
  OBVIOUS
<1>1. CASE UNCHANGED shutdownVars
  BY <1>1 DEF shutdownVars, ShutdownIInv, WayFunctions, StartIsQuiet, Served,
     WayOutCloses, WayOutDrains, RetriesStopped, Libp2pInStep, ClosedIsEnding,
     ServedIsAlive, Alive
<1>2. ASSUME NEW inUse \in BOOLEAN,
             Listens \/ BootstrapDialled \/ ListenFails(inUse)
      PROVE  ShutdownIInv'
  BY <1>2, StartKeeps
<1>3. ASSUME NEW r \in Requests,
             RequestArrives(r) \/ ClientLeaves(r) \/ HandlerEnds(r) \/ PostStop(r)
      PROVE  ShutdownIInv'
  BY <1>3, ArrivalKeeps, EndKeeps, PostStopKeeps
<1>4. ASSUME NEW w, WorkBegins(w) \/ WorkEnds(w) PROVE ShutdownIInv'
  BY <1>4, WorkKeeps
<1>5. ASSUME NEW w \in Signals,
             Signal(w) \/ Killed(w) \/ SignalShutsRouter(w) \/ SignalExits(w)
      PROVE  ShutdownIInv'
  BY <1>5, SignalKeeps, KilledKeeps
<1>6. ASSUME NEW r \in Requests, NEW ok \in BOOLEAN,
             \/ PostStopGoes(r) \/ PostStopsRetries(r) \/ Libp2pStops(r, ok)
             \/ PostCloses(r) \/ PostExits(r)
      PROVE  ShutdownIInv'
  BY <1>6, PostKeeps
<1>7. QED
  BY <1>1, <1>2, <1>3, <1>4, <1>5, <1>6 DEF ShutdownNext

(* Whatever signals and POST /api/node/stop requests come, together or one *)
(* after the other, a request whose client waits is served by a live       *)
(* process on an open database; on a closed one no retry pass begins, and  *)
(* no receive() unless libp2p is still stopping for another POST           *)
(* (shutdown of cli/index.ts, ApiModule.stop, YapYapNode.stop).            *)
THEOREM ServedCorrect == ShutdownSpec => []ServedUntilTheEnd
BY ServedFollows, InitShutdownIInv, ShutdownStepKeeps, PTL DEF ShutdownSpec

-----------------------------------------------------------------------------
(* The types of Shutdown                                                   *)

LEMMA InitShutdownTypes == ShutdownInit => ShutdownTypeOK
<1>1. ShutdownInit => tries \in 0..MaxRetries
  BY ShutdownAssumption DEF ShutdownInit
<1>2. QED
  BY <1>1 DEF ShutdownInit, ShutdownTypeOK

(* A request changes its state, or a way out goes on.                      *)
LEMMA ShutdownStepTypes == ShutdownTypeOK /\ [ShutdownNext]_shutdownVars => ShutdownTypeOK'
<1> SUFFICES ASSUME ShutdownTypeOK, [ShutdownNext]_shutdownVars PROVE ShutdownTypeOK'
  OBVIOUS
<1>1. CASE UNCHANGED shutdownVars
  BY <1>1 DEF shutdownVars, ShutdownTypeOK
<1>2. CASE Listens \/ BootstrapDialled
  BY <1>2 DEF Listens, BootstrapDialled, ShutdownTypeOK
<1>3. ASSUME NEW inUse \in BOOLEAN, ListenFails(inUse) PROVE ShutdownTypeOK'
  <2>1. tries' \in 0..MaxRetries
    BY <1>3, ShutdownAssumption DEF ListenFails, ShutdownTypeOK
  <2>2. process' \in {"starting", "exited"}
    BY <1>3 DEF ListenFails
  <2>3. QED
    BY <1>3, <2>1, <2>2 DEF ListenFails, ShutdownTypeOK
<1>4. ASSUME NEW r \in Requests,
             RequestArrives(r) \/ ClientLeaves(r) \/ HandlerEnds(r) \/ PostStop(r)
      PROVE  ShutdownTypeOK'
  <2>1. PICK s \in {"served", "abandoned", "over"} : Becomes(r, s)
    BY <1>4 DEF RequestArrives, ClientLeaves, HandlerEnds, PostStop
  <2>2. request' \in [Requests -> {"none", "served", "abandoned", "over"}]
    BY <2>1 DEF Becomes, ShutdownTypeOK
  <2>3. way' = way \/ way' = [way EXCEPT ![r] = "asked"]
    BY <1>4 DEF RequestArrives, ClientLeaves, HandlerEnds, PostStop
  <2>4. way' \in [Ways -> {"none", "asked", "api", "libp2p", "close", "event"}]
    BY <2>3 DEF ShutdownTypeOK
  <2>5. QED
    BY <2>1, <2>2, <2>4 DEF Becomes, ShutdownTypeOK
<1>5. ASSUME NEW w \in {"retry", "receive"}, WorkBegins(w) \/ WorkEnds(w)
      PROVE  ShutdownTypeOK'
  <2>1. working' \subseteq {"retry", "receive"}
    BY <1>5 DEF WorkBegins, WorkEnds, ShutdownTypeOK
  <2>2. QED
    BY <1>5, <2>1 DEF WorkBegins, WorkEnds, ShutdownTypeOK
<1>6. ASSUME NEW w, StopsApi(w) PROVE ShutdownTypeOK'
  BY <1>6 DEF StopsApi, ShutdownTypeOK
<1>7. ASSUME NEW w \in Signals,
             Signal(w) \/ Killed(w) \/ SignalShutsRouter(w) \/ SignalExits(w)
      PROVE  ShutdownTypeOK'
  <2>1. CASE Signal(w)
    BY <1>6, <2>1 DEF Signal
  <2>2. CASE Killed(w)
    BY <2>2 DEF Killed, ShutdownTypeOK
  <2>3. CASE SignalShutsRouter(w)
    BY <2>3 DEF SignalShutsRouter, ShutdownTypeOK
  <2>4. CASE SignalExits(w)
    BY <2>4 DEF SignalExits, ShutdownTypeOK
  <2>5. QED
    BY <1>7, <2>1, <2>2, <2>3, <2>4
<1>8. ASSUME NEW r \in Requests,
             PostStopGoes(r) \/ PostStopsRetries(r) \/ PostCloses(r) \/ PostExits(r)
      PROVE  ShutdownTypeOK'
  <2>1. CASE PostStopGoes(r)
    BY <1>6, <2>1 DEF PostStopGoes
  <2>2. CASE PostStopsRetries(r)
    BY <2>2 DEF PostStopsRetries, ShutdownTypeOK
  <2>3. CASE PostCloses(r)
    BY <2>3 DEF PostCloses, ShutdownTypeOK
  <2>4. CASE PostExits(r)
    BY <2>4 DEF PostExits, ShutdownTypeOK
  <2>5. QED
    BY <1>8, <2>1, <2>2, <2>3, <2>4
<1>9. ASSUME NEW r \in Requests, NEW ok \in BOOLEAN, Libp2pStops(r, ok)
      PROVE  ShutdownTypeOK'
  BY <1>9 DEF Libp2pStops, ShutdownTypeOK
<1>10. QED
  BY <1>1, <1>2, <1>3, <1>4, <1>5, <1>7, <1>8, <1>9 DEF ShutdownNext

-----------------------------------------------------------------------------
(* The components of one node, side by side                                *)

LEMMA NodeBegins ==
    NodeInit =>
        /\ Init /\ StreamsInit /\ HealthInit /\ BusInit /\ EmittersInit
        /\ RoutingInit /\ SessionsInit /\ SyncInit /\ GossipInit
        /\ AdmissionInit /\ CacheInit /\ IdentityInit /\ ShutdownInit
BY DEF NodeInit

(* A step of the node is one of each component, or leaves it as it is.     *)
LEMMA NodeSteps ==
    [NodeNext]_nodeVars =>
        /\ [Next]_vars
        /\ [StreamsNext]_streamVars
        /\ [HealthNext]_healthVars
        /\ [BusNext]_busVars
        /\ [EmittersNext]_emitterVars
        /\ [RoutingNext]_routeVars
        /\ [SessionsNext]_sessionVars
        /\ [SyncNext]_syncVars
        /\ [GossipNext]_gossipVars
        /\ [AdmissionNext]_admissionVars
        /\ [CacheNext]_cacheVars
        /\ [IdentityNext]_identityVars
        /\ [ShutdownNext]_shutdownVars
<1> SUFFICES ASSUME [NodeNext]_nodeVars PROVE
        /\ [Next]_vars
        /\ [StreamsNext]_streamVars
        /\ [HealthNext]_healthVars
        /\ [BusNext]_busVars
        /\ [EmittersNext]_emitterVars
        /\ [RoutingNext]_routeVars
        /\ [SessionsNext]_sessionVars
        /\ [SyncNext]_syncVars
        /\ [GossipNext]_gossipVars
        /\ [AdmissionNext]_admissionVars
        /\ [CacheNext]_cacheVars
        /\ [IdentityNext]_identityVars
        /\ [ShutdownNext]_shutdownVars
  OBVIOUS
<1>1. [Next]_vars
  BY DEF NodeNext, nodeVars, Stays
<1>2. [StreamsNext]_streamVars
  BY DEF NodeNext, nodeVars, Stays
<1>3. [HealthNext]_healthVars
  BY DEF NodeNext, nodeVars, Stays
<1>4. [BusNext]_busVars
  BY DEF NodeNext, nodeVars, Stays
<1>5. [EmittersNext]_emitterVars
  BY DEF NodeNext, nodeVars, Stays
<1>6. [RoutingNext]_routeVars
  BY DEF NodeNext, nodeVars, Stays
<1>7. [SessionsNext]_sessionVars
  BY DEF NodeNext, nodeVars, Stays
<1>8. [SyncNext]_syncVars
  BY DEF NodeNext, nodeVars, Stays
<1>9. [GossipNext]_gossipVars
  BY DEF NodeNext, nodeVars, Stays
<1>10. [AdmissionNext]_admissionVars
  BY DEF NodeNext, nodeVars, Stays
<1>11. [CacheNext]_cacheVars
  BY DEF NodeNext, nodeVars, Stays
<1>12. [IdentityNext]_identityVars
  BY DEF NodeNext, nodeVars, Stays
<1>13. [ShutdownNext]_shutdownVars
  BY DEF NodeNext, nodeVars, Stays
<1>14. QED
  BY <1>1, <1>2, <1>3, <1>4, <1>5, <1>6, <1>7, <1>8, <1>9, <1>10, <1>11, <1>12, <1>13

(* The node does nothing its components do not: whatever holds of each of  *)
(* their behaviours holds of the node's.                                   *)
THEOREM NodeImplements ==
    NodeSpec =>
        /\ Spec
        /\ StreamsSpec
        /\ HealthInit /\ [][HealthNext]_healthVars
        /\ BusSpec
        /\ EmittersInit /\ [][EmittersNext]_emitterVars
        /\ RoutingSpec
        /\ SessionsSpec
        /\ SyncSpec
        /\ GossipSpec
        /\ AdmissionSpec
        /\ CacheSpec
        /\ IdentitySpec
        /\ ShutdownSpec
<1>1. NodeSpec => Spec
  BY NodeBegins, NodeSteps, PTL DEF NodeSpec, Spec
<1>2. NodeSpec => StreamsSpec
  BY NodeBegins, NodeSteps, PTL DEF NodeSpec, StreamsSpec
<1>3. NodeSpec => HealthInit /\ [][HealthNext]_healthVars
  BY NodeBegins, NodeSteps, PTL DEF NodeSpec
<1>4. NodeSpec => BusSpec
  BY NodeBegins, NodeSteps, PTL DEF NodeSpec, BusSpec
<1>5. NodeSpec => EmittersInit /\ [][EmittersNext]_emitterVars
  BY NodeBegins, NodeSteps, PTL DEF NodeSpec
<1>6. NodeSpec => RoutingSpec
  BY NodeBegins, NodeSteps, PTL DEF NodeSpec, RoutingSpec
<1>7. NodeSpec => SessionsSpec
  BY NodeBegins, NodeSteps, PTL DEF NodeSpec, SessionsSpec
<1>8. NodeSpec => SyncSpec
  BY NodeBegins, NodeSteps, PTL DEF NodeSpec, SyncSpec
<1>9. NodeSpec => GossipSpec
  BY NodeBegins, NodeSteps, PTL DEF NodeSpec, GossipSpec
<1>10. NodeSpec => AdmissionSpec
  BY NodeBegins, NodeSteps, PTL DEF NodeSpec, AdmissionSpec
<1>11. NodeSpec => CacheSpec
  BY NodeBegins, NodeSteps, PTL DEF NodeSpec, CacheSpec
<1>12. NodeSpec => IdentitySpec
  BY NodeBegins, NodeSteps, PTL DEF NodeSpec, IdentitySpec
<1>13. NodeSpec => ShutdownSpec
  BY NodeBegins, NodeSteps, PTL DEF NodeSpec, ShutdownSpec
<1>14. QED
  BY <1>1, <1>2, <1>3, <1>4, <1>5, <1>6, <1>7, <1>8, <1>9, <1>10, <1>11, <1>12, <1>13

(* Every variable of every component keeps its type.                       *)
THEOREM NodeTypes == NodeSpec => []TypeOK
<1>1. NodeSpec => []IInv
  BY InitIInv, NextIInv, NodeBegins, NodeSteps, PTL DEF NodeSpec
<1>2. NodeSpec => []StreamsIInv
  BY InitStreamsIInv, StreamsStepKeeps, NodeBegins, NodeSteps, PTL DEF NodeSpec
<1>3. NodeSpec => []HealthIInv
  BY InitHealthIInv, HealthStepKeeps, NodeBegins, NodeSteps, PTL DEF NodeSpec
<1>4. NodeSpec => []BusIInv
  BY InitBusIInv, BusStepKeeps, NodeBegins, NodeSteps, PTL DEF NodeSpec
<1>5. NodeSpec => []EmittersIInv
  BY InitEmittersIInv, EmittersStepKeeps, NodeBegins, NodeSteps, PTL DEF NodeSpec
<1>6. NodeSpec => []RoutingIInv
  BY InitRoutingIInv, RoutingStepKeeps, NodeBegins, NodeSteps, PTL DEF NodeSpec
<1>7. NodeSpec => []SessionsTypeOK
  BY NodeImplements, SessionsTypesCorrect
<1>8. NodeSpec => []SyncIInv
  BY InitSyncIInv, SyncStepKeeps, NodeBegins, NodeSteps, PTL DEF NodeSpec
<1>9. NodeSpec => []GossipIInv
  BY InitGossipIInv, GossipStepKeeps, NodeBegins, NodeSteps, PTL DEF NodeSpec
<1>10. NodeSpec => []AdmissionIInv
  <2>1. AdmissionInit => AdmissionIInv
    BY InitAdmissionIInv
  <2>2. AdmissionIInv /\ [AdmissionNext]_admissionVars => AdmissionIInv'
    BY AdmissionStepKeeps
  <2>3. QED
    BY <2>1, <2>2, NodeBegins, NodeSteps, PTL DEF NodeSpec
<1>11. NodeSpec => []CacheIInv
  BY InitCacheIInv, CacheStepKeeps, NodeBegins, NodeSteps, PTL DEF NodeSpec
<1>12. NodeSpec => []IdentityIInv
  BY InitIdentityIInv, IdentityStepKeeps, NodeBegins, NodeSteps, PTL DEF NodeSpec
<1>13. NodeSpec => []ShutdownTypeOK
  BY InitShutdownTypes, ShutdownStepTypes, NodeBegins, NodeSteps, PTL DEF NodeSpec
<1>14. IInv => KeysTypeOK
  BY DEF IInv, Types, Flags, KeyTypes, HandshakeTypes, SendTypes, KeysTypeOK
<1>15. /\ StreamsIInv => StreamsTypeOK
       /\ HealthIInv => HealthTypeOK
       /\ BusIInv => BusTypeOK
       /\ EmittersIInv => EmittersTypeOK
       /\ RoutingIInv => RoutingTypeOK
       /\ SyncIInv => SyncTypeOK
       /\ GossipIInv => GossipTypeOK
       /\ AdmissionIInv => AdmissionTypeOK
       /\ CacheIInv => CacheTypeOK
       /\ IdentityIInv => IdentityTypeOK
  BY DEF StreamsIInv, HealthIInv, BusIInv, EmittersIInv, RoutingIInv, SyncIInv,
     GossipIInv, AdmissionIInv, CacheIInv, IdentityIInv
<1>16. /\ IInv /\ StreamsIInv /\ HealthIInv /\ BusIInv /\ EmittersIInv
       /\ RoutingIInv /\ SessionsTypeOK /\ SyncIInv /\ GossipIInv
       /\ AdmissionIInv /\ CacheIInv /\ IdentityIInv /\ ShutdownTypeOK
       => TypeOK
  BY <1>14, <1>15 DEF TypeOK
<1>17. QED
  BY <1>1, <1>2, <1>3, <1>4, <1>5, <1>6, <1>7, <1>8, <1>9, <1>10, <1>11, <1>12, <1>13, <1>16, PTL

(* The safety of each component, in the node that has them all: of the     *)
(* keys, streams, connections, events, tables, sessions, deltas and        *)
(* announcements, of the budget, the cache, the identity and the end.      *)
THEOREM NodeSafe ==
    NodeSpec =>
        /\ []RefreshIsUnderWay /\ []WokenUsesNewKey /\ []FramesInOrder
        /\ []UnhealthyFailedLast /\ []OnceIsGone /\ []HeldIsDue
        /\ []BucketsMatchTable /\ []LoadsWhatIsLive /\ []ToldOnceAndInFull
        /\ []HeardOnceOnForest /\ []WithinBudget /\ []CachedHasNotLeft
        /\ []OneIdentity /\ []ServedUntilTheEnd
<1>1. HealthIInv => UnhealthyFailedLast
  BY DEF HealthIInv
<1>2. EmittersIInv => HeldIsDue
  BY DEF EmittersIInv
<1>3. NodeSpec => []UnhealthyFailedLast
  BY <1>1, InitHealthIInv, HealthStepKeeps, NodeBegins, NodeSteps, PTL DEF NodeSpec
<1>4. NodeSpec => []HeldIsDue
  BY <1>2, InitEmittersIInv, EmittersStepKeeps, NodeBegins, NodeSteps, PTL DEF NodeSpec
<1>5. QED
  BY <1>3, <1>4, NodeImplements, RefreshHasHandshake, WokenSendsRight, FramesCorrect,
     OnceCorrect, BucketsCorrect, LoadsCorrect, SyncCorrect, GossipCorrect,
     BudgetCorrect, CachedCorrect, IdentityCorrect, ServedCorrect

=============================================================================
