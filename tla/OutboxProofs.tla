----------------------------- MODULE OutboxProofs -----------------------------
(***************************************************************************)
(* What holds of Outbox for every set of messages, every number of         *)
(* overlapping passes and receive() calls, and every limit of attempts: no *)
(* message is forgotten, message_history tells the outcome, and a message  *)
(* of this node is given up only after the maximum of attempts, although   *)
(* the passes work on copies of the rows.                                  *)
(***************************************************************************)
EXTENDS Outbox, TLAPS

-----------------------------------------------------------------------------
(* The inductive invariant *)

(* A task that transmits has a row to transmit; only a receive() call has  *)
(* an ACK or a NAK to handle.                                              *)
TaskShape ==
    /\ \A t \in Tasks : stage[t] = "transmit" => work[t] \in Entry
    /\ \A t \in Tasks : stage[t] \in {"mark", "nak"} => t \in Calls
    /\ \A c \in Calls : stage[c] # "idle" => about[c] \in News

(* What is owed has no deadline behind it. *)
OwedIsOpen == owed \cap expired = {}

(* A row was queued at some time. *)
RowWasQueued == \A m \in Msgs : HasRow(m) => queued[m] > 0

(* The copy of a row that a task holds is out of date in one direction     *)
(* only: a message of this node has one row in its life, and the attempts  *)
(* of that row never go down.                                              *)
CopyIsLow(e) ==
    e.msg \notin Relayed =>
        queued[e.msg] > 0 /\ (HasRow(e.msg) => e.attempts <= attempts[e.msg])

CopiesAreLow == \A t \in Tasks : \A e \in todo[t] : CopyIsLow(e)

RowTypes ==
    /\ status \in [Msgs -> Row \cup {"none"}]
    /\ attempts \in [Msgs -> 0..MaxRetryAttempts]
    /\ due \in SUBSET Msgs /\ expired \in SUBSET Msgs
    /\ history \in [Msgs -> Row \cup {"none"}]
    /\ queued \in [Msgs -> 0..MaxQueued + 1]
    /\ owed \in SUBSET Msgs
    /\ calls \in 0..MaxCalls /\ crashes \in 0..MaxCrashes
    /\ \A m \in Msgs : status[m] = "none" => attempts[m] = 0 /\ m \notin due

TaskTypes ==
    /\ stage \in [Tasks -> Stage]
    /\ todo \in [Tasks -> SUBSET Entry]
    /\ work \in [Tasks -> Entry \cup {NoWork}]
    /\ about \in [Calls -> News \cup {NoWork}]

(* What the invariant says of the tables, and of the tasks.                *)
RowsInv ==
    /\ RowTypes
    /\ OwedIsPending /\ OwedIsOpen
    /\ HistoryTellsOutcome
    /\ RowWasQueued
    /\ FailedAfterMaxAttempts

TasksInv == TaskTypes /\ TaskShape

IInv == RowsInv /\ TasksInv /\ CopiesAreLow

-----------------------------------------------------------------------------
(* What each statement of the database layer does to the tables, and to    *)
(* the copies of rows that tasks hold                                      *)

LEMMA PlusBounds ==
    ASSUME RowTypes, NEW m \in Msgs, NEW n \in Nat
    PROVE  /\ Plus(m, n) \in 0..MaxRetryAttempts
           /\ attempts[m] <= Plus(m, n)
BY BoundsAssumption DEF RowTypes, Plus

(* A row of this node is marked failed only at the maximum of attempts.    *)
LEMMA MarkRows ==
    ASSUME RowsInv, NEW m \in Msgs, NEW outcome \in {"delivered", "failed"},
           Mark(m, outcome), owed' = owed \ {m},
           UNCHANGED <<queued, calls, crashes>>,
           outcome = "failed" /\ m \notin Relayed /\ HasRow(m)
               => attempts[m] = MaxRetryAttempts
    PROVE  RowsInv' /\ \A e \in Entry : CopyIsLow(e) => CopyIsLow(e)'
<1> USE DEF Mark, HasRow, RowsInv, Row
<1>1. RowTypes'
  BY DEF RowTypes
<1>2. OwedIsPending' /\ OwedIsOpen'
  BY DEF RowTypes, OwedIsPending, OwedIsOpen
<1>3. HistoryTellsOutcome'
  BY DEF RowTypes, HistoryTellsOutcome
<1>4. RowWasQueued' /\ FailedAfterMaxAttempts'
  BY DEF RowTypes, RowWasQueued, FailedAfterMaxAttempts
<1>5. \A e \in Entry : CopyIsLow(e) => CopyIsLow(e)'
  BY DEF RowTypes, CopyIsLow, Entry
<1>6. QED
  BY <1>1, <1>2, <1>3, <1>4, <1>5

LEMMA ScheduleRows ==
    ASSUME RowsInv, NEW m \in Msgs, SchedulePendingRetry(m), UNCHANGED ghosts
    PROVE  RowsInv' /\ \A e \in Entry : CopyIsLow(e) => CopyIsLow(e)'
<1> USE DEF SchedulePendingRetry, HasRow, RowsInv, Row, ghosts
<1>0. Plus(m, 1) \in 0..MaxRetryAttempts /\ attempts[m] <= Plus(m, 1)
  BY PlusBounds
<1>1. RowTypes'
  BY <1>0 DEF RowTypes
<1>2. OwedIsPending' /\ OwedIsOpen'
  BY DEF RowTypes, OwedIsPending, OwedIsOpen
<1>3. HistoryTellsOutcome'
  BY DEF RowTypes, HistoryTellsOutcome
<1>4. RowWasQueued' /\ FailedAfterMaxAttempts'
  BY <1>0 DEF RowTypes, RowWasQueued, FailedAfterMaxAttempts
<1>5. ASSUME NEW e \in Entry, CopyIsLow(e)
      PROVE  CopyIsLow(e)'
  <2>1. e.msg \in Msgs /\ e.attempts \in Nat
    BY DEF Entry
  <2>2. attempts'[e.msg] \in Nat /\ attempts[e.msg] \in Nat
        /\ attempts[e.msg] <= attempts'[e.msg]
    BY <1>0, <2>1, BoundsAssumption DEF RowTypes
  <2>3. status'[e.msg] # "none" => status[e.msg] # "none"
    BY <2>1 DEF RowTypes
  <2>4. QED
    BY <1>5, <2>1, <2>2, <2>3 DEF CopyIsLow
<1>6. QED
  BY <1>1, <1>2, <1>3, <1>4, <1>5

LEMMA NakRows ==
    ASSUME RowsInv, NEW m \in Msgs, ScheduleAfterNak(m), UNCHANGED ghosts
    PROVE  RowsInv' /\ \A e \in Entry : CopyIsLow(e) => CopyIsLow(e)'
<1> USE DEF ScheduleAfterNak, HasRow, RowsInv, Row, ghosts
<1>0. Plus(m, 2) \in 0..MaxRetryAttempts /\ attempts[m] <= Plus(m, 2)
  BY PlusBounds
<1>1. RowTypes'
  BY <1>0 DEF RowTypes
<1>2. OwedIsPending' /\ OwedIsOpen'
  BY DEF RowTypes, OwedIsPending, OwedIsOpen
<1>3. HistoryTellsOutcome'
  BY DEF RowTypes, HistoryTellsOutcome
<1>4. RowWasQueued' /\ FailedAfterMaxAttempts'
  BY <1>0 DEF RowTypes, RowWasQueued, FailedAfterMaxAttempts
<1>5. ASSUME NEW e \in Entry, CopyIsLow(e)
      PROVE  CopyIsLow(e)'
  <2>1. e.msg \in Msgs /\ e.attempts \in Nat
    BY DEF Entry
  <2>2. attempts'[e.msg] \in Nat /\ attempts[e.msg] \in Nat
        /\ attempts[e.msg] <= attempts'[e.msg]
    BY <1>0, <2>1, BoundsAssumption DEF RowTypes
  <2>3. QED
    BY <1>5, <2>1, <2>2 DEF CopyIsLow
<1>6. QED
  BY <1>1, <1>2, <1>3, <1>4, <1>5

(* The cleanup deletes no row of a message that is owed.                   *)
LEMMA CleanupRows ==
    ASSUME RowsInv, Cleanup, UNCHANGED ghosts
    PROVE  RowsInv' /\ \A e \in Entry : CopyIsLow(e) => CopyIsLow(e)'
<1> USE DEF Cleanup, HasRow, RowsInv, Row, ghosts
<1>1. RowTypes'
  BY BoundsAssumption DEF RowTypes
<1>2. OwedIsPending' /\ OwedIsOpen'
  BY DEF RowTypes, OwedIsPending, OwedIsOpen
<1>3. HistoryTellsOutcome'
  BY DEF RowTypes, HistoryTellsOutcome
<1>4. RowWasQueued' /\ FailedAfterMaxAttempts'
  BY DEF RowTypes, RowWasQueued, FailedAfterMaxAttempts
<1>5. \A e \in Entry : CopyIsLow(e) => CopyIsLow(e)'
  BY DEF RowTypes, CopyIsLow, Entry
<1>6. QED
  BY <1>1, <1>2, <1>3, <1>4, <1>5

(* Only a message that never had a row, or one that is relayed, is queued. *)
LEMMA QueueRows ==
    ASSUME RowsInv, NEW m \in Msgs, Queue(m)
    PROVE  RowsInv' /\ \A e \in Entry : CopyIsLow(e) => CopyIsLow(e)'
<1> USE DEF Queue, QueueMessage, HasRow, RowsInv, Row
<1>0. queued[m] + 1 \in 0..MaxQueued + 1
  BY BoundsAssumption DEF RowTypes
<1>1. RowTypes'
  BY <1>0, BoundsAssumption DEF RowTypes
<1>2. OwedIsPending' /\ OwedIsOpen'
  BY DEF RowTypes, OwedIsPending, OwedIsOpen
<1>3. HistoryTellsOutcome'
  BY DEF RowTypes, HistoryTellsOutcome
<1>4. RowWasQueued' /\ FailedAfterMaxAttempts'
  BY <1>0, BoundsAssumption DEF RowTypes, RowWasQueued, FailedAfterMaxAttempts
<1>5. ASSUME NEW e \in Entry, CopyIsLow(e)
      PROVE  CopyIsLow(e)'
  <2>1. CASE e.msg \in Relayed
    BY <2>1 DEF CopyIsLow
  <2>2. CASE e.msg \notin Relayed
    <3>1. e.msg \in Msgs /\ queued[e.msg] > 0 /\ queued[e.msg] \in Nat
      BY <1>5, <2>2, BoundsAssumption DEF CopyIsLow, Entry, RowTypes
    <3>2. e.msg # m
      BY <2>2, <3>1
    <3>3. /\ status'[e.msg] = status[e.msg] /\ attempts'[e.msg] = attempts[e.msg]
          /\ queued'[e.msg] = queued[e.msg]
      BY <3>1, <3>2 DEF RowTypes
    <3>4. QED
      BY <1>5, <3>3 DEF CopyIsLow
  <2>3. QED
    BY <2>1, <2>2
<1>6. QED
  BY <1>1, <1>2, <1>3, <1>4, <1>5

(* The passing of time *)
LEMMA TimeRows ==
    ASSUME RowsInv, NEW m \in Msgs, BecomesDue(m) \/ Expires(m)
    PROVE  RowsInv' /\ \A e \in Entry : CopyIsLow(e) => CopyIsLow(e)'
<1> USE DEF BecomesDue, Expires, HasRow, RowsInv, Row, ghosts
<1>1. RowTypes'
  BY DEF RowTypes
<1>2. OwedIsPending' /\ OwedIsOpen'
  BY DEF RowTypes, OwedIsPending, OwedIsOpen
<1>3. HistoryTellsOutcome' /\ RowWasQueued' /\ FailedAfterMaxAttempts'
  BY DEF RowTypes, HistoryTellsOutcome, RowWasQueued, FailedAfterMaxAttempts
<1>4. \A e \in Entry : CopyIsLow(e) => CopyIsLow(e)'
  BY DEF CopyIsLow
<1>5. QED
  BY <1>1, <1>2, <1>3, <1>4

(* Tables that are not touched *)
LEMMA SameRows ==
    ASSUME RowsInv, UNCHANGED <<rowVars, queued, owed>>,
           calls' \in 0..MaxCalls, crashes' \in 0..MaxCrashes
    PROVE  RowsInv' /\ \A e \in Entry : CopyIsLow(e) => CopyIsLow(e)'
<1> USE DEF rowVars
<1>1. RowTypes'
  BY DEF RowsInv, RowTypes
<1>2. OwedIsPending' /\ OwedIsOpen' /\ HistoryTellsOutcome'
  BY DEF RowsInv, OwedIsPending, OwedIsOpen, HistoryTellsOutcome, HasRow
<1>3. RowWasQueued' /\ FailedAfterMaxAttempts'
  BY DEF RowsInv, RowWasQueued, FailedAfterMaxAttempts, HasRow
<1>4. \A e \in Entry : CopyIsLow(e) => CopyIsLow(e)'
  BY DEF CopyIsLow, HasRow
<1>5. QED
  BY <1>1, <1>2, <1>3, <1>4 DEF RowsInv

-----------------------------------------------------------------------------
(* The tasks *)

(* Copies stay low when tasks only drop them. *)
LEMMA CopiesDropped ==
    ASSUME CopiesAreLow, TaskTypes, \A t \in Tasks : todo'[t] \subseteq todo[t],
           \A e \in Entry : CopyIsLow(e) => CopyIsLow(e)'
    PROVE  CopiesAreLow'
BY DEF CopiesAreLow, TaskTypes

(* A task reads rows as they are. *)
LEMMA CopiesRead ==
    ASSUME IInv, NEW rows, rows \subseteq {m \in Msgs : HasRow(m)},
           NEW t \in Tasks, todo' = [todo EXCEPT ![t] = Read(rows)],
           UNCHANGED <<rowVars, queued>>
    PROVE  Read(rows) \in SUBSET Entry /\ CopiesAreLow'
<1>1. ASSUME NEW e \in Read(rows)
      PROVE  e \in Entry /\ CopyIsLow(e)
  <2>1. PICK m \in rows : e = [msg |-> m, attempts |-> attempts[m]]
    BY DEF Read
  <2>2. m \in Msgs /\ HasRow(m) /\ attempts[m] \in 0..MaxRetryAttempts
    BY DEF IInv, RowsInv, RowTypes
  <2>3. e.msg = m /\ e.attempts = attempts[m] /\ e \in Entry
    BY <2>1, <2>2 DEF Entry
  <2>4. queued[m] > 0 /\ attempts[m] <= attempts[m]
    BY <2>2, BoundsAssumption DEF IInv, RowsInv, RowWasQueued
  <2>5. QED
    BY <2>3, <2>4 DEF CopyIsLow
<1>2. \A e : CopyIsLow(e) => CopyIsLow(e)'
  BY DEF CopyIsLow, HasRow, rowVars
<1>3. \A u \in Tasks : todo'[u] = todo[u] \/ todo'[u] = Read(rows)
  BY DEF IInv, TasksInv, TaskTypes
<1>4. CopiesAreLow'
  BY <1>1, <1>2, <1>3 DEF IInv, CopiesAreLow
<1>5. QED
  BY <1>1, <1>4

LEMMA InitIInv == Init => IInv
<1> SUFFICES ASSUME Init PROVE IInv
  OBVIOUS
<1>1. RowsInv
  BY BoundsAssumption
     DEF Init, RowsInv, RowTypes, Row, OwedIsPending, OwedIsOpen,
         HistoryTellsOutcome, HasRow, RowWasQueued, FailedAfterMaxAttempts
<1>2. TasksInv
  BY DEF Init, TasksInv, TaskTypes, TaskShape, Stage, Tasks
<1>3. CopiesAreLow
  BY DEF Init, CopiesAreLow
<1>4. QED
  BY <1>1, <1>2, <1>3 DEF IInv

(* Steps of the environment: queueing, time, the start of a pass or of a   *)
(* receive() call, a restart.                                              *)
LEMMA EnvironmentIInv ==
    ASSUME IInv,
           \/ \E m \in Msgs : Queue(m) \/ BecomesDue(m) \/ Expires(m)
           \/ \E t \in Passes : RetryStarts(t)
           \/ \E c \in Calls : CallArrives(c)
           \/ Crash
           \/ UNCHANGED vars
    PROVE  IInv'
<1>1. ASSUME NEW m \in Msgs, Queue(m) \/ BecomesDue(m) \/ Expires(m)
      PROVE  IInv'
  <2>1. UNCHANGED taskVars
    BY <1>1 DEF Queue, BecomesDue, Expires
  <2>2. RowsInv' /\ \A e \in Entry : CopyIsLow(e) => CopyIsLow(e)'
    BY <1>1, QueueRows, TimeRows DEF IInv
  <2>3. TasksInv'
    BY <2>1 DEF IInv, TasksInv, TaskTypes, TaskShape, taskVars
  <2>4. CopiesAreLow'
    BY <2>1, <2>2, CopiesDropped DEF IInv, TasksInv, taskVars
  <2>5. QED
    BY <2>2, <2>3, <2>4 DEF IInv
<1>2. ASSUME NEW t \in Passes, RetryStarts(t)
      PROVE  IInv'
  <2>1. t \in Tasks /\ Retryable \subseteq {m \in Msgs : HasRow(m)}
    BY DEF Tasks, Retryable, HasRow
  <2>2. Read(Retryable) \in SUBSET Entry /\ CopiesAreLow'
    BY <1>2, <2>1, CopiesRead DEF RetryStarts, ghosts
  <2>3. RowsInv'
    BY <1>2, SameRows DEF RetryStarts, ghosts, IInv, RowsInv, RowTypes
  <2>4. t \notin Calls
    BY SetsAssumption
  <2>5. TasksInv'
    BY <1>2, <2>1, <2>2, <2>4
       DEF RetryStarts, IInv, TasksInv, TaskTypes, TaskShape, Stage
  <2>6. QED
    BY <2>2, <2>3, <2>5 DEF IInv
<1>3. ASSUME NEW c \in Calls, CallArrives(c)
      PROVE  IInv'
  <2>1. c \in Tasks /\ PendingForPeer \subseteq {m \in Msgs : HasRow(m)}
    BY DEF Tasks, PendingForPeer, HasRow
  <2>2. Read(PendingForPeer) \in SUBSET Entry /\ CopiesAreLow'
    BY <1>3, <2>1, CopiesRead DEF CallArrives
  <2>3. RowsInv'
    <3>1. calls' \in 0..MaxCalls
      BY <1>3, BoundsAssumption DEF CallArrives, IInv, RowsInv, RowTypes
    <3>2. QED
      BY <1>3, <3>1, SameRows DEF CallArrives, IInv, RowsInv, RowTypes
  <2>4. PICK news \in News : about' = [about EXCEPT ![c] = news]
    BY <1>3 DEF CallArrives
  <2>5. TasksInv'
    BY <1>3, <2>1, <2>2, <2>4
       DEF CallArrives, IInv, TasksInv, TaskTypes, TaskShape, Stage
  <2>6. QED
    BY <2>2, <2>3, <2>5 DEF IInv
<1>4. CASE Crash
  <2>1. RowsInv' /\ \A e \in Entry : CopyIsLow(e) => CopyIsLow(e)'
    <3>1. crashes' \in 0..MaxCrashes
      BY <1>4, BoundsAssumption DEF Crash, IInv, RowsInv, RowTypes
    <3>2. QED
      BY <1>4, <3>1, SameRows DEF Crash, IInv, RowsInv, RowTypes
  <2>2. TasksInv'
    BY <1>4 DEF Crash, TasksInv, TaskTypes, TaskShape, Stage, Tasks
  <2>3. CopiesAreLow'
    BY <1>4 DEF Crash, CopiesAreLow
  <2>4. QED
    BY <2>1, <2>2, <2>3 DEF IInv
<1>5. CASE UNCHANGED vars
  <2>1. RowsInv' /\ \A e \in Entry : CopyIsLow(e) => CopyIsLow(e)'
    BY <1>5, SameRows DEF vars, ghosts, IInv, RowsInv, RowTypes
  <2>2. TasksInv'
    BY <1>5 DEF vars, taskVars, IInv, TasksInv, TaskTypes, TaskShape
  <2>3. CopiesAreLow'
    BY <1>5, <2>1, CopiesDropped DEF vars, taskVars, IInv, TasksInv
  <2>4. QED
    BY <2>1, <2>2, <2>3 DEF IInv
<1>6. QED
  BY <1>1, <1>2, <1>3, <1>4, <1>5

(* Steps of a task: what it does to the tables is one of the statements    *)
(* above, and it holds no copy that it did not hold before.                *)
LEMMA StepIInv ==
    ASSUME IInv, NEW t \in Tasks, Step(t)
    PROVE  IInv'
<1> USE DEF IInv
<1>1. ASSUME \/ GiveUp(t) \/ Transmit(t) \/ TransmitOk(t) \/ TransmitFails(t)
             \/ PassEnds(t)
      PROVE  TasksInv' /\ \A u \in Tasks : todo'[u] \subseteq todo[u]
  <2>1. CASE GiveUp(t)
    BY <2>1 DEF GiveUp, TasksInv, TaskTypes, TaskShape
  <2>2. CASE Transmit(t)
    BY <2>2 DEF Transmit, TasksInv, TaskTypes, TaskShape, Stage
  <2>3. CASE TransmitOk(t) \/ TransmitFails(t)
    <3>1. NextEntry(t) /\ stage[t] = "transmit"
      BY <2>3 DEF TransmitOk, TransmitFails
    <3>2. QED
      BY <3>1 DEF NextEntry, TasksInv, TaskTypes, TaskShape, Stage
  <2>4. CASE PassEnds(t)
    BY <2>4, SetsAssumption DEF PassEnds, TasksInv, TaskTypes, TaskShape, Stage
  <2>5. QED
    BY <1>1, <2>1, <2>2, <2>3, <2>4
<1>2. ASSUME HandedOver(t) \/ AckTooOld(t) \/ AckMarks(t) \/ NakSchedules(t)
      PROVE  TasksInv' /\ \A u \in Tasks : todo'[u] \subseteq todo[u]
  <2>1. t \in Calls /\ todo' = todo /\ work' = work
    BY <1>2 DEF HandedOver, AckTooOld, AckMarks, NakSchedules, Return, TasksInv,
                TaskShape
  <2>2. \/ Return(t)
        \/ /\ stage[t] = "loop" /\ UNCHANGED about
           /\ \/ stage' = [stage EXCEPT ![t] = "mark"]
              \/ stage' = [stage EXCEPT ![t] = "nak"]
    BY <1>2 DEF HandedOver, AckTooOld, AckMarks, NakSchedules
  <2>3. TasksInv'
    BY <2>1, <2>2 DEF Return, TasksInv, TaskTypes, TaskShape, Stage, Tasks
  <2>4. QED
    BY <2>1, <2>3
<1>3. RowsInv' /\ \A e \in Entry : CopyIsLow(e) => CopyIsLow(e)'
  <2>1. CASE GiveUp(t)
    <3>1. PICK e \in todo[t] :
            Exhausted(t, e) /\ Mark(e.msg, "failed") /\ owed' = owed \ {e.msg}
      BY <2>1 DEF GiveUp, Exhausted
    <3>2. e \in Entry /\ e.msg \in Msgs /\ CopyIsLow(e)
      BY DEF TasksInv, TaskTypes, Entry, CopiesAreLow
    <3>3. e.msg \notin Relayed /\ HasRow(e.msg) => attempts[e.msg] = MaxRetryAttempts
      BY <3>1, <3>2, BoundsAssumption
         DEF Exhausted, CopyIsLow, RowsInv, RowTypes, Entry
    <3>4. UNCHANGED <<queued, calls, crashes>>
      BY <2>1 DEF GiveUp, RowsInv, RowTypes
    <3>5. QED
      BY <3>1, <3>2, <3>3, <3>4, MarkRows
  <2>2. CASE Transmit(t) \/ HandedOver(t) \/ AckTooOld(t)
    <3>1. UNCHANGED <<rowVars, ghosts>>
      BY <2>2 DEF Transmit, HandedOver, AckTooOld
    <3>2. QED
      BY <3>1, SameRows DEF ghosts, RowsInv, RowTypes
  <2>3. CASE TransmitOk(t)
    <3>1. work[t].msg \in Msgs
      BY <2>3 DEF TransmitOk, TasksInv, TaskShape, Entry
    <3>2. QED
      BY <2>3, <3>1, MarkRows DEF TransmitOk
  <2>4. CASE TransmitFails(t)
    <3>1. work[t].msg \in Msgs
      BY <2>4 DEF TransmitFails, TasksInv, TaskShape, Entry
    <3>2. QED
      BY <2>4, <3>1, ScheduleRows DEF TransmitFails
  <2>5. CASE PassEnds(t)
    BY <2>5, CleanupRows DEF PassEnds
  <2>6. CASE AckMarks(t)
    <3>1. about[t] \in News /\ about[t].msg \in Msgs
      BY <2>6 DEF AckMarks, TasksInv, TaskShape, News
    <3>2. QED
      BY <2>6, <3>1, MarkRows DEF AckMarks
  <2>7. CASE NakSchedules(t)
    <3>1. about[t] \in News /\ about[t].msg \in Msgs
      BY <2>7 DEF NakSchedules, TasksInv, TaskShape, News
    <3>2. QED
      BY <2>7, <3>1, NakRows DEF NakSchedules
  <2>8. QED
    BY <2>1, <2>2, <2>3, <2>4, <2>5, <2>6, <2>7 DEF Step
<1>4. TasksInv' /\ \A u \in Tasks : todo'[u] \subseteq todo[u]
  BY <1>1, <1>2 DEF Step
<1>5. CopiesAreLow'
  BY <1>3, <1>4, CopiesDropped DEF TasksInv
<1>6. QED
  BY <1>3, <1>4, <1>5

-----------------------------------------------------------------------------
(* The theorems *)

(* The inductive invariant holds in every behaviour of the outbox.         *)
THEOREM Inductive == Spec => []IInv
<1>1. IInv /\ [Next]_vars => IInv'
  BY EnvironmentIInv, StepIInv DEF Next
<1>2. QED
  BY InitIInv, <1>1, PTL DEF Spec

(* Every variable keeps its type, and a message without a row has neither  *)
(* attempts nor a retry time.                                              *)
THEOREM TypeCorrect == Spec => []TypeOK
<1>1. IInv => TypeOK
  BY DEF IInv, RowsInv, RowTypes, TasksInv, TaskTypes, TypeOK
<1>2. QED
  BY Inductive, <1>1, PTL

(* No message is forgotten: what was neither transmitted, acknowledged,    *)
(* given up nor expired has a pending row, under any interleaving of       *)
(* passes, hand-overs, ACKs, cleanups and restarts.                        *)
THEOREM NothingForgotten == Spec => []OwedIsPending
<1>1. IInv => OwedIsPending
  BY DEF IInv, RowsInv
<1>2. QED
  BY Inductive, <1>1, PTL

(* message_history always tells the outcome of a message.                  *)
THEOREM HistoryIsRight == Spec => []HistoryTellsOutcome
<1>1. IInv => HistoryTellsOutcome
  BY DEF IInv, RowsInv
<1>2. QED
  BY Inductive, <1>1, PTL

(* A message of this node is given up only at the maximum of attempts,     *)
(* however stale the copy of the row a pass decides on.                    *)
THEOREM GivenUpAtMaximum == Spec => []FailedAfterMaxAttempts
<1>1. IInv => FailedAfterMaxAttempts
  BY DEF IInv, RowsInv
<1>2. QED
  BY Inductive, <1>1, PTL
=============================================================================
