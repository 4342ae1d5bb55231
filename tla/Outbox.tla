-------------------------------- MODULE Outbox --------------------------------
(***************************************************************************)
(* The sending side of one node's MessageRouter (message-router.ts): the   *)
(* rows of pending_messages for one remote peer, their mirror in           *)
(* message_history (database/index.ts), and the tasks that change them.    *)
(*                                                                         *)
(* Four kinds of task run at once, and JavaScript switches between them at *)
(* every await: send(), the retry() passes of a timer that does not wait   *)
(* for the pass before, and receive() calls, which first hand over what is *)
(* pending for the peer and then handle an ACK or a NAK.  A pass and a     *)
(* hand-over read the rows once and then transmit them one by one, so      *)
(* their copy of a row may be stale when they use it.                      *)
(*                                                                         *)
(* A message is one this node sends, an ACK of its own included, or one it *)
(* relays for somebody else (in Relayed), which may be queued again each   *)
(* time the origin relays it again.  A transmission ends by success or by  *)
(* failure (dial, send and close have timeouts); either way the message    *)
(* may or may not have reached the peer.  Messages for other peers only    *)
(* make a pass longer, and are not here; nor is the LIMIT 20 of a          *)
(* hand-over.                                                              *)
(***************************************************************************)
EXTENDS Naturals, FiniteSets

CONSTANTS
    Msgs,               \* messages for the peer
    Relayed,            \* those of them relayed for another node
    Passes,             \* retry() passes that may be in progress at once
    Calls,              \* receive() calls that may be in progress at once
    NoWork,             \* no row is being transmitted by a task
    MaxRetryAttempts,   \* MAX_RETRY_ATTEMPTS
    MaxQueued,          \* bound: times a relayed message is queued
    MaxCalls,           \* bound: receive() calls
    MaxCrashes          \* bound: restarts of this node

Tasks == Passes \cup Calls

(* A row as a task has read it.  An attempt count above the maximum is the *)
(* maximum: it is only ever compared with it.                              *)
Entry == [msg : Msgs, attempts : 0..MaxRetryAttempts]

ASSUME BoundsAssumption ==
    /\ MaxRetryAttempts \in Nat \ {0}
    /\ MaxQueued \in Nat /\ MaxCalls \in Nat /\ MaxCrashes \in Nat

ASSUME SetsAssumption ==
    /\ Relayed \subseteq Msgs
    /\ Passes \cap Calls = {}
    /\ NoWork \notin Entry

VARIABLES
    \* SQLite
    status,     \* pending_messages.status, "none" where there is no row
    attempts,   \* pending_messages.attempts
    due,        \* rows whose next_retry_at has passed
    expired,    \* messages whose deadline_at has passed
    history,    \* message_history.status of direction outbound
    \* memory
    stage,      \* where each pass and each receive() call stands
    todo,       \* the rows it has read and not come to yet
    work,       \* the row it is transmitting
    about,      \* the ACK or NAK a receive() call brought
    \* history, for the properties
    queued,     \* how often each message was queued
    owed,       \* queued, and since then neither transmitted, acknowledged,
                \* given up nor past the deadline
    calls, crashes

rowVars  == <<status, attempts, due, expired, history>>
taskVars == <<stage, todo, work, about>>
ghosts   == <<queued, owed, calls, crashes>>
vars     == <<rowVars, taskVars, ghosts>>

Row   == {"pending", "delivered", "failed"}

Stage == {"idle",
          "loop",       \* about to take the next row
          "transmit",   \* awaiting transmit()
          "mark",       \* ACK valid, awaiting the AckReceived event
          "nak"}        \* awaiting the NakReceived event

News == [kind : {"data", "ack", "nak"}, msg : Msgs]

TypeOK ==
    /\ status \in [Msgs -> Row \cup {"none"}]
    /\ attempts \in [Msgs -> 0..MaxRetryAttempts]
    /\ due \in SUBSET Msgs
    /\ expired \in SUBSET Msgs
    /\ history \in [Msgs -> Row \cup {"none"}]
    /\ stage \in [Tasks -> Stage]
    /\ todo \in [Tasks -> SUBSET Entry]
    /\ work \in [Tasks -> Entry \cup {NoWork}]
    /\ about \in [Calls -> News \cup {NoWork}]
    /\ queued \in [Msgs -> 0..MaxQueued + 1]
    /\ owed \in SUBSET Msgs
    /\ calls \in 0..MaxCalls
    /\ crashes \in 0..MaxCrashes
    /\ \A m \in Msgs : status[m] = "none" => attempts[m] = 0 /\ m \notin due

Init ==
    /\ status = [m \in Msgs |-> "none"]
    /\ attempts = [m \in Msgs |-> 0]
    /\ due = {} /\ expired = {}
    /\ history = [m \in Msgs |-> "none"]
    /\ stage = [t \in Tasks |-> "idle"]
    /\ todo = [t \in Tasks |-> {}]
    /\ work = [t \in Tasks |-> NoWork]
    /\ about = [c \in Calls |-> NoWork]
    /\ queued = [m \in Msgs |-> 0]
    /\ owed = {}
    /\ calls = 0 /\ crashes = 0

-----------------------------------------------------------------------------
(* The statements of the database layer.  An UPDATE changes nothing where  *)
(* there is no row, and the mirror is then left alone too.                 *)

HasRow(m) == status[m] # "none"

Plus(m, n) == IF attempts[m] + n > MaxRetryAttempts THEN MaxRetryAttempts
              ELSE attempts[m] + n

(* Mutant: the upsert does not set the status of a known row. *)
QueueMessageKeepsStatus(m) ==
    /\ status' = [status EXCEPT ![m] = IF HasRow(m) THEN @ ELSE "pending"]
    /\ history' = [history EXCEPT ![m] = "pending"]
    /\ expired' = expired \ {m}
    /\ IF HasRow(m)
       THEN UNCHANGED <<attempts, due>>
       ELSE /\ attempts' = [attempts EXCEPT ![m] = 0]
            /\ due' = due \cup {m}

(* queueMessage: a new row is due at once; a known one becomes pending     *)
(* with a new deadline and keeps its attempts and its next_retry_at.       *)
QueueMessage(m) ==
    /\ status' = [status EXCEPT ![m] = "pending"]
    /\ history' = [history EXCEPT ![m] = "pending"]
    /\ expired' = expired \ {m}
    /\ IF HasRow(m)
       THEN UNCHANGED <<attempts, due>>
       ELSE /\ attempts' = [attempts EXCEPT ![m] = 0]
            /\ due' = due \cup {m}

(* Mutant: the status is written without syncOutboundHistory. *)
MarkUnmirrored(m, outcome) ==
    /\ status' = IF HasRow(m) THEN [status EXCEPT ![m] = outcome] ELSE status
    /\ UNCHANGED <<history, attempts, due, expired>>

(* markPendingMessageDelivered and markPendingMessageFailed *)
Mark(m, outcome) ==
    /\ IF HasRow(m)
       THEN /\ status' = [status EXCEPT ![m] = outcome]
            /\ history' = [history EXCEPT ![m] = outcome]
       ELSE UNCHANGED <<status, history>>
    /\ UNCHANGED <<attempts, due, expired>>

(* Mutant: a failed attempt is not counted. *)
SchedulePendingRetryUncounted(m) ==
    /\ IF HasRow(m)
       THEN /\ status' = [status EXCEPT ![m] = "pending"]
            /\ history' = [history EXCEPT ![m] = "pending"]
            /\ due' = due \ {m}
       ELSE UNCHANGED <<status, history, due>>
    /\ UNCHANGED <<attempts, expired>>

(* schedulePendingRetry *)
SchedulePendingRetry(m) ==
    /\ IF HasRow(m)
       THEN /\ status' = [status EXCEPT ![m] = "pending"]
            /\ history' = [history EXCEPT ![m] = "pending"]
            /\ attempts' = [attempts EXCEPT ![m] = Plus(m, 1)]
            /\ due' = due \ {m}
       ELSE UNCHANGED <<status, history, attempts, due>>
    /\ UNCHANGED expired

(* Mutant: the attempts of a NAK are kept for a message that has no row.   *)
ScheduleAfterNakBlind(m) ==
    /\ attempts' = [attempts EXCEPT ![m] = Plus(m, 2)]
    /\ due' = due \ {m}
    /\ UNCHANGED <<status, history, expired>>

(* incrementAttempts, then scheduleRetry, which increments them again and  *)
(* leaves the status alone.                                                *)
ScheduleAfterNak(m) ==
    /\ IF HasRow(m)
       THEN /\ attempts' = [attempts EXCEPT ![m] = Plus(m, 2)]
            /\ due' = due \ {m}
       ELSE UNCHANGED <<attempts, due>>
    /\ UNCHANGED <<status, history, expired>>

(* deleteExpiredPendingMessages, in cleanup() *)
Cleanup ==
    LET gone == {m \in Msgs : m \in expired \/ status[m] \in {"delivered", "failed"}}
    IN  /\ status' = [m \in Msgs |-> IF m \in gone THEN "none" ELSE status[m]]
        /\ attempts' = [m \in Msgs |-> IF m \in gone THEN 0 ELSE attempts[m]]
        /\ due' = due \ gone
        /\ UNCHANGED <<expired, history>>

-----------------------------------------------------------------------------
(* send(), and a relayed message that comes in to be stored *)

(* The row is written.  What follows in send(), encryption and a first     *)
(* transmission, changes no row, whether it succeeds or throws; a relayed  *)
(* message is only stored.                                                 *)
Queue(m) ==
    /\ queued[m] < IF m \in Relayed THEN MaxQueued ELSE 1
    /\ QueueMessage(m)
    /\ queued' = [queued EXCEPT ![m] = @ + 1]
    /\ owed' = owed \cup {m}
    /\ UNCHANGED <<taskVars, calls, crashes>>

-----------------------------------------------------------------------------
(* retry() and handoverPendingMessagesToPeer *)

(* getRetryablePendingMessages *)
Retryable == {m \in Msgs : status[m] = "pending" /\ m \in due /\ m \notin expired}

(* getPendingMessagesForPeer *)
PendingForPeer == {m \in Msgs : status[m] = "pending" /\ m \notin expired}

Read(rows) == {[msg |-> m, attempts |-> attempts[m]] : m \in rows}

(* The timer fires. *)
RetryStarts(t) ==
    /\ t \in Passes /\ stage[t] = "idle"
    /\ stage' = [stage EXCEPT ![t] = "loop"]
    /\ todo' = [todo EXCEPT ![t] = Read(Retryable)]
    /\ UNCHANGED <<rowVars, work, about, ghosts>>

(* Mutant: one attempt too few. *)
ExhaustedEarly(t, e) == t \in Passes /\ e.attempts + 1 >= MaxRetryAttempts

(* Only a pass looks at the attempts, as they were when it read the row.   *)
Exhausted(t, e) == t \in Passes /\ e.attempts >= MaxRetryAttempts

(* A pass marks a row failed that has been tried often enough. *)
GiveUp(t) ==
    /\ stage[t] = "loop"
    /\ \E e \in todo[t] :
         /\ Exhausted(t, e)
         /\ Mark(e.msg, "failed")
         /\ todo' = [todo EXCEPT ![t] = @ \ {e}]
         /\ owed' = owed \ {e.msg}
    /\ UNCHANGED <<stage, work, about, queued, calls, crashes>>

(* A row is taken and its message is being transmitted. *)
Transmit(t) ==
    /\ stage[t] = "loop"
    /\ \E e \in todo[t] :
         /\ ~Exhausted(t, e)
         /\ todo' = [todo EXCEPT ![t] = @ \ {e}]
         /\ work' = [work EXCEPT ![t] = e]
    /\ stage' = [stage EXCEPT ![t] = "transmit"]
    /\ UNCHANGED <<rowVars, about, ghosts>>

NextEntry(t) ==
    /\ stage' = [stage EXCEPT ![t] = "loop"]
    /\ work' = [work EXCEPT ![t] = NoWork]
    /\ UNCHANGED <<todo, about>>

(* transmit() returns: the row is marked delivered. *)
TransmitOk(t) ==
    /\ stage[t] = "transmit"
    /\ Mark(work[t].msg, "delivered")
    /\ owed' = owed \ {work[t].msg}
    /\ NextEntry(t)
    /\ UNCHANGED <<queued, calls, crashes>>

(* transmit() throws: after the attempts to relay the message, the row is  *)
(* scheduled for a later retry.                                            *)
TransmitFails(t) ==
    /\ stage[t] = "transmit"
    /\ SchedulePendingRetry(work[t].msg)
    /\ NextEntry(t)
    /\ UNCHANGED ghosts

(* retry() ends with the cleanup of the tables. *)
PassEnds(t) ==
    /\ t \in Passes /\ stage[t] = "loop" /\ todo[t] = {}
    /\ Cleanup
    /\ stage' = [stage EXCEPT ![t] = "idle"]
    /\ UNCHANGED <<todo, work, about, ghosts>>

-----------------------------------------------------------------------------
(* receive(): the hand-over, then handleAck or handleNak *)

(* A message of the peer arrives: data, the ACK of a message this node     *)
(* sent (relayed ones are acknowledged to their origin), or a NAK.         *)
CallArrives(c) ==
    /\ stage[c] = "idle" /\ calls < MaxCalls
    /\ \E news \in News :
         /\ news.kind # "data" => queued[news.msg] > 0
         /\ news.kind = "ack" => news.msg \notin Relayed
         /\ about' = [about EXCEPT ![c] = news]
    /\ calls' = calls + 1
    /\ stage' = [stage EXCEPT ![c] = "loop"]
    /\ todo' = [todo EXCEPT ![c] = Read(PendingForPeer)]
    /\ UNCHANGED <<rowVars, work, queued, owed, crashes>>

Return(c) ==
    /\ stage' = [stage EXCEPT ![c] = "idle"]
    /\ about' = [about EXCEPT ![c] = NoWork]
    /\ UNCHANGED <<todo, work>>

(* The hand-over is done.  Data goes the way of module Inbound; the        *)
(* NakReceived event is emitted at once, the AckReceived event when        *)
(* validateAck finds the message's row.                                    *)
HandedOver(c) ==
    /\ c \in Calls /\ stage[c] = "loop" /\ todo[c] = {}
    /\ CASE about[c].kind = "nak" ->
              stage' = [stage EXCEPT ![c] = "nak"] /\ UNCHANGED <<todo, work, about>>
         [] about[c].kind = "ack" /\ HasRow(about[c].msg) ->
              stage' = [stage EXCEPT ![c] = "mark"] /\ UNCHANGED <<todo, work, about>>
         [] OTHER -> Return(c)
    /\ UNCHANGED <<rowVars, ghosts>>

(* An ACK older than the clock skew allows is ignored. *)
AckTooOld(c) ==
    /\ c \in Calls /\ stage[c] = "loop" /\ todo[c] = {}
    /\ about[c].kind = "ack"
    /\ Return(c)
    /\ UNCHANGED <<rowVars, ghosts>>

(* handleAck after the event *)
AckMarks(c) ==
    /\ stage[c] = "mark"
    /\ Mark(about[c].msg, "delivered")
    /\ owed' = owed \ {about[c].msg}
    /\ Return(c)
    /\ UNCHANGED <<queued, calls, crashes>>

(* handleNak after the event *)
NakSchedules(c) ==
    /\ stage[c] = "nak"
    /\ ScheduleAfterNak(about[c].msg)
    /\ Return(c)
    /\ UNCHANGED ghosts

-----------------------------------------------------------------------------
(* Time and failure *)

(* next_retry_at passes. *)
BecomesDue(m) ==
    /\ status[m] = "pending" /\ m \notin due
    /\ due' = due \cup {m}
    /\ UNCHANGED <<status, attempts, expired, history, taskVars, ghosts>>

(* deadline_at passes. *)
Expires(m) ==
    /\ HasRow(m) /\ m \notin expired
    /\ expired' = expired \cup {m}
    /\ owed' = owed \ {m}
    /\ UNCHANGED <<status, attempts, due, history, taskVars, queued, calls,
                   crashes>>

(* The process dies and is started again: the tasks are gone. *)
Crash ==
    /\ crashes < MaxCrashes
    /\ crashes' = crashes + 1
    /\ stage' = [t \in Tasks |-> "idle"]
    /\ todo' = [t \in Tasks |-> {}]
    /\ work' = [t \in Tasks |-> NoWork]
    /\ about' = [c \in Calls |-> NoWork]
    /\ UNCHANGED <<rowVars, queued, owed, calls>>

-----------------------------------------------------------------------------
Step(t) ==
    \/ GiveUp(t) \/ Transmit(t) \/ TransmitOk(t) \/ TransmitFails(t)
    \/ PassEnds(t) \/ HandedOver(t) \/ AckTooOld(t) \/ AckMarks(t)
    \/ NakSchedules(t)

Next ==
    \/ \E m \in Msgs : Queue(m) \/ BecomesDue(m) \/ Expires(m)
    \/ \E t \in Passes : RetryStarts(t)
    \/ \E c \in Calls : CallArrives(c)
    \/ \E t \in Tasks : Step(t)
    \/ Crash

Spec == Init /\ [][Next]_vars

(* The retry timer keeps firing, what has been started goes on (every      *)
(* await has a timeout), and the time of a retry comes.  Deadlines need    *)
(* not pass, the peer need not answer, no transmission need succeed.       *)
Fairness ==
    /\ \A t \in Passes : WF_vars(RetryStarts(t))
    /\ \A t \in Tasks : WF_vars(Step(t))
    /\ \A m \in Msgs : WF_vars(BecomesDue(m))

FairSpec == Spec /\ Fairness

-----------------------------------------------------------------------------
(* Properties *)

(* No message is forgotten: as long as it has not been transmitted,        *)
(* acknowledged or given up, and its deadline has not passed, its row is   *)
(* there and pending, whatever passes, hand-overs, cleanups and restarts   *)
(* do at the same time (queueMessage, retry, handleAck, cleanup).          *)
OwedIsPending == \A m \in owed : status[m] = "pending"

(* message_history tells what became of a message: the status of its row   *)
(* while there is one; after that its outcome, or "pending" when the       *)
(* deadline passed first.  The mirror is written by every statement that   *)
(* changes the row, cleanup apart.                                         *)
HistoryTellsOutcome ==
    \A m \in Msgs :
        /\ HasRow(m) => history[m] = status[m]
        /\ ~HasRow(m) /\ history[m] = "pending" => m \in expired

(* A message of this node is given up only when its row counts the maximum *)
(* of attempts, although a pass decides on a copy of the count.            *)
FailedAfterMaxAttempts ==
    \A m \in Msgs \ Relayed :
        status[m] = "failed" => attempts[m] = MaxRetryAttempts

(* Every row leaves the table at last, without help of its deadline:       *)
(* retries are not endless.                                                *)
QueueDrains == \A m \in Msgs : HasRow(m) ~> ~HasRow(m)

-----------------------------------------------------------------------------
(* A statement of the repository that the code does not keep *)

(* "Delivered entries should not be eligible for retries"                  *)
(* (public-api.contract.test.ts): a delivered row does not become pending. *)
DeliveredIsFinal ==
    [][\A m \in Msgs : status[m] = "delivered" => status'[m] # "pending"]_vars
=============================================================================
