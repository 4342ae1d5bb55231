------------------------------- MODULE Admission -------------------------------
(***************************************************************************)
(* The rate limits at the head of MessageRouter.receive()                  *)
(* (message-router.ts): a token bucket of the throttle key of the sender   *)
(* and one of the sender itself, asked in this order.  A bucket is         *)
(* refilled only when it is asked, for the time since it was last          *)
(* refilled, and one that was never asked is full.                         *)
(*                                                                         *)
(* The unit of a bucket is what one tick of the clock refills: a message   *)
(* costs intervalMs / tokensPerInterval of them.  The throttle key is the  *)
(* peer id (getThrottleKeyForPeer), so each sender has two buckets of its  *)
(* own.                                                                    *)
(***************************************************************************)
EXTENDS Naturals

CONSTANTS
    Senders,
    Cost,           \* what a message takes out of each of them
    Burst,          \* what each of them holds
    MaxElapsed,     \* bound: length of a watched interval, in ticks
    MaxRestarts     \* bound: restarts in it

(* The two buckets of a sender.                                            *)
TokenBuckets == {"origin", "peer"}

ASSUME AdmissionAssumption ==
    /\ Cost \in [TokenBuckets -> Nat] /\ Burst \in [TokenBuckets -> Nat]
    /\ MaxElapsed \in Nat /\ MaxRestarts \in Nat

VARIABLES
    tokens,     \* of each bucket, when it was last refilled
    age,        \* ticks since then
    \* ghosts: an interval that may begin at any time
    elapsed,    \* its length so far
    admitted,   \* messages admitted in it, by sender
    restarts    \* restarts in it

bucketVars    == <<tokens, age>>
watchVars     == <<elapsed, admitted, restarts>>
admissionVars == <<bucketVars, watchVars>>

AdmissionTypeOK ==
    /\ tokens \in [Senders -> [TokenBuckets -> Nat]]
    /\ \A s \in Senders, b \in TokenBuckets : tokens[s][b] <= Burst[b]
    /\ age \in [Senders -> [TokenBuckets -> Nat]]
    /\ elapsed \in 0..MaxElapsed
    /\ admitted \in [Senders -> Nat]
    /\ restarts \in 0..MaxRestarts

Full == [s \in Senders |-> Burst]

AdmissionInit ==
    /\ tokens = Full
    /\ age = [s \in Senders |-> [b \in TokenBuckets |-> 0]]
    /\ elapsed = 0
    /\ admitted = [s \in Senders |-> 0]
    /\ restarts = 0

-----------------------------------------------------------------------------
(* Mutant: a bucket is refilled beyond what it holds. *)
RefilledOver(s, b) == tokens[s][b] + age[s][b]

(* What bucket b of s holds when it is asked now.                          *)
Refilled(s, b) ==
    IF tokens[s][b] + age[s][b] < Burst[b] THEN tokens[s][b] + age[s][b]
    ELSE Burst[b]

Allows(s, b) == Refilled(s, b) >= Cost[b]

(* Bucket b was asked iff b is in asked, and granted iff it is in granted. *)
Charge(s, asked, granted) ==
    /\ tokens' = [tokens EXCEPT ![s] = [b \in TokenBuckets |->
            IF b \in granted THEN Refilled(s, b) - Cost[b]
            ELSE IF b \in asked THEN Refilled(s, b)
            ELSE tokens[s][b]]]
    /\ age' = [age EXCEPT ![s] = [b \in TokenBuckets |->
            IF b \in asked THEN 0 ELSE age[s][b]]]

Admit(s) ==
    /\ Allows(s, "origin") /\ Allows(s, "peer")
    /\ Charge(s, {"origin", "peer"}, {"origin", "peer"})
    /\ admitted' = [admitted EXCEPT ![s] = @ + 1]
    /\ UNCHANGED <<elapsed, restarts>>

RefuseByOrigin(s) ==
    /\ ~Allows(s, "origin")
    /\ Charge(s, {"origin"}, {})
    /\ UNCHANGED watchVars

(* What was taken for the origin is not given back.                        *)
RefuseByPeer(s) ==
    /\ Allows(s, "origin") /\ ~Allows(s, "peer")
    /\ Charge(s, {"origin", "peer"}, {"origin"})
    /\ UNCHANGED watchVars

(* An age that refills the bucket for certain is as good as any above it.  *)
Tick ==
    /\ elapsed < MaxElapsed
    /\ elapsed' = elapsed + 1
    /\ age' = [s \in Senders |-> [b \in TokenBuckets |->
                IF age[s][b] < Burst[b] THEN age[s][b] + 1 ELSE age[s][b]]]
    /\ UNCHANGED <<tokens, admitted, restarts>>

(* shutdown(), or the end of the process: every bucket is forgotten.       *)
ForgetBuckets ==
    /\ restarts < MaxRestarts
    /\ restarts' = restarts + 1
    /\ tokens' = Full
    /\ UNCHANGED <<age, elapsed, admitted>>

(* Another interval is watched from now on.                                *)
Watch ==
    /\ elapsed' = 0 /\ restarts' = 0
    /\ admitted' = [s \in Senders |-> 0]
    /\ UNCHANGED bucketVars

AdmissionNext ==
    \/ \E s \in Senders : Admit(s) \/ RefuseByOrigin(s) \/ RefuseByPeer(s)
    \/ Tick \/ ForgetBuckets \/ Watch

AdmissionSpec == AdmissionInit /\ [][AdmissionNext]_admissionVars

-----------------------------------------------------------------------------
(* In whatever interval, no more messages of a sender are admitted than    *)
(* each of its buckets holds and refills in that time, plus one bucket for *)
(* each restart.                                                           *)
WithinBudget ==
    \A s \in Senders, b \in TokenBuckets :
        admitted[s] * Cost[b] <= Burst[b] * (1 + restarts) + elapsed

=============================================================================
