---------------------------- MODULE PeerKeysProofs ----------------------------
(***************************************************************************)
(* What holds of PeerKeys for any number of concurrent sends, keys,        *)
(* hellos, connections and restarts: a pending refresh has a handshake     *)
(* that will end it, and a send that a handshake woke encrypts with a key  *)
(* that came while it waited or after.                                     *)
(***************************************************************************)
EXTENDS PeerKeys, TLAPS

-----------------------------------------------------------------------------
(* The inductive invariant *)

(* KeysTypeOK, by the variables that change together. *)
Flags ==
    /\ metaOld \in BOOLEAN /\ row \in BOOLEAN /\ rowOld \in BOOLEAN
    /\ session \in BOOLEAN /\ pending \in BOOLEAN
    /\ session => row /\ ~rowOld

KeyTypes == theirs \in Keys /\ meta \in Keys \cup {NoKey}

HandshakeTypes ==
    /\ version \in 0..MaxHellos /\ pendingVersion \in 0..MaxHellos
    /\ attempt \in 0..MaxAttempts
    /\ saving \in Seq(Keys)
    /\ hellos \in 0..MaxHellos /\ connects \in 0..MaxConnects
    /\ crashes \in 0..MaxCrashes

SendTypes ==
    /\ stage \in [Sends -> Stage]
    /\ got \in [Sends -> Keys \cup {NoKey}]
    /\ forced \in [Sends -> BOOLEAN]
    /\ used \in [Sends -> Found]
    /\ woken \in SUBSET Sends
    /\ heard \in [Sends -> SUBSET Keys]

Types == Flags /\ KeyTypes /\ HandshakeTypes /\ SendTypes

(* Every hello is counted once, until a restart forgets it. *)
HellosCounted == version + Len(saving) <= hellos

(* While a processHandshake awaits the database, the row holds the key of  *)
(* the last of them: no time passes, and the cleanup leaves it.            *)
SavedIsThere == saving # <<>> => meta = saving[Len(saving)] /\ ~metaOld

(* A waiting send has been there for every key that is being saved. *)
WaitHeard ==
    \A s \in Sends : stage[s] = "wait" =>
        s \notin woken /\ \A i \in 1..Len(saving) : saving[i] \in heard[s]

(* A woken send has only the last lookup before it, which will find a key  *)
(* it heard of, and has found one when it ends.                            *)
WokenHeard ==
    \A s \in woken :
        /\ stage[s] \in {"ready", "last"} \cup Ended
        /\ stage[s] = "ready" => meta \in heard[s] /\ ~metaOld
        /\ stage[s] = "last" => got[s] \in heard[s]

WakeInv == SavedIsThere /\ WaitHeard /\ WokenHeard /\ WokenUsesNewKey

IInv == Types /\ HellosCounted /\ RefreshIsUnderWay /\ WakeInv

-----------------------------------------------------------------------------
(* Init, the connection, the handshake and time *)

LEMMA InitIInv == Init => IInv
<1> SUFFICES ASSUME Init PROVE IInv
  OBVIOUS
<1>0. Flags
  BY DEF Init, Flags
<1>1. KeyTypes
  BY LimitsAssumption DEF Init, KeyTypes, Keys
<1>2. HandshakeTypes
  BY LimitsAssumption DEF Init, HandshakeTypes
<1>3. SendTypes
  BY DEF Init, SendTypes, Found, Stage
<1>4. HellosCounted /\ RefreshIsUnderWay /\ WakeInv
  BY LimitsAssumption DEF Init, HellosCounted, RefreshIsUnderWay, WakeInv, SavedIsThere,
     WaitHeard, WokenHeard, WokenUsesNewKey
<1>5. QED
  BY <1>0, <1>1, <1>2, <1>3, <1>4 DEF IInv, Types

(* What the sends see is the row, the keys being saved and themselves.     *)
LEMMA SendsUndisturbed ==
    ASSUME WakeInv, SendTypes, UNCHANGED <<meta, metaOld, saving, sendVars>>
    PROVE  WakeInv' /\ SendTypes'
<1>1. WakeInv'
  BY DEF WakeInv, SavedIsThere, WaitHeard, WokenHeard, WokenUsesNewKey, sendVars
<1>2. SendTypes'
  BY DEF SendTypes, sendVars
<1>3. QED
  BY <1>1, <1>2

LEMMA HandshakeIInv ==
    ASSUME IInv, Connect \/ AttemptFails \/ AttemptEnds
    PROVE  IInv'
<1> USE DEF IInv, Types
<1>1. UNCHANGED <<meta, metaOld, saving, sendVars>>
  BY DEF Connect, AttemptFails, AttemptEnds, dbVars
<1>2. WakeInv' /\ SendTypes'
  BY <1>1, SendsUndisturbed
<1>3. CASE Connect
  <2>0. Flags'
    BY <1>3 DEF Connect, GetOrCreateSession, CreateSession, Flags
  <2>1. KeyTypes'
    BY <1>3 DEF Connect, KeyTypes
  <2>2. HandshakeTypes'
    BY <1>3, LimitsAssumption DEF Connect, HandshakeTypes
  <2>3. HellosCounted' /\ RefreshIsUnderWay'
    BY <1>3 DEF Connect, HellosCounted, RefreshIsUnderWay, HandshakeTypes
  <2>4. QED
    BY <1>2, <2>0, <2>1, <2>2, <2>3
<1>4. CASE AttemptFails \/ AttemptEnds
  <2>1. UNCHANGED <<theirs, dbVars, session, version, saving, bounds>>
    BY <1>4 DEF AttemptFails, AttemptEnds
  <2>2. KeyTypes'
    BY <2>1 DEF KeyTypes, dbVars
  <2>3. attempt > 0 /\ \/ attempt < MaxAttempts /\ attempt' = attempt + 1
                          /\ UNCHANGED <<pending, pendingVersion>>
                       \/ attempt' = 0 /\ pending' = FALSE /\ pendingVersion' = 0
    BY <1>4 DEF AttemptFails, AttemptEnds, HandshakeGivenUp, ClearPeerKeyRefresh
  <2>0. Flags'
    BY <2>1, <2>3 DEF Flags, dbVars
  <2>4. HandshakeTypes'
    BY <2>1, <2>3, LimitsAssumption DEF HandshakeTypes, bounds
  <2>5. HellosCounted' /\ RefreshIsUnderWay'
    BY <2>1, <2>3, LimitsAssumption DEF HellosCounted, RefreshIsUnderWay, HandshakeTypes, bounds
  <2>6. QED
    BY <1>2, <2>0, <2>2, <2>4, <2>5
<1>5. QED
  BY <1>3, <1>4

(* No lifetime passes while a key is being saved or a woken send has not   *)
(* looked up the key yet.                                                  *)
LEMMA TimeIInv ==
    ASSUME IInv, PeerRekeys \/ MetaAges \/ SessionsExpire
    PROVE  IInv'
<1> USE DEF IInv, Types
<1>1. UNCHANGED <<meta, version, pending, pendingVersion, attempt, saving, sendVars, bounds>>
  BY DEF PeerRekeys, MetaAges, SessionsExpire, dbVars, keyVars
<1>0. Flags'
  <2>1. CASE PeerRekeys
    BY <2>1 DEF PeerRekeys, Flags, dbVars, keyVars
  <2>2. CASE MetaAges
    BY <2>2 DEF MetaAges, Flags, keyVars
  <2>3. CASE SessionsExpire
    BY <2>3 DEF SessionsExpire, Flags
  <2>4. QED
    BY <2>1, <2>2, <2>3
<1>2. KeyTypes'
  BY LimitsAssumption DEF PeerRekeys, MetaAges, SessionsExpire, KeyTypes, Keys, dbVars
<1>3. HandshakeTypes' /\ HellosCounted' /\ RefreshIsUnderWay'
  BY <1>1 DEF HandshakeTypes, HellosCounted, RefreshIsUnderWay, bounds
<1>4. CASE MetaAges
  <2>1. saving = <<>> /\ \A s \in Sends : stage[s] # "ready"
    BY <1>4 DEF MetaAges, Quiet, Slow, Waiting, Ended
  <2>2. WakeInv'
    BY <1>1, <2>1 DEF SendTypes, WakeInv, SavedIsThere, WaitHeard, WokenHeard,
                      WokenUsesNewKey, sendVars
  <2>3. SendTypes'
    BY <1>1 DEF SendTypes, sendVars
  <2>4. QED
    BY <1>0, <1>2, <1>3, <2>2, <2>3
<1>5. CASE PeerRekeys \/ SessionsExpire
  <2>1. UNCHANGED metaOld
    BY <1>5 DEF PeerRekeys, SessionsExpire, dbVars
  <2>2. QED
    BY <1>0, <1>1, <1>2, <1>3, <2>1, SendsUndisturbed
<1>6. QED
  BY <1>4, <1>5

LEMMA CleanupIInv ==
    ASSUME IInv, Cleanup
    PROVE  IInv'
<1> USE DEF IInv, Types
<1>1. UNCHANGED <<theirs, keyVars, sendVars, bounds>> /\ metaOld' = FALSE /\ rowOld' = FALSE
      /\ (~metaOld => meta' = meta) /\ (metaOld => meta' = NoKey)
      /\ row' = (row /\ ~rowOld)
  BY DEF Cleanup, Flags
<1>0. Flags'
  BY <1>1 DEF Flags, keyVars
<1>2. KeyTypes'
  BY <1>1 DEF Flags, KeyTypes, keyVars
<1>3. HandshakeTypes' /\ HellosCounted' /\ RefreshIsUnderWay'
  BY <1>1 DEF HandshakeTypes, HellosCounted, RefreshIsUnderWay, keyVars, bounds
<1>4. SendTypes'
  BY <1>1 DEF SendTypes, sendVars
<1>5. WakeInv'
  BY <1>1 DEF WakeInv, SavedIsThere, WaitHeard, WokenHeard, WokenUsesNewKey, keyVars, sendVars
<1>6. QED
  BY <1>0, <1>2, <1>3, <1>4, <1>5

LEMMA CrashIInv ==
    ASSUME IInv, Crash
    PROVE  IInv'
<1> USE DEF IInv, Types
<1>0. Flags'
  BY DEF Crash, ClearPeerKeyRefresh, Flags, dbVars
<1>1. KeyTypes'
  BY DEF Crash, KeyTypes, dbVars
<1>2. HandshakeTypes'
  BY LimitsAssumption DEF Crash, ClearPeerKeyRefresh, HandshakeTypes
<1>3. HellosCounted' /\ RefreshIsUnderWay'
  BY DEF Crash, ClearPeerKeyRefresh, HellosCounted, RefreshIsUnderWay, HandshakeTypes
<1>4. stage' \in [Sends -> Stage] /\ UNCHANGED <<got, forced, used, woken, heard>>
  BY DEF Crash, SendTypes, Stage, Ended
<1>5. SendTypes'
  BY <1>4 DEF SendTypes
<1>6. \A s \in Sends : /\ stage'[s] \in {"idle", "sent", "failed", "gone"}
                       /\ stage'[s] \in {"idle", "sent", "failed"} => stage'[s] = stage[s]
  BY DEF Crash, Ended
<1>7. saving' = <<>>
  BY DEF Crash
<1>8. woken \subseteq Sends
  BY DEF SendTypes
<1>9. SavedIsThere' /\ WaitHeard'
  BY <1>6, <1>7 DEF SavedIsThere, WaitHeard
<1>10. WokenHeard' /\ WokenUsesNewKey'
  BY <1>4, <1>6, <1>8 DEF WakeInv, WokenHeard, WokenUsesNewKey, Ended
<1>11. QED
  BY <1>0, <1>1, <1>2, <1>3, <1>5, <1>9, <1>10 DEF WakeInv

-----------------------------------------------------------------------------
(* The hellos of the peer *)

LEMMA HelloArrivesIInv ==
    ASSUME IInv, NEW k \in Keys, HelloArrives(k)
    PROVE  IInv'
<1> USE DEF IInv, Types
<1>1. /\ meta' = k /\ metaOld' = FALSE /\ saving' = Append(saving, k)
      /\ UNCHANGED <<theirs, row, rowOld, session, version, pending, pendingVersion,
                     attempt, stage, got, forced, used, woken, connects, crashes>>
      /\ hellos' = hellos + 1 /\ hellos' \in 0..MaxHellos
  BY LimitsAssumption DEF HelloArrives, SaveKey, HandshakeTypes
<1>2. Flags'
  BY <1>1 DEF Flags
<1>3. KeyTypes'
  BY <1>1 DEF KeyTypes
<1>4. HandshakeTypes'
  BY <1>1 DEF HandshakeTypes
<1>5. HellosCounted' /\ RefreshIsUnderWay'
  BY <1>1 DEF HellosCounted, RefreshIsUnderWay, HandshakeTypes
<1>6. /\ heard' \in [Sends -> SUBSET Keys]
      /\ \A s \in Sends : /\ heard[s] \subseteq heard'[s]
                          /\ stage[s] \in {"wait", "ready"} => k \in heard'[s]
  BY DEF HelloArrives, SendTypes
<1>7. SendTypes'
  BY <1>1, <1>6 DEF SendTypes
<1>8. /\ Len(saving') = Len(saving) + 1 /\ saving'[Len(saving')] = k
      /\ \A i \in 1..Len(saving) : saving'[i] = saving[i]
      /\ Len(saving) \in Nat
  BY <1>1 DEF HandshakeTypes
<1>9. SavedIsThere'
  BY <1>1, <1>8 DEF SavedIsThere
<1>10. WaitHeard'
  <2> SUFFICES ASSUME NEW s \in Sends, stage'[s] = "wait", NEW i \in 1..Len(saving')
               PROVE  s \notin woken' /\ saving'[i] \in heard'[s]
    BY <1>1, <1>8 DEF WaitHeard, WakeInv
  <2>1. s \notin woken'
    BY <1>1 DEF WaitHeard, WakeInv
  <2>2. CASE i = Len(saving')
    BY <1>1, <1>6, <1>8, <2>1, <2>2
  <2>3. CASE i \in 1..Len(saving)
    BY <1>1, <1>6, <1>8, <2>1, <2>3 DEF WaitHeard, WakeInv
  <2>4. QED
    BY <1>8, <2>2, <2>3
<1>11. WokenHeard' /\ WokenUsesNewKey'
  BY <1>1, <1>6 DEF WokenHeard, WokenUsesNewKey, WakeInv, SendTypes
<1>12. QED
  BY <1>2, <1>3, <1>4, <1>5, <1>7, <1>9, <1>10, <1>11 DEF WakeInv

(* A woken send heard of the key that is in the row: it is the last of     *)
(* those being saved, and the send has been there for all of them.         *)
LEMMA HelloContinuesIInv ==
    ASSUME IInv, HelloContinues
    PROVE  IInv'
<1> USE DEF IInv, Types
<1>1. /\ saving # <<>> /\ saving' = Tail(saving) /\ version' = version + 1
      /\ pending' = FALSE /\ pendingVersion' = 0
      /\ session' = TRUE /\ row' = TRUE /\ rowOld' = FALSE
      /\ UNCHANGED <<theirs, meta, metaOld, attempt, got, forced, used, heard, bounds>>
  BY DEF HelloContinues, ClearPeerKeyRefresh, CreateSession
<1>2. /\ saving \in Seq(Keys) /\ saving' \in Seq(Keys)
      /\ Len(saving) \in Nat \ {0} /\ Len(saving') = Len(saving) - 1
      /\ \A i \in 1..Len(saving') : saving'[i] = saving[i + 1]
  BY <1>1 DEF HandshakeTypes
<1>3. Flags'
  BY <1>1 DEF Flags
<1>4. KeyTypes'
  BY <1>1 DEF KeyTypes
<1>5. version + 1 \in 0..MaxHellos
  BY <1>2, LimitsAssumption DEF HandshakeTypes, HellosCounted
<1>6. HandshakeTypes'
  BY <1>1, <1>2, <1>5, LimitsAssumption DEF HandshakeTypes, bounds
<1>7. HellosCounted' /\ RefreshIsUnderWay'
  BY <1>1, <1>2 DEF HellosCounted, RefreshIsUnderWay, HandshakeTypes, bounds
<1>8. /\ woken' = woken \cup {s \in Sends : stage[s] = "wait"}
      /\ stage' = [s \in Sends |-> CASE stage[s] = "ensured" -> "again"
                                     [] stage[s] = "wait" -> "ready"
                                     [] OTHER -> stage[s]]
  BY DEF HelloContinues, SignalPeerKeyAvailable
<1>9. \A s \in Sends : /\ stage'[s] # "wait"
                       /\ stage[s] = "wait" => stage'[s] = "ready"
                       /\ stage[s] = "ensured" => stage'[s] = "again"
                       /\ stage[s] \notin {"wait", "ensured"} => stage'[s] = stage[s]
  BY <1>8
<1>10. SendTypes'
  <2>1. woken' \in SUBSET Sends
    BY <1>8 DEF SendTypes
  <2>2. stage' \in [Sends -> Stage]
    BY <1>8 DEF SendTypes, Stage
  <2>3. QED
    BY <1>1, <2>1, <2>2 DEF SendTypes
<1>11. SavedIsThere'
  BY <1>1, <1>2 DEF WakeInv, SavedIsThere
<1>12. \A s \in Sends : stage[s] = "wait" => meta \in heard[s] /\ ~metaOld
  BY <1>1, <1>2 DEF WakeInv, SavedIsThere, WaitHeard
<1>13. WaitHeard'
  BY <1>9 DEF WaitHeard
<1>14. ASSUME NEW s \in woken'
       PROVE  /\ stage'[s] \in {"ready", "last"} \cup Ended
              /\ stage'[s] = "ready" => meta \in heard[s] /\ ~metaOld
              /\ stage'[s] = "last" => got[s] \in heard[s]
              /\ stage'[s] \in {"sent", "failed"} => used[s] \in heard[s]
  <2>1. CASE s \in woken
    <3>1. s \in Sends /\ stage'[s] = stage[s]
      BY <1>9, <2>1 DEF SendTypes, WakeInv, WokenHeard, Ended
    <3>2. QED
      BY <2>1, <3>1 DEF WakeInv, WokenHeard, WokenUsesNewKey
  <2>2. CASE s \in Sends /\ stage[s] = "wait"
    BY <1>9, <1>12, <2>2
  <2>3. QED
    BY <1>8, <2>1, <2>2
<1>15. WokenHeard' /\ WokenUsesNewKey'
  BY <1>1, <1>14 DEF WokenHeard, WokenUsesNewKey
<1>16. QED
  BY <1>3, <1>4, <1>6, <1>7, <1>10, <1>11, <1>13, <1>15 DEF WakeInv

-----------------------------------------------------------------------------
(* The sends *)

(* What the step of one send leaves alone. *)
OthersKept(s) ==
    \A u \in Sends \ {s} : /\ stage'[u] = stage[u] /\ got'[u] = got[u]
                           /\ used'[u] = used[u] /\ heard'[u] = heard[u]

(* It is enough to look at the send that takes the step. *)
LEMMA OneSend ==
    ASSUME IInv, SendTypes', NEW s \in Sends, OthersKept(s),
           UNCHANGED <<theirs, dbVars, keyVars, woken, bounds>>,
           stage'[s] = "wait" =>
               s \notin woken /\ \A i \in 1..Len(saving) : saving[i] \in heard'[s],
           s \in woken =>
               /\ stage'[s] \in {"ready", "last"} \cup Ended
               /\ stage'[s] = "ready" => meta \in heard'[s] /\ ~metaOld
               /\ stage'[s] = "last" => got'[s] \in heard'[s]
               /\ stage'[s] \in {"sent", "failed"} => used'[s] \in heard'[s]
    PROVE  IInv'
<1> USE DEF IInv, Types
<1>1. Flags'
  BY DEF Flags, dbVars, keyVars
<1>2. KeyTypes'
  BY DEF KeyTypes, dbVars
<1>3. HandshakeTypes' /\ HellosCounted' /\ RefreshIsUnderWay'
  BY DEF HandshakeTypes, HellosCounted, RefreshIsUnderWay, keyVars, bounds
<1>4. UNCHANGED <<meta, metaOld, saving, woken>> /\ woken \subseteq Sends
  BY DEF dbVars, keyVars, SendTypes
<1>5. SavedIsThere'
  BY <1>4 DEF SavedIsThere, WakeInv
<1>6. WaitHeard'
  BY <1>4 DEF WaitHeard, WakeInv, OthersKept
<1>7. WokenHeard' /\ WokenUsesNewKey'
  BY <1>4 DEF WokenHeard, WokenUsesNewKey, WakeInv, OthersKept
<1>8. QED
  BY <1>1, <1>2, <1>3, <1>5, <1>6, <1>7 DEF WakeInv

LEMMA ResultFound ==
    ASSUME SendTypes, NEW s \in Sends
    PROVE  Result(s) \in Found /\ (got[s] # NoKey => Result(s) = got[s])
BY DEF SendTypes, Result, Found

(* A key that is looked up decides whether the send encrypts or waits.     *)
LEMMA DecideStep ==
    ASSUME SendTypes, KeyTypes, NEW s \in Sends, NEW k \in Found, Decide(s, k)
    PROVE  /\ SendTypes' /\ OthersKept(s) /\ woken' = woken
           /\ stage'[s] \in {"sent", "failed", "look"}
<1>1. CASE k # NoKey /\ ~pending
  BY <1>1 DEF Decide, Encrypt, SendTypes, KeyTypes, OthersKept, Stage
<1>2. CASE ~(k # NoKey /\ ~pending)
  <2>1. /\ stage' = [stage EXCEPT ![s] = "look"] /\ got' = [got EXCEPT ![s] = meta]
        /\ forced' = [forced EXCEPT ![s] = k # NoKey] /\ UNCHANGED <<used, woken, heard>>
    BY <1>2 DEF Decide, Lookup
  <2>2. forced' \in [Sends -> BOOLEAN]
    BY <2>1 DEF SendTypes
  <2>3. stage' \in [Sends -> Stage] /\ got' \in [Sends -> Keys \cup {NoKey}]
    BY <2>1 DEF SendTypes, KeyTypes, Stage
  <2>4. SendTypes'
    BY <2>1, <2>2, <2>3 DEF SendTypes
  <2>5. QED
    BY <2>1, <2>4 DEF OthersKept, SendTypes
<1>3. QED
  BY <1>1, <1>2

(* Before it waits, and when its timer fires, a send is not woken.         *)
LEMMA BeforeWait ==
    ASSUME IInv, NEW s \in Sends, UNCHANGED <<theirs, dbVars, keyVars, bounds>>,
           \/ Start(s) \/ FirstEnds(s) \/ DialEnds(s) \/ EnsureLooks(s)
           \/ EnsureReturns(s) \/ SecondEnds(s) \/ TimesOut(s)
    PROVE  IInv'
<1> USE DEF IInv, Types
<1>1. s \notin woken
  <2>1. stage[s] \in {"idle", "first", "dial", "ensure", "again", "second", "ensured", "wait"}
    BY DEF Start, FirstEnds, DialEnds, EnsureLooks, EnsureReturns, SecondEnds, TimesOut, Moves
  <2>2. QED
    BY <2>1 DEF WakeInv, WaitHeard, WokenHeard, Ended
<1>2. SendTypes' /\ OthersKept(s) /\ UNCHANGED woken /\ stage'[s] # "wait"
  <2>1. CASE FirstEnds(s)
    <3>1. CASE Result(s) = NoKey
      BY <2>1, <3>1 DEF FirstEnds, SendTypes, OthersKept, Stage
    <3>2. CASE Result(s) # NoKey
      <4>1. Decide(s, Result(s))
        BY <2>1, <3>2 DEF FirstEnds
      <4>2. Result(s) \in Found
        BY ResultFound
      <4>3. QED
        BY <4>1, <4>2, DecideStep
    <3>3. QED
      BY <3>1, <3>2
  <2>2. CASE SecondEnds(s)
    BY <2>2, ResultFound, DecideStep DEF SecondEnds
  <2>3. CASE Start(s) \/ DialEnds(s) \/ EnsureReturns(s)
    BY <2>3 DEF Start, DialEnds, EnsureReturns, Moves, Lookup, SendTypes, KeyTypes,
                OthersKept, Stage
  <2>4. CASE EnsureLooks(s) \/ TimesOut(s)
    BY <2>4 DEF EnsureLooks, TimesOut, Moves, SendTypes, OthersKept, Stage
  <2>5. QED
    BY <2>1, <2>2, <2>3, <2>4
<1>3. QED
  BY <1>1, <1>2, OneSend

(* A waiter has been there for the keys that are being saved when it is    *)
(* registered.                                                             *)
LEMMA LooksIInv ==
    ASSUME IInv, NEW s \in Sends, UNCHANGED <<theirs, dbVars, keyVars, bounds>>, Looks(s)
    PROVE  IInv'
<1> USE DEF IInv, Types
<1>1. s \notin woken
  BY DEF Looks, WakeInv, WokenHeard, Ended
<1>2. /\ saving \in Seq(Keys)
      /\ Range(saving) \in SUBSET Keys
      /\ \A i \in 1..Len(saving) : saving[i] \in Range(saving)
  BY DEF HandshakeTypes, Range
<1>3. UNCHANGED <<got, forced, used, woken>>
  BY DEF Looks
<1>4. CASE ShouldWait(s)
  <2>1. /\ stage' = [stage EXCEPT ![s] = "wait"]
        /\ heard' = [heard EXCEPT ![s] = Range(saving)]
    BY <1>4 DEF Looks
  <2>2. SendTypes'
    BY <1>2, <1>3, <2>1 DEF SendTypes, Stage
  <2>3. OthersKept(s) /\ heard'[s] = Range(saving)
    BY <1>3, <2>1 DEF SendTypes, OthersKept
  <2>4. QED
    BY <1>1, <1>2, <1>3, <2>2, <2>3, OneSend
<1>5. CASE ~ShouldWait(s)
  <2>1. stage' = [stage EXCEPT ![s] = "ready"] /\ UNCHANGED heard
    BY <1>5 DEF Looks
  <2>2. SendTypes' /\ OthersKept(s) /\ stage'[s] = "ready"
    BY <1>3, <2>1 DEF SendTypes, OthersKept, Stage
  <2>3. QED
    BY <1>1, <1>3, <2>2, OneSend
<1>6. QED
  BY <1>4, <1>5

LEMMA ReadyIInv ==
    ASSUME IInv, NEW s \in Sends, UNCHANGED <<theirs, dbVars, keyVars, bounds>>, Ready(s)
    PROVE  IInv'
<1> USE DEF IInv, Types
<1>1. /\ stage[s] = "ready" /\ stage' = [stage EXCEPT ![s] = "last"]
      /\ got' = [got EXCEPT ![s] = meta] /\ UNCHANGED <<forced, used, woken, heard>>
  BY DEF Ready, Moves, Lookup
<1>2. SendTypes' /\ OthersKept(s) /\ stage'[s] = "last" /\ got'[s] = meta
  BY <1>1 DEF SendTypes, KeyTypes, OthersKept, Stage
<1>3. s \in woken => got'[s] \in heard'[s]
  BY <1>1, <1>2 DEF WakeInv, WokenHeard
<1>4. QED
  BY <1>1, <1>2, <1>3, OneSend

(* The last lookup of a woken send has found a key, and it is used.        *)
LEMMA LastEndsIInv ==
    ASSUME IInv, NEW s \in Sends, UNCHANGED <<theirs, dbVars, keyVars, bounds>>, LastEnds(s)
    PROVE  IInv'
<1> USE DEF IInv, Types
<1>1. stage[s] = "last" /\ used' = [used EXCEPT ![s] = Result(s)]
      /\ stage' = [stage EXCEPT ![s] = IF Result(s) = NoKey THEN "failed" ELSE "sent"]
      /\ UNCHANGED <<got, forced, woken, heard>>
  BY DEF LastEnds, Encrypt
<1>2. SendTypes' /\ OthersKept(s) /\ stage'[s] \in {"failed", "sent"} /\ used'[s] = Result(s)
  BY <1>1, ResultFound DEF SendTypes, OthersKept, Stage
<1>3. s \in woken => used'[s] \in heard'[s]
  <2>1. s \in woken => got[s] \in heard[s]
    BY <1>1 DEF WakeInv, WokenHeard
  <2>2. heard[s] \subseteq Keys
    BY DEF SendTypes
  <2>3. QED
    BY <1>1, <1>2, <2>1, <2>2, ResultFound, KeysAssumption
<1>4. QED
  BY <1>1, <1>2, <1>3, OneSend DEF Ended

-----------------------------------------------------------------------------
(* The theorems *)

LEMMA NextIInv == IInv /\ [Next]_vars => IInv'
<1> SUFFICES ASSUME IInv, [Next]_vars PROVE IInv'
  OBVIOUS
<1>1. CASE Connect \/ AttemptFails \/ AttemptEnds
  BY <1>1, HandshakeIInv
<1>2. CASE \E k \in Keys : HelloArrives(k)
  BY <1>2, HelloArrivesIInv
<1>3. CASE HelloContinues
  BY <1>3, HelloContinuesIInv
<1>4. CASE \E s \in Sends : Start(s) \/ Resumes(s)
  <2>1. PICK s \in Sends : Start(s) \/ Resumes(s)
    BY <1>4
  <2>2. UNCHANGED <<theirs, dbVars, keyVars, bounds>>
    BY <2>1 DEF Start, Resumes
  <2>3. QED
    BY <2>1, <2>2, BeforeWait, LooksIInv, ReadyIInv, LastEndsIInv DEF Resumes
<1>5. CASE PeerRekeys \/ MetaAges \/ SessionsExpire
  BY <1>5, TimeIInv
<1>6. CASE Cleanup
  BY <1>6, CleanupIInv
<1>7. CASE Crash
  BY <1>7, CrashIInv
<1>8. CASE UNCHANGED vars
  BY <1>8, SendsUndisturbed DEF vars, dbVars, keyVars, bounds, IInv, Types, Flags, KeyTypes,
     HandshakeTypes, HellosCounted, RefreshIsUnderWay
<1>9. QED
  BY <1>1, <1>2, <1>3, <1>4, <1>5, <1>6, <1>7, <1>8 DEF Next

(* The inductive invariant holds in every behaviour. *)
THEOREM Inductive == Spec => []IInv
BY InitIInv, NextIInv, PTL DEF Spec

(* Every variable keeps its type, and a session in memory has its row in   *)
(* the table, unexpired.                                                   *)
THEOREM TypeCorrect == Spec => []KeysTypeOK
<1>1. IInv => KeysTypeOK
  BY DEF IInv, Types, Flags, KeyTypes, HandshakeTypes, SendTypes, KeysTypeOK
<1>2. QED
  BY Inductive, <1>1, PTL

(* A pending refresh has a handshake in progress that will end it, and no  *)
(* key has come since it was asked for.                                    *)
THEOREM RefreshHasHandshake == Spec => []RefreshIsUnderWay
<1>1. IInv => RefreshIsUnderWay
  BY DEF IInv
<1>2. QED
  BY Inductive, <1>1, PTL

(* However many sends, hellos and cleanups interleave, a send woken by a   *)
(* handshake encrypts with a key that came while it waited or after.       *)
THEOREM WokenSendsRight == Spec => []WokenUsesNewKey
<1>1. IInv => WokenUsesNewKey
  BY DEF IInv, WakeInv
<1>2. QED
  BY Inductive, <1>1, PTL
=============================================================================
