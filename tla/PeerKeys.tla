------------------------------- MODULE PeerKeys -------------------------------
(***************************************************************************)
(* The public key of one peer, as a YapYapNode (core/node.ts) learns it    *)
(* and as MessageRouter.send() waits for it before it encrypts a message   *)
(* (message-router.ts): handshakes in both directions, the pending refresh *)
(* after a connection, the waiters, the public_key row of peer_metadata    *)
(* and the node's own sessions with the peer (crypto/session-manager.ts).  *)
(*                                                                         *)
(* The key of a hello is stored by processHandshake.  The handshake this   *)
(* node starts brings it none: the reply is framed and carries no key, so  *)
(* every attempt that gets a reply throws.  A node learns the peer's key   *)
(* from the hello of the peer's own handshake, with which the peer answers *)
(* the same connection.                                                    *)
(*                                                                         *)
(* An await for something that is there already lets only what is ready    *)
(* run before it ends: no timer fires and no lifetime passes meanwhile.    *)
(* Lookups by peer id in node_keys find nothing (its rows are named by key)*)
(* and are left out; so are invalid peer ids.                              *)
(***************************************************************************)
EXTENDS Naturals, Sequences, Functions

CONSTANTS
    Sends,              \* calls of send() with a message to encrypt
    NoKey,              \* no key known
    Own,                \* the public key of this node's own session
    MaxAttempts,        \* HANDSHAKE_MAX_ATTEMPTS
    MaxKeys,            \* bound: keys of the peer, one per reinstallation
    MaxHellos,          \* bound: hellos of the peer
    MaxConnects,        \* bound: connections
    MaxCrashes          \* bound: restarts of this node

Keys == 1..MaxKeys

ASSUME KeysAssumption == NoKey \notin Keys /\ Own \notin Keys /\ NoKey # Own

ASSUME LimitsAssumption ==
    /\ MaxAttempts \in Nat \ {0} /\ MaxKeys \in Nat \ {0}
    /\ MaxHellos \in Nat /\ MaxConnects \in Nat /\ MaxCrashes \in Nat

VARIABLES
    \* the peer
    theirs,     \* its newest key
    \* SQLite
    meta,       \* public_key in peer_metadata, or NoKey
    metaOld,    \* the lifetime of that row has passed
    row,        \* whether sessions has an active row of the peer
    rowOld,     \* every such row has expired
    \* memory
    session,    \* SessionManager has a session of the peer that is not expired
    version,    \* peerKeyVersions
    pending,    \* peerKeyRefreshPending
    pendingVersion,
    attempt,    \* of performHandshake, 0: none in progress
    saving,     \* keys of the processHandshake calls that await the database
    stage,      \* where each send() stands
    got,        \* what its lookup has read of peer_metadata
    forced,     \* whether it waits for a refresh
    \* history, for the properties and the bounds
    used,       \* key each message was encrypted with
    woken,      \* sends whose wait a handshake ended
    heard,      \* keys that came while a send waited, and since then
    hellos, connects, crashes

dbVars   == <<meta, metaOld, row, rowOld>>
keyVars  == <<session, version, pending, pendingVersion, attempt, saving>>
sendVars == <<stage, got, forced, used, woken, heard>>
bounds   == <<hellos, connects, crashes>>
vars     == <<theirs, dbVars, keyVars, sendVars, bounds>>

Found == Keys \cup {Own, NoKey}

Stage == {"idle",
          "first",      \* awaiting fetchRecipientPublicKey
          "dial",       \* ensureRecipientPublicKey: awaiting the dial
          "ensure",     \* ... and the lookup of waitForPeerPublicKey
          "ensured",    \* ... and its waiter
          "again",      \* ensureRecipientPublicKey has returned
          "second",     \* awaiting the lookup after it
          "look",       \* awaiting the lookup of waitForPeerPublicKey
          "wait",       \* awaiting its waiter
          "ready",      \* waitForPeerPublicKey has returned
          "last",       \* awaiting the last lookup
          "sent", "failed", "gone"}

Ended == {"sent", "failed", "gone"}

(* A send that waits for something other than what is ready. *)
Waiting == {"ensured", "wait"}
Slow    == {"idle", "dial"} \cup Waiting \cup Ended

Quiet == saving = <<>> /\ \A s \in Sends : stage[s] \in Slow

KeysTypeOK ==
    /\ theirs \in Keys
    /\ meta \in Keys \cup {NoKey} /\ metaOld \in BOOLEAN
    /\ row \in BOOLEAN /\ rowOld \in BOOLEAN
    /\ session \in BOOLEAN
    /\ version \in 0..MaxHellos /\ pendingVersion \in 0..MaxHellos
    /\ pending \in BOOLEAN
    /\ attempt \in 0..MaxAttempts
    /\ saving \in Seq(Keys)
    /\ stage \in [Sends -> Stage]
    /\ got \in [Sends -> Keys \cup {NoKey}]
    /\ forced \in [Sends -> BOOLEAN]
    /\ used \in [Sends -> Found]
    /\ woken \in SUBSET Sends
    /\ heard \in [Sends -> SUBSET Keys]
    /\ hellos \in 0..MaxHellos /\ connects \in 0..MaxConnects
    /\ crashes \in 0..MaxCrashes
    \* a session in memory has its row
    /\ session => row /\ ~rowOld

Init ==
    /\ theirs = 1
    /\ meta = NoKey /\ metaOld = FALSE /\ row = FALSE /\ rowOld = FALSE
    /\ session = FALSE /\ version = 0 /\ pending = FALSE /\ pendingVersion = 0
    /\ attempt = 0 /\ saving = <<>>
    /\ stage = [s \in Sends |-> "idle"] /\ got = [s \in Sends |-> NoKey]
    /\ forced = [s \in Sends |-> FALSE] /\ used = [s \in Sends |-> NoKey]
    /\ woken = {} /\ heard = [s \in Sends |-> {}]
    /\ hellos = 0 /\ connects = 0 /\ crashes = 0

-----------------------------------------------------------------------------
(* Connections and handshakes *)

(* Mutant: a session is not written to the table. *)
CreateSessionUnsaved == session' = TRUE /\ UNCHANGED <<row, rowOld>>

(* createSession: in memory and in the table. *)
CreateSession == session' = TRUE /\ row' = TRUE /\ rowOld' = FALSE

GetOrCreateSession ==
    IF session THEN UNCHANGED <<session, row, rowOld>> ELSE CreateSession

(* "peer:connect": a refresh is pending from now on, and a handshake is    *)
(* started unless one is in progress.                                      *)
Connect ==
    /\ connects < MaxConnects /\ connects' = connects + 1
    /\ GetOrCreateSession
    /\ pending' = TRUE /\ pendingVersion' = version
    /\ attempt' = IF attempt = 0 THEN 1 ELSE attempt
    /\ UNCHANGED <<theirs, meta, metaOld, version, saving, sendVars, hellos, crashes>>

ClearPeerKeyRefresh == pending' = FALSE /\ pendingVersion' = 0

(* Mutant: a handshake that is given up leaves the refresh pending. *)
HandshakeGivenUpPending ==
    attempt' = 0 /\ UNCHANGED <<pending, pendingVersion>>

(* performHandshake ends, whichever way. *)
HandshakeGivenUp == attempt' = 0 /\ ClearPeerKeyRefresh

(* An attempt throws: no stream, or a reply. *)
AttemptFails ==
    /\ attempt > 0
    /\ IF attempt < MaxAttempts
       THEN attempt' = attempt + 1 /\ UNCHANGED <<pending, pendingVersion>>
       ELSE HandshakeGivenUp
    /\ UNCHANGED <<theirs, dbVars, session, version, saving, sendVars, bounds>>

(* The stream ends without a reply. *)
AttemptEnds ==
    /\ attempt > 0
    /\ HandshakeGivenUp
    /\ UNCHANGED <<theirs, dbVars, session, version, saving, sendVars, bounds>>

(* Mutant: the key is stored only if there is none. *)
SaveKeyOnce(k) ==
    IF meta = NoKey THEN meta' = k /\ metaOld' = FALSE ELSE UNCHANGED <<meta, metaOld>>

SaveKey(k) == meta' = k /\ metaOld' = FALSE

(* A hello of the peer comes in, perhaps late: processHandshake stores its *)
(* key and awaits the database.                                            *)
HelloArrives(k) ==
    /\ k <= theirs
    /\ hellos < MaxHellos /\ hellos' = hellos + 1
    /\ SaveKey(k)
    /\ saving' = Append(saving, k)
    /\ heard' = [s \in Sends |-> IF stage[s] \in {"wait", "ready"}
                                 THEN heard[s] \cup {k} ELSE heard[s]]
    /\ UNCHANGED <<theirs, row, rowOld, session, version, pending, pendingVersion,
                   attempt, stage, got, forced, used, woken, connects, crashes>>

(* signalPeerKeyAvailable: every waiter is resolved. *)
SignalPeerKeyAvailable ==
    /\ woken' = woken \cup {s \in Sends : stage[s] = "wait"}
    /\ stage' = [s \in Sends |-> CASE stage[s] = "ensured" -> "again"
                                   [] stage[s] = "wait" -> "ready"
                                   [] OTHER -> stage[s]]

(* processHandshake goes on: the waiters are woken, nothing is pending any *)
(* more, and a session is created.                                         *)
HelloContinues ==
    /\ saving # <<>>
    /\ saving' = Tail(saving)
    /\ version' = version + 1
    /\ SignalPeerKeyAvailable
    /\ ClearPeerKeyRefresh
    /\ CreateSession
    /\ UNCHANGED <<theirs, meta, metaOld, attempt, got, forced, used, heard, bounds>>

-----------------------------------------------------------------------------
(* send(), up to the encryption of the message *)

Moves(s, from, to) == stage[s] = from /\ stage' = [stage EXCEPT ![s] = to]

(* fetchRecipientPublicKey is called: it reads peer_metadata ... *)
Lookup(s) == got' = [got EXCEPT ![s] = meta]

(* ... and when it goes on without a key there, the sessions. *)
Result(s) == IF got[s] # NoKey THEN got[s] ELSE IF row THEN Own ELSE NoKey

Start(s) ==
    /\ Moves(s, "idle", "first") /\ Lookup(s)
    /\ UNCHANGED <<theirs, dbVars, keyVars, forced, used, woken, heard, bounds>>

Encrypt(s, k) ==
    /\ stage' = [stage EXCEPT ![s] = IF k = NoKey THEN "failed" ELSE "sent"]
    /\ used' = [used EXCEPT ![s] = k]
    /\ UNCHANGED <<got, forced, woken, heard>>

(* With key k looked up: it is used at once, unless there is none or a     *)
(* refresh is pending.                                                     *)
Decide(s, k) ==
    IF k # NoKey /\ ~pending THEN Encrypt(s, k)
    ELSE /\ stage' = [stage EXCEPT ![s] = "look"] /\ Lookup(s)
         /\ forced' = [forced EXCEPT ![s] = k # NoKey]
         /\ UNCHANGED <<used, woken, heard>>

FirstEnds(s) ==
    /\ stage[s] = "first"
    /\ IF Result(s) = NoKey
       THEN /\ stage' = [stage EXCEPT ![s] = "dial"]
            /\ UNCHANGED <<got, forced, used, woken, heard>>
       ELSE Decide(s, Result(s))

(* The dials of ensureRecipientPublicKey end, connected or not. *)
DialEnds(s) ==
    /\ Moves(s, "dial", "ensure") /\ Lookup(s)
    /\ UNCHANGED <<forced, used, woken, heard>>

EnsureLooks(s) ==
    /\ Moves(s, "ensure", IF Result(s) = NoKey THEN "ensured" ELSE "again")
    /\ UNCHANGED <<got, forced, used, woken, heard>>

EnsureReturns(s) ==
    /\ Moves(s, "again", "second") /\ Lookup(s)
    /\ UNCHANGED <<forced, used, woken, heard>>

SecondEnds(s) == stage[s] = "second" /\ Decide(s, Result(s))

(* The test of waitForPeerPublicKey; a refresh that has ended meanwhile is *)
(* not waited for.                                                         *)
ShouldWait(s) ==
    LET compared == IF pending THEN pendingVersion ELSE version IN
    /\ Result(s) = NoKey \/ (forced[s] /\ version <= compared)
    /\ forced[s] => pending

(* A waiter is registered, or nothing is to be waited for. *)
Looks(s) ==
    /\ stage[s] = "look"
    /\ IF ShouldWait(s)
       THEN /\ stage' = [stage EXCEPT ![s] = "wait"]
            /\ heard' = [heard EXCEPT ![s] = Range(saving)]
       ELSE stage' = [stage EXCEPT ![s] = "ready"] /\ UNCHANGED heard
    /\ UNCHANGED <<got, forced, used, woken>>

Ready(s) ==
    /\ Moves(s, "ready", "last") /\ Lookup(s)
    /\ UNCHANGED <<forced, used, woken, heard>>

LastEnds(s) == stage[s] = "last" /\ Encrypt(s, Result(s))

(* Mutant: only a waiter that no refresh is pending for has a timer.       *)
TimesOutUnforced(s) ==
    /\ Quiet
    /\ \/ Moves(s, "ensured", "again")
       \/ ~forced[s] /\ Moves(s, "wait", "failed")
    /\ UNCHANGED <<got, forced, used, woken, heard>>

(* Five seconds pass: the waiter is removed and its promise rejected.      *)
TimesOut(s) ==
    /\ Quiet
    /\ Moves(s, "ensured", "again") \/ Moves(s, "wait", "failed")
    /\ UNCHANGED <<got, forced, used, woken, heard>>

Resumes(s) ==
    /\ \/ FirstEnds(s) \/ DialEnds(s) \/ EnsureLooks(s) \/ EnsureReturns(s)
       \/ SecondEnds(s) \/ Looks(s) \/ Ready(s) \/ LastEnds(s) \/ TimesOut(s)
    /\ UNCHANGED <<theirs, dbVars, keyVars, bounds>>

-----------------------------------------------------------------------------
(* Time and failure *)

(* The peer is installed anew and has another key. *)
PeerRekeys ==
    /\ theirs < MaxKeys /\ theirs' = theirs + 1
    /\ UNCHANGED <<dbVars, keyVars, sendVars, bounds>>

(* The lifetime of the key's row passes, which is 86.4 seconds: 86400 is   *)
(* stored and compared with milliseconds.                                  *)
MetaAges ==
    /\ Quiet /\ meta # NoKey /\ ~metaOld
    /\ metaOld' = TRUE
    /\ UNCHANGED <<theirs, meta, row, rowOld, keyVars, sendVars, bounds>>

(* An hour passes since the last session was created. *)
SessionsExpire ==
    /\ Quiet /\ row /\ ~rowOld
    /\ rowOld' = TRUE /\ session' = FALSE
    /\ UNCHANGED <<theirs, meta, metaOld, row, version, pending, pendingVersion,
                   attempt, saving, sendVars, bounds>>

(* cleanup(), at the end of a retry pass: deleteExpiredSessions and        *)
(* deleteExpiredPeerMetadata.                                              *)
Cleanup ==
    /\ metaOld \/ rowOld
    /\ meta' = IF metaOld THEN NoKey ELSE meta
    /\ row' = (row /\ ~rowOld)
    /\ metaOld' = FALSE /\ rowOld' = FALSE
    /\ UNCHANGED <<theirs, keyVars, sendVars, bounds>>

(* The process dies and is started again.  SessionManager.init(), which    *)
(* would read the sessions, is never called.                               *)
Crash ==
    /\ crashes < MaxCrashes /\ crashes' = crashes + 1
    /\ session' = FALSE /\ version' = 0 /\ ClearPeerKeyRefresh
    /\ attempt' = 0 /\ saving' = <<>>
    /\ stage' = [s \in Sends |-> IF stage[s] \in {"idle"} \cup Ended THEN stage[s]
                                 ELSE "gone"]
    /\ UNCHANGED <<theirs, dbVars, got, forced, used, woken, heard, hellos, connects>>

-----------------------------------------------------------------------------
Next ==
    \/ Connect \/ AttemptFails \/ AttemptEnds
    \/ \E k \in Keys : HelloArrives(k)
    \/ HelloContinues
    \/ \E s \in Sends : Start(s) \/ Resumes(s)
    \/ PeerRekeys \/ MetaAges \/ SessionsExpire \/ Cleanup \/ Crash

Spec == Init /\ [][Next]_vars

(* What is ready goes on, dials have timeouts and waiters have timers.  A  *)
(* handshake has no timeout, and nothing is assumed of it or of the peer.  *)
Fairness == WF_vars(HelloContinues) /\ \A s \in Sends : WF_vars(Resumes(s))

FairSpec == Spec /\ Fairness

-----------------------------------------------------------------------------
(* Properties *)

(* A refresh is pending only while a handshake with the peer is in         *)
(* progress, which will end it, and no key has come since the connection   *)
(* that asked for it; otherwise every send() to the peer would wait five   *)
(* seconds and fail, key or no key (markPeerKeyRefreshPending,             *)
(* clearPeerKeyRefresh, performHandshake, processHandshake).               *)
RefreshIsUnderWay == pending => attempt > 0 /\ pendingVersion = version

(* A message whose send() waited until a handshake woke it is encrypted    *)
(* with a key that came while it waited or after: never with the key known *)
(* before, the node's own session key or none, whatever hellos, cleanups   *)
(* and connections come in between (processHandshake, waitForPeerPublicKey,*)
(* fetchRecipientPublicKey).                                               *)
WokenUsesNewKey ==
    \A s \in woken : stage[s] \in {"sent", "failed"} => used[s] \in heard[s]

(* Every send() encrypts its message or is rejected, even if the peer, the *)
(* handshake and the dial never answer.                                    *)
SendEnds == \A s \in Sends : stage[s] # "idle" ~> stage[s] \in Ended

=============================================================================
