------------------------------- MODULE Sessions -------------------------------
(***************************************************************************)
(* SessionManager (crypto/session-manager.ts) over the table sessions      *)
(* (database/index.ts).  Its methods run to their write without an await,  *)
(* so each is one step, except cleanupExpired, which awaits between the    *)
(* sessions it removes.  A write may throw: what memory did before it      *)
(* stays done.                                                             *)
(*                                                                         *)
(* Sessions are numbered as they are created.  Of the time only what has   *)
(* passed its expiresAt is told apart.  The keys a session derives are     *)
(* written with it and left out.                                           *)
(***************************************************************************)
EXTENDS Naturals

CONSTANTS
    Partners,       \* peers
    Cleaners,       \* calls of cleanupExpired in progress at once
    MaxSessions,    \* bound: sessions created
    MaxLostWrites   \* bound: writes that throw

ASSUME SessionsAssumption == MaxSessions \in Nat /\ MaxLostWrites \in Nat

Ids == 1..MaxSessions

VARIABLES
    created,    \* number of sessions so far
    partner,    \* the peer of each of them
    sessions,   \* the map of SessionManager
    rows,       \* the table
    active,     \* rows with is_active = 1
    expired,    \* sessions past their expiresAt
    passed,     \* sessions the loop of a cleanup has come to
    unsaved,    \* ghost: sessions whose last write threw
    lostWrites

sessionVars == <<created, partner, sessions, rows, active, expired, passed,
                 unsaved, lostWrites>>

SessionsTypeOK ==
    /\ created \in 0..MaxSessions
    /\ partner \in [1..created -> Partners]
    /\ sessions \subseteq 1..created
    /\ rows \subseteq 1..created /\ active \subseteq rows
    /\ expired \subseteq 1..created
    /\ passed \in [Cleaners -> SUBSET Ids]
    /\ unsaved \subseteq 1..created
    /\ lostWrites \in 0..MaxLostWrites

SessionsInit ==
    /\ created = 0 /\ partner = <<>>
    /\ sessions = {} /\ rows = {} /\ active = {} /\ expired = {}
    /\ passed = [c \in Cleaners |-> {}]
    /\ unsaved = {} /\ lostWrites = 0

-----------------------------------------------------------------------------
(* saveSession: INSERT OR REPLACE, which a row that was deleted comes back *)
(* with, or an exception.                                                  *)
SaveSession(s, isActive) ==
    \/ /\ rows' = rows \cup {s}
       /\ active' = IF isActive THEN active \cup {s} ELSE active \ {s}
       /\ unsaved' = unsaved \ {s}
       /\ UNCHANGED lostWrites
    \/ /\ lostWrites < MaxLostWrites
       /\ lostWrites' = lostWrites + 1
       /\ unsaved' = unsaved \cup {s}
       /\ UNCHANGED <<rows, active>>

CreateSessionWith(p) ==
    /\ created < MaxSessions
    /\ created' = created + 1
    /\ partner' = [s \in 1..created + 1 |-> IF s = created + 1 THEN p
                                            ELSE partner[s]]
    /\ sessions' = sessions \cup {created + 1}
    /\ SaveSession(created + 1, TRUE)
    /\ UNCHANGED <<expired, passed>>

(* getActiveSessionsForPeer                                                *)
ActiveSessions(p) == {s \in sessions \ expired : partner[s] = p}

GetOrCreateSessionWith(p) == ActiveSessions(p) = {} /\ CreateSessionWith(p)

(* updateSessionUsage, and deriveAndStoreSessionKeys of a session that has *)
(* not expired: both write the session as it is in memory.                 *)
UpdateSession(s) ==
    /\ s \in sessions
    /\ SaveSession(s, TRUE)
    /\ UNCHANGED <<created, partner, sessions, expired, passed>>

(* Mutant: a session that is invalidated is saved as active. *)
DropKeepsActive(s) == sessions' = sessions \ {s} /\ SaveSession(s, TRUE)

(* What invalidateSession does to memory and table.                        *)
Drop(s) == sessions' = sessions \ {s} /\ SaveSession(s, FALSE)

InvalidateSession(s) ==
    /\ s \in sessions
    /\ Drop(s)
    /\ UNCHANGED <<created, partner, expired, passed>>

(* getSession invalidates a session it finds expired.                      *)
GetSession(s) == s \in expired /\ InvalidateSession(s)

Expires(s) ==
    /\ s \in 1..created
    /\ expired' = expired \cup {s}
    /\ UNCHANGED <<created, partner, sessions, rows, active, passed,
                   unsaved, lostWrites>>

(* cleanupExpired: the loop goes on over sessions that have not expired to *)
(* one that has and invalidates it, in the order of the map, which is that *)
(* of the table after a start and so any; it ends if the write throws ...  *)
CleanupGoes(c, s) ==
    /\ s \in (sessions \cap expired) \ passed[c]
    /\ Drop(s)
    /\ \E skipped \in SUBSET (sessions \ expired) :
        passed' = [passed EXCEPT ![c] =
            IF lostWrites' = lostWrites THEN @ \cup skipped \cup {s} ELSE {}]
    /\ UNCHANGED <<created, partner, expired>>

(* deleteExpiredSessions, also of DatabaseManager.cleanup.                 *)
DeleteExpired == rows' = rows \ expired /\ active' = active \ expired

(* ... and when there is none left, the rows are deleted.                  *)
CleanupEnds(c) ==
    /\ sessions \cap expired \subseteq passed[c]
    /\ passed' = [passed EXCEPT ![c] = {}]
    /\ DeleteExpired
    /\ UNCHANGED <<created, partner, sessions, expired, unsaved, lostWrites>>

(* The rows a start loads.                                                 *)
Loaded == active \ expired

(* The process ends, and init() of the next reads the table.               *)
Reload ==
    /\ sessions' = Loaded
    /\ passed' = [c \in Cleaners |-> {}]
    /\ unsaved' = {}
    /\ UNCHANGED <<created, partner, rows, active, expired, lostWrites>>

SessionsNext ==
    \/ \E p \in Partners : CreateSessionWith(p) \/ GetOrCreateSessionWith(p)
    \/ \E s \in Ids :
        \/ UpdateSession(s) \/ InvalidateSession(s) \/ GetSession(s)
        \/ Expires(s)
        \/ \E c \in Cleaners : CleanupGoes(c, s)
    \/ \E c \in Cleaners : CleanupEnds(c)
    \/ Reload

SessionsSpec == SessionsInit /\ [][SessionsNext]_sessionVars

-----------------------------------------------------------------------------
(* A start would load the sessions that are in memory and have not         *)
(* expired, and no other: none that was invalidated comes back and none    *)
(* that was used is lost, however updates, expiry and cleanups interleave. *)
(* Only a session whose last write threw is an exception                   *)
(* (session-manager.ts:258, where memory forgets it before the write).     *)
LoadsWhatIsLive == Loaded \ unsaved = (sessions \ expired) \ unsaved

=============================================================================
