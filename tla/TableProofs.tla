----------------------------- MODULE TableProofs -----------------------------
(***************************************************************************)
(* What holds of four components that keep a table beside what they        *)
(* remember, whatever their constants: of SessionManager, for any number   *)
(* of peers, sessions and overlapping cleanups; of the rate limits, for    *)
(* any costs and capacities and intervals of any length; of the cache of   *)
(* peers, for any peers, starts and stops; of the keys of the node, for    *)
(* any number of processes on one database.                                *)
(***************************************************************************)
EXTENDS Sessions, Admission, PeerCache, NodeKeys, Integers, TLAPS

-----------------------------------------------------------------------------
(* Sessions: a start loads what is live.                                   *)

(* A write keeps the rows among the sessions there are.                    *)
LEMMA SaveTypes ==
    ASSUME NEW n \in Nat, NEW s \in 1..n, NEW isActive \in BOOLEAN,
           lostWrites \in 0..MaxLostWrites,
           rows \subseteq 1..n, active \subseteq rows, unsaved \subseteq 1..n,
           SaveSession(s, isActive)
    PROVE  /\ rows' \subseteq 1..n /\ active' \subseteq rows'
           /\ unsaved' \subseteq 1..n
           /\ lostWrites' \in 0..MaxLostWrites
<1>1. CASE /\ rows' = rows \cup {s} /\ unsaved' = unsaved \ {s}
           /\ active' = (IF isActive THEN active \cup {s} ELSE active \ {s})
           /\ UNCHANGED lostWrites
  <2>1. active' \subseteq active \cup {s}
    BY <1>1
  <2>2. QED
    BY <1>1, <2>1
<1>2. CASE /\ lostWrites < MaxLostWrites /\ lostWrites' = lostWrites + 1
           /\ unsaved' = unsaved \cup {s} /\ UNCHANGED <<rows, active>>
  BY <1>2, SessionsAssumption
<1>3. QED
  BY <1>1, <1>2 DEF SaveSession

(* Nothing has happened yet.                                               *)
LEMMA InitSessionsTypes ==
    ASSUME SessionsInit
    PROVE  SessionsTypeOK
BY SessionsAssumption DEF SessionsInit, SessionsTypeOK, Ids

(* A new session has the next number.                                      *)
LEMMA CreateTypes ==
    ASSUME SessionsTypeOK,
           NEW p \in Partners, CreateSessionWith(p)
    PROVE  SessionsTypeOK'
<1> DEFINE n == created + 1
<1>1. /\ created \in Nat /\ n \in 0..MaxSessions /\ created' = n /\ n \in 1..n
      /\ 1..created \subseteq 1..n
  BY SessionsAssumption DEF CreateSessionWith, SessionsTypeOK
<1>2. partner' \in [1..n -> Partners]
  <2>1. ASSUME NEW s \in 1..n
        PROVE  (IF s = n THEN p ELSE partner[s]) \in Partners
    BY <1>1 DEF SessionsTypeOK
  <2>2. QED
    BY <2>1 DEF CreateSessionWith
<1>3. sessions' \subseteq 1..n /\ expired' \subseteq 1..n
  BY <1>1 DEF CreateSessionWith, SessionsTypeOK
<1>4. /\ rows' \subseteq 1..n /\ active' \subseteq rows'
      /\ unsaved' \subseteq 1..n /\ lostWrites' \in 0..MaxLostWrites
  <2>1. rows \subseteq 1..n /\ unsaved \subseteq 1..n /\ n \in Nat
    BY <1>1 DEF SessionsTypeOK
  <2>2. SaveSession(n, TRUE)
    BY DEF CreateSessionWith
  <2> HIDE DEF n
  <2>3. QED
    BY <1>1, <2>1, <2>2, SaveTypes DEF SessionsTypeOK
<1>5. passed' \in [Cleaners -> SUBSET Ids]
  BY DEF CreateSessionWith, SessionsTypeOK
<1>6. QED
  BY <1>1, <1>2, <1>3, <1>4, <1>5 DEF SessionsTypeOK

(* What a write of a session there is leaves as it was.                    *)
LEMMA WriteTypes ==
    ASSUME SessionsTypeOK,
           NEW s \in 1..created, NEW isActive \in BOOLEAN,
           SaveSession(s, isActive), sessions' \subseteq sessions,
           passed' \in [Cleaners -> SUBSET Ids],
           UNCHANGED <<created, partner, expired>>
    PROVE  SessionsTypeOK'
<1>1. created \in Nat
  BY DEF SessionsTypeOK
<1>2. /\ rows' \subseteq 1..created /\ active' \subseteq rows'
      /\ unsaved' \subseteq 1..created /\ lostWrites' \in 0..MaxLostWrites
  BY <1>1, SaveTypes DEF SessionsTypeOK
<1>3. QED
  BY <1>2 DEF SessionsTypeOK

LEMMA SessionsStepTypes ==
    ASSUME SessionsTypeOK,
           [SessionsNext]_sessionVars
    PROVE  SessionsTypeOK'
<1>1. ASSUME NEW p \in Partners, CreateSessionWith(p) \/ GetOrCreateSessionWith(p)
      PROVE  SessionsTypeOK'
  BY <1>1, CreateTypes DEF GetOrCreateSessionWith
<1>2. ASSUME NEW s \in Ids, UpdateSession(s) PROVE SessionsTypeOK'
  <2>1. s \in 1..created /\ SaveSession(s, TRUE)
    BY <1>2 DEF UpdateSession, SessionsTypeOK
  <2>2. QED
    BY <1>2, <2>1, WriteTypes DEF UpdateSession, SessionsTypeOK
<1>3. ASSUME NEW s \in Ids, InvalidateSession(s) PROVE SessionsTypeOK'
  <2>1. s \in 1..created /\ SaveSession(s, FALSE) /\ sessions' \subseteq sessions
    BY <1>3 DEF InvalidateSession, Drop, SessionsTypeOK
  <2>2. QED
    BY <1>3, <2>1, WriteTypes DEF InvalidateSession, SessionsTypeOK
<1>4. ASSUME NEW s \in Ids, GetSession(s) PROVE SessionsTypeOK'
  BY <1>3, <1>4 DEF GetSession
<1>5. ASSUME NEW s \in Ids, Expires(s) PROVE SessionsTypeOK'
  BY <1>5 DEF Expires, SessionsTypeOK
<1>6. ASSUME NEW s \in Ids, NEW c \in Cleaners, CleanupGoes(c, s)
      PROVE  SessionsTypeOK'
  <2>1. s \in 1..created /\ SaveSession(s, FALSE) /\ sessions' \subseteq sessions
    BY <1>6 DEF CleanupGoes, Drop, SessionsTypeOK
  <2>2. passed' \in [Cleaners -> SUBSET Ids]
    <3>1. PICK skipped \in SUBSET (sessions \ expired) :
            passed' = [passed EXCEPT ![c] =
                IF lostWrites' = lostWrites THEN @ \cup skipped \cup {s} ELSE {}]
      BY <1>6 DEF CleanupGoes
    <3>2. sessions \subseteq Ids
      BY SessionsAssumption DEF SessionsTypeOK, Ids
    <3>3. QED
      BY <3>1, <3>2 DEF SessionsTypeOK
  <2>3. QED
    BY <1>6, <2>1, <2>2, WriteTypes DEF CleanupGoes
<1>7. ASSUME NEW c \in Cleaners, CleanupEnds(c) PROVE SessionsTypeOK'
  BY <1>7 DEF CleanupEnds, DeleteExpired, SessionsTypeOK
<1>8. CASE Reload
  BY <1>8 DEF Reload, Loaded, SessionsTypeOK
<1>9. CASE UNCHANGED sessionVars
  BY <1>9 DEF sessionVars, SessionsTypeOK
<1>10. QED
  BY <1>1, <1>2, <1>3, <1>4, <1>5, <1>6, <1>7, <1>8, <1>9 DEF SessionsNext

(* The variables keep their types: memory, rows and marks are of sessions  *)
(* that were created, each with its peer, and an active session has a row  *)
(* (SessionManager).                                                       *)
THEOREM SessionsTypesCorrect == SessionsSpec => []SessionsTypeOK
<1>1. SessionsInit => SessionsTypeOK
  BY InitSessionsTypes
<1>2. SessionsTypeOK /\ [SessionsNext]_sessionVars => SessionsTypeOK'
  BY SessionsStepTypes
<1>3. QED
  BY <1>1, <1>2, PTL DEF SessionsSpec

-----------------------------------------------------------------------------
(* What a start loads *)

(* A write that goes through brings a row in step with what memory now     *)
(* holds; one that throws makes the session an exception.                  *)
LEMMA WriteKeepsLive ==
    ASSUME LoadsWhatIsLive, NEW s, NEW isActive \in BOOLEAN,
           SaveSession(s, isActive), UNCHANGED expired,
           sessions' = IF isActive THEN sessions \cup {s} ELSE sessions \ {s}
    PROVE  LoadsWhatIsLive'
<1>1. CASE active' = (IF isActive THEN active \cup {s} ELSE active \ {s})
           /\ unsaved' = unsaved \ {s}
  <2>1. CASE isActive
    BY <1>1, <2>1 DEF LoadsWhatIsLive, Loaded
  <2>2. CASE ~isActive
    BY <1>1, <2>2 DEF LoadsWhatIsLive, Loaded
  <2>3. QED
    BY <2>1, <2>2
<1>2. CASE unsaved' = unsaved \cup {s} /\ active' = active
  BY <1>2 DEF LoadsWhatIsLive, Loaded
<1>3. QED
  BY <1>1, <1>2 DEF SaveSession

LEMMA SessionsStepKeeps == LoadsWhatIsLive /\ [SessionsNext]_sessionVars => LoadsWhatIsLive'
<1> SUFFICES ASSUME LoadsWhatIsLive, [SessionsNext]_sessionVars
             PROVE  LoadsWhatIsLive'
  OBVIOUS
<1>1. ASSUME NEW p \in Partners, CreateSessionWith(p) \/ GetOrCreateSessionWith(p)
      PROVE  LoadsWhatIsLive'
  <2>1. SaveSession(created + 1, TRUE) /\ UNCHANGED expired
        /\ sessions' = sessions \cup {created + 1}
    BY <1>1 DEF GetOrCreateSessionWith, CreateSessionWith
  <2>2. QED
    BY <2>1, WriteKeepsLive
<1>2. ASSUME NEW s \in Ids, UpdateSession(s) PROVE LoadsWhatIsLive'
  <2>1. SaveSession(s, TRUE) /\ UNCHANGED expired /\ sessions' = sessions \cup {s}
    BY <1>2 DEF UpdateSession
  <2>2. QED
    BY <2>1, WriteKeepsLive
<1>3. ASSUME NEW s \in Ids, Drop(s), UNCHANGED expired PROVE LoadsWhatIsLive'
  BY <1>3, WriteKeepsLive DEF Drop
<1>4. ASSUME NEW s \in Ids, InvalidateSession(s) \/ GetSession(s)
      PROVE  LoadsWhatIsLive'
  BY <1>3, <1>4 DEF InvalidateSession, GetSession
<1>5. ASSUME NEW s \in Ids, Expires(s) PROVE LoadsWhatIsLive'
  BY <1>5 DEF Expires, LoadsWhatIsLive, Loaded
<1>6. ASSUME NEW s \in Ids, NEW c \in Cleaners, CleanupGoes(c, s)
      PROVE  LoadsWhatIsLive'
  BY <1>3, <1>6 DEF CleanupGoes
<1>7. ASSUME NEW c \in Cleaners, CleanupEnds(c) PROVE LoadsWhatIsLive'
  BY <1>7 DEF CleanupEnds, DeleteExpired, LoadsWhatIsLive, Loaded
<1>8. CASE Reload
  BY <1>8 DEF Reload, LoadsWhatIsLive, Loaded
<1>9. CASE UNCHANGED sessionVars
  BY <1>9 DEF sessionVars, LoadsWhatIsLive, Loaded
<1>10. QED
  BY <1>1, <1>2, <1>4, <1>5, <1>6, <1>7, <1>8, <1>9 DEF SessionsNext

(* A start loads the sessions memory holds that have not expired, and no   *)
(* other, but for those whose last write threw: none that was invalidated  *)
(* comes back (SessionManager.init, invalidateSession, cleanupExpired).    *)
THEOREM LoadsCorrect == SessionsSpec => []LoadsWhatIsLive
<1>1. SessionsInit => LoadsWhatIsLive
  BY DEF SessionsInit, LoadsWhatIsLive, Loaded
<1>2. QED
  BY <1>1, SessionsStepKeeps, PTL DEF SessionsSpec

(* If no write ever throws there is no exception: memory and table agree   *)
(* on what is live at every moment.                                        *)
THEOREM LoadsAllWithoutLostWrites ==
    MaxLostWrites = 0 => (SessionsSpec => [](Loaded = sessions \ expired))
<1> SUFFICES ASSUME MaxLostWrites = 0
             PROVE  SessionsSpec => [](Loaded = sessions \ expired)
  OBVIOUS
<1> DEFINE AllSaved == lostWrites = 0 /\ unsaved = {}
<1>1. SessionsInit => AllSaved
  BY DEF SessionsInit
<1>2. ASSUME AllSaved, NEW s, NEW isActive \in BOOLEAN, SaveSession(s, isActive)
      PROVE  AllSaved'
  BY <1>2 DEF SaveSession
<1>3. AllSaved /\ [SessionsNext]_sessionVars => AllSaved'
  <2> SUFFICES ASSUME AllSaved, [SessionsNext]_sessionVars PROVE AllSaved'
    OBVIOUS
  <2>1. ASSUME NEW p \in Partners, CreateSessionWith(p) \/ GetOrCreateSessionWith(p)
        PROVE  AllSaved'
    BY <1>2, <2>1 DEF CreateSessionWith, GetOrCreateSessionWith
  <2>2. ASSUME NEW s \in Ids, UpdateSession(s) PROVE AllSaved'
    BY <1>2, <2>2 DEF UpdateSession
  <2>3. ASSUME NEW s \in Ids, InvalidateSession(s) \/ GetSession(s)
        PROVE  AllSaved'
    BY <1>2, <2>3 DEF InvalidateSession, GetSession, Drop
  <2>4. ASSUME NEW s \in Ids, NEW c \in Cleaners, CleanupGoes(c, s)
        PROVE  AllSaved'
    BY <1>2, <2>4 DEF CleanupGoes, Drop
  <2>5. ASSUME NEW s \in Ids, Expires(s) PROVE AllSaved'
    BY <2>5 DEF Expires
  <2>6. ASSUME NEW c \in Cleaners, CleanupEnds(c) PROVE AllSaved'
    BY <2>6 DEF CleanupEnds
  <2>7. CASE Reload
    BY <2>7 DEF Reload
  <2>8. CASE UNCHANGED sessionVars
    BY <2>8 DEF sessionVars
  <2>9. QED
    BY <2>1, <2>2, <2>3, <2>4, <2>5, <2>6, <2>7, <2>8 DEF SessionsNext
<1>4. AllSaved /\ LoadsWhatIsLive => Loaded = sessions \ expired
  BY DEF LoadsWhatIsLive
<1>5. SessionsSpec => []AllSaved
  <2> HIDE DEF AllSaved
  <2>1. QED
    BY <1>1, <1>3, PTL DEF SessionsSpec
<1>6. QED
  <2> HIDE DEF AllSaved
  <2>1. QED
    BY <1>4, <1>5, LoadsCorrect, PTL

-----------------------------------------------------------------------------
(* Admission: a sender keeps within its budget.                            *)

(* What was spent and what is left to spend, of the bucket as it would be  *)
(* if it were asked now, were there from the start, came with a restart or *)
(* were refilled since.                                                    *)
Balance ==
    \A s \in Senders, b \in TokenBuckets :
        admitted[s] * Cost[b] + Refilled(s, b)
            <= Burst[b] * (1 + restarts) + elapsed

AdmissionIInv == AdmissionTypeOK /\ Balance

(* The bucket of a sender, as numbers.                                     *)
LEMMA BucketNumbers ==
    ASSUME AdmissionTypeOK, NEW s \in Senders, NEW b \in TokenBuckets
    PROVE  /\ tokens[s][b] \in Nat /\ age[s][b] \in Nat
           /\ Burst[b] \in Nat /\ Cost[b] \in Nat
           /\ tokens[s][b] <= Burst[b]
           /\ Refilled(s, b) \in Nat /\ Refilled(s, b) <= Burst[b]
           /\ admitted[s] * Cost[b] \in Nat
           /\ Burst[b] * (1 + restarts) \in Nat
           /\ elapsed \in Nat /\ restarts \in Nat
<1>1. /\ tokens[s][b] \in Nat /\ age[s][b] \in Nat
      /\ Burst[b] \in Nat /\ Cost[b] \in Nat /\ tokens[s][b] <= Burst[b]
  BY AdmissionAssumption DEF AdmissionTypeOK
<1>2. Refilled(s, b) \in Nat /\ Refilled(s, b) <= Burst[b]
  BY <1>1 DEF Refilled
<1>3. admitted[s] \in Nat /\ restarts \in Nat /\ elapsed \in Nat
  BY DEF AdmissionTypeOK
<1>4. admitted[s] * Cost[b] \in Nat /\ Burst[b] * (1 + restarts) \in Nat
  BY <1>1, <1>3
<1>5. QED
  BY <1>1, <1>2, <1>3, <1>4

(* Every bucket is full and nothing was spent.                             *)
LEMMA InitAdmissionIInv == ASSUME AdmissionInit PROVE AdmissionIInv
<1>1. AdmissionTypeOK
  BY AdmissionAssumption DEF AdmissionInit, Full, AdmissionTypeOK
<1>2. ASSUME NEW s \in Senders, NEW b \in TokenBuckets
      PROVE  admitted[s] * Cost[b] + Refilled(s, b)
                <= Burst[b] * (1 + restarts) + elapsed
  <2>1. admitted[s] = 0 /\ restarts = 0 /\ elapsed = 0
    BY DEF AdmissionInit
  <2>2. Refilled(s, b) \in Nat /\ Refilled(s, b) <= Burst[b] /\ Burst[b] \in Nat
        /\ Cost[b] \in Nat
    BY <1>1, BucketNumbers
  <2>3. admitted[s] * Cost[b] = 0 /\ Burst[b] * (1 + restarts) = Burst[b]
    BY <2>1, <2>2
  <2>4. QED
    BY <2>1, <2>2, <2>3
<1>3. QED
  BY <1>1, <1>2 DEF AdmissionIInv, Balance

-----------------------------------------------------------------------------
(* A message that asks the buckets *)

(* What a charge makes of each bucket of the sender; the others are as     *)
(* they were.  Refilling a bucket when it is asked changes nothing of what *)
(* it would hold if it were asked again.                                   *)
LEMMA ChargeBuckets ==
    ASSUME AdmissionTypeOK, NEW s \in Senders,
           NEW asked, NEW granted, asked \subseteq TokenBuckets, granted \subseteq asked,
           \A b \in granted : Allows(s, b),
           Charge(s, asked, granted)
    PROVE  /\ tokens' \in [Senders -> [TokenBuckets -> Nat]]
           /\ age' \in [Senders -> [TokenBuckets -> Nat]]
           /\ \A r \in Senders, b \in TokenBuckets :
                /\ tokens'[r][b] <= Burst[b]
                /\ Refilled(r, b)' =
                    IF r = s /\ b \in granted THEN Refilled(r, b) - Cost[b]
                    ELSE Refilled(r, b)
<1> DEFINE newTokens == [b \in TokenBuckets |->
                IF b \in granted THEN Refilled(s, b) - Cost[b]
                ELSE IF b \in asked THEN Refilled(s, b)
                ELSE tokens[s][b]]
           newAge == [b \in TokenBuckets |-> IF b \in asked THEN 0 ELSE age[s][b]]
<1>1. ASSUME NEW b \in TokenBuckets
      PROVE  newTokens[b] \in Nat /\ newTokens[b] <= Burst[b] /\ newAge[b] \in Nat
  <2>1. CASE b \in granted
    <3>1. Refilled(s, b) >= Cost[b]
      BY <2>1 DEF Allows
    <3>2. QED
      BY <2>1, <3>1, BucketNumbers
  <2>2. CASE b \notin granted
    BY <2>2, BucketNumbers
  <2>3. QED
    BY <2>1, <2>2
<1>2. newTokens \in [TokenBuckets -> Nat] /\ newAge \in [TokenBuckets -> Nat]
  BY <1>1
<1>3. tokens' = [tokens EXCEPT ![s] = newTokens] /\ age' = [age EXCEPT ![s] = newAge]
  BY DEF Charge
<1> HIDE DEF newTokens, newAge
<1>4. /\ tokens' \in [Senders -> [TokenBuckets -> Nat]]
      /\ age' \in [Senders -> [TokenBuckets -> Nat]]
  BY <1>2, <1>3 DEF AdmissionTypeOK
<1>5. ASSUME NEW r \in Senders, NEW b \in TokenBuckets
      PROVE  /\ tokens'[r][b] <= Burst[b]
             /\ Refilled(r, b)' =
                    IF r = s /\ b \in granted THEN Refilled(r, b) - Cost[b]
                    ELSE Refilled(r, b)
  <2>1. CASE r # s
    <3>1. tokens'[r][b] = tokens[r][b] /\ age'[r][b] = age[r][b]
      BY <1>3, <2>1 DEF AdmissionTypeOK
    <3>2. QED
      BY <2>1, <3>1, BucketNumbers DEF Refilled
  <2>2. CASE r = s
    <3>1. tokens'[r][b] = newTokens[b] /\ age'[r][b] = newAge[b]
      BY <1>3, <2>2 DEF AdmissionTypeOK
    <3>2. CASE b \in granted
      <4>1. tokens'[r][b] = Refilled(s, b) - Cost[b] /\ age'[r][b] = 0
        BY <3>1, <3>2 DEF newTokens, newAge
      <4>2. Refilled(s, b) >= Cost[b]
        BY <3>2 DEF Allows
      <4>3. tokens'[r][b] + age'[r][b] = Refilled(s, b) - Cost[b]
            /\ tokens'[r][b] <= Burst[b]
        BY <4>1, <4>2, BucketNumbers
      <4>4. Refilled(r, b)' = Refilled(s, b) - Cost[b]
        <5>1. Refilled(r, b)' = IF tokens'[r][b] + age'[r][b] < Burst[b]
                                THEN tokens'[r][b] + age'[r][b] ELSE Burst[b]
          BY DEF Refilled
        <5>2. Refilled(s, b) \in Nat /\ Cost[b] \in Nat /\ Burst[b] \in Nat
              /\ Refilled(s, b) <= Burst[b]
          BY BucketNumbers
        <5>3. QED
          BY <4>2, <4>3, <5>1, <5>2
      <4>5. QED
        BY <2>2, <3>2, <4>3, <4>4
    <3>3. CASE b \in asked \ granted
      <4>1. tokens'[r][b] = Refilled(s, b) /\ age'[r][b] = 0
        BY <3>1, <3>3 DEF newTokens, newAge
      <4>2. Refilled(r, b)' = IF tokens'[r][b] + age'[r][b] < Burst[b]
                              THEN tokens'[r][b] + age'[r][b] ELSE Burst[b]
        BY DEF Refilled
      <4>3. Refilled(s, b) \in Nat /\ Burst[b] \in Nat /\ Refilled(s, b) <= Burst[b]
        BY BucketNumbers
      <4>4. QED
        BY <2>2, <3>3, <4>1, <4>2, <4>3
    <3>4. CASE b \notin asked
      <4>1. tokens'[r][b] = tokens[r][b] /\ age'[r][b] = age[r][b]
        BY <2>2, <3>1, <3>4 DEF newTokens, newAge
      <4>2. QED
        BY <3>4, <4>1, BucketNumbers DEF Refilled
    <3>5. QED
      BY <3>2, <3>3, <3>4
  <2>3. QED
    BY <2>1, <2>2
<1>6. QED
  BY <1>4, <1>5

(* A message that is admitted takes its cost out of both buckets.          *)
LEMMA AdmitKeeps ==
    ASSUME AdmissionIInv, NEW s \in Senders, Admit(s)
    PROVE  AdmissionIInv'
<1>1. /\ tokens' \in [Senders -> [TokenBuckets -> Nat]]
      /\ age' \in [Senders -> [TokenBuckets -> Nat]]
      /\ \A r \in Senders, b \in TokenBuckets :
            /\ tokens'[r][b] <= Burst[b]
            /\ Refilled(r, b)' = IF r = s THEN Refilled(r, b) - Cost[b]
                                 ELSE Refilled(r, b)
  BY ChargeBuckets DEF AdmissionIInv, Admit, TokenBuckets
<1>2. /\ admitted' = [admitted EXCEPT ![s] = @ + 1]
      /\ UNCHANGED <<elapsed, restarts>>
  BY DEF Admit
<1>3. AdmissionTypeOK'
  BY <1>1, <1>2 DEF AdmissionIInv, AdmissionTypeOK
<1>4. ASSUME NEW r \in Senders, NEW b \in TokenBuckets
      PROVE  (admitted[r] * Cost[b] + Refilled(r, b)
                <= Burst[b] * (1 + restarts) + elapsed)'
  <2>1. admitted[r] * Cost[b] + Refilled(r, b)
            <= Burst[b] * (1 + restarts) + elapsed
    BY DEF AdmissionIInv, Balance
  <2>2. CASE r # s
    <3>1. admitted'[r] = admitted[r] /\ Refilled(r, b)' = Refilled(r, b)
      BY <1>1, <1>2, <2>2 DEF AdmissionIInv, AdmissionTypeOK
    <3>2. QED
      BY <1>2, <2>1, <3>1
  <2>3. CASE r = s
    <3>1. admitted'[r] = admitted[r] + 1 /\ admitted[r] \in Nat
      BY <1>2, <2>3 DEF AdmissionIInv, AdmissionTypeOK
    <3>2. admitted'[r] * Cost[b] = admitted[r] * Cost[b] + Cost[b]
      <4>1. Cost[b] \in Nat
        BY BucketNumbers DEF AdmissionIInv
      <4>2. QED
        BY <3>1, <4>1
    <3>3. Refilled(r, b)' = Refilled(r, b) - Cost[b]
      BY <1>1, <2>3
    <3>4. /\ admitted[r] * Cost[b] \in Nat /\ Cost[b] \in Nat
          /\ Refilled(r, b) \in Nat
      BY BucketNumbers DEF AdmissionIInv
    <3>5. admitted'[r] * Cost[b] + Refilled(r, b)'
            = admitted[r] * Cost[b] + Refilled(r, b)
      BY <3>2, <3>3, <3>4
    <3>6. QED
      BY <1>2, <2>1, <3>5
  <2>4. QED
    BY <2>2, <2>3
<1>5. QED
  BY <1>3, <1>4 DEF AdmissionIInv, Balance

(* A charge that admits nothing leaves each bucket as full as it was, or   *)
(* charges it for nothing.                                                 *)
LEMMA ChargeKeeps ==
    ASSUME AdmissionIInv, NEW s \in Senders,
           NEW asked, NEW granted, asked \subseteq TokenBuckets, granted \subseteq asked,
           \A b \in granted : Allows(s, b),
           Charge(s, asked, granted), UNCHANGED watchVars
    PROVE  AdmissionIInv'
<1>1. /\ tokens' \in [Senders -> [TokenBuckets -> Nat]]
      /\ age' \in [Senders -> [TokenBuckets -> Nat]]
      /\ \A r \in Senders, b \in TokenBuckets :
            /\ tokens'[r][b] <= Burst[b]
            /\ Refilled(r, b)' =
                IF r = s /\ b \in granted THEN Refilled(r, b) - Cost[b]
                ELSE Refilled(r, b)
  <2>1. AdmissionTypeOK
    BY DEF AdmissionIInv
  <2>2. QED
    BY <2>1, ChargeBuckets
<1>2. AdmissionTypeOK'
  BY <1>1 DEF AdmissionIInv, AdmissionTypeOK, watchVars
<1>3. ASSUME NEW r \in Senders, NEW b \in TokenBuckets
      PROVE  (admitted[r] * Cost[b] + Refilled(r, b)
                <= Burst[b] * (1 + restarts) + elapsed)'
  <2>1. admitted[r] * Cost[b] + Refilled(r, b)
            <= Burst[b] * (1 + restarts) + elapsed
    BY DEF AdmissionIInv, Balance
  <2>2. /\ admitted[r] * Cost[b] \in Nat /\ Cost[b] \in Nat
        /\ Refilled(r, b) \in Nat /\ Burst[b] * (1 + restarts) \in Nat
        /\ elapsed \in Nat
    BY BucketNumbers DEF AdmissionIInv, AdmissionTypeOK
  <2>3. Refilled(r, b)' \in Int /\ Refilled(r, b)' <= Refilled(r, b)
    BY <1>1, <2>2
  <2>4. QED
    BY <2>1, <2>2, <2>3 DEF watchVars
<1>4. QED
  BY <1>2, <1>3 DEF AdmissionIInv, Balance

(* A message that is refused.                                              *)
LEMMA RefuseKeeps ==
    ASSUME AdmissionIInv, NEW s \in Senders, RefuseByOrigin(s) \/ RefuseByPeer(s)
    PROVE  AdmissionIInv'
<1>1. CASE RefuseByOrigin(s)
  BY <1>1, ChargeKeeps DEF RefuseByOrigin, TokenBuckets
<1>2. CASE RefuseByPeer(s)
  BY <1>2, ChargeKeeps DEF RefuseByPeer, TokenBuckets
<1>3. QED
  BY <1>1, <1>2

-----------------------------------------------------------------------------
(* Time, restarts and the watched interval *)

(* A tick refills every bucket by at most one.                             *)
LEMMA RefillKeeps == ASSUME AdmissionIInv, Tick PROVE AdmissionIInv'
<1>1. /\ UNCHANGED <<tokens, admitted, restarts>> /\ elapsed' = elapsed + 1
      /\ \A s \in Senders, b \in TokenBuckets : age'[s][b] =
            IF age[s][b] < Burst[b] THEN age[s][b] + 1 ELSE age[s][b]
  BY DEF Tick
<1>2. age' \in [Senders -> [TokenBuckets -> Nat]]
  BY DEF Tick, AdmissionIInv, AdmissionTypeOK
<1>3. AdmissionTypeOK'
  <2>1. elapsed' \in 0..MaxElapsed
    BY AdmissionAssumption DEF Tick, AdmissionIInv, AdmissionTypeOK
  <2>2. QED
    BY <1>1, <1>2, <2>1 DEF AdmissionIInv, AdmissionTypeOK
<1>4. ASSUME NEW s \in Senders, NEW b \in TokenBuckets
      PROVE  (admitted[s] * Cost[b] + Refilled(s, b)
                <= Burst[b] * (1 + restarts) + elapsed)'
  <2>1. admitted[s] * Cost[b] + Refilled(s, b)
            <= Burst[b] * (1 + restarts) + elapsed
    BY DEF AdmissionIInv, Balance
  <2>2. /\ tokens[s][b] \in Nat /\ age[s][b] \in Nat /\ Burst[b] \in Nat
        /\ admitted[s] * Cost[b] \in Nat /\ Refilled(s, b) \in Nat
        /\ Burst[b] * (1 + restarts) \in Nat /\ elapsed \in Nat
    BY BucketNumbers DEF AdmissionIInv, AdmissionTypeOK
  <2>3. age'[s][b] \in {age[s][b], age[s][b] + 1} /\ tokens'[s][b] = tokens[s][b]
    BY <1>1
  <2>4. Refilled(s, b)' \in Nat /\ Refilled(s, b)' <= Refilled(s, b) + 1
    BY <2>2, <2>3 DEF Refilled
  <2>5. QED
    BY <1>1, <2>1, <2>2, <2>4
<1>5. QED
  BY <1>3, <1>4 DEF AdmissionIInv, Balance

(* A restart fills the buckets, at the price of one capacity.              *)
LEMMA RestartKeeps == ASSUME AdmissionIInv, ForgetBuckets PROVE AdmissionIInv'
<1>1. /\ UNCHANGED <<age, elapsed, admitted>> /\ restarts' = restarts + 1
      /\ \A s \in Senders, b \in TokenBuckets : tokens'[s][b] = Burst[b]
      /\ tokens' \in [Senders -> [TokenBuckets -> Nat]]
  BY AdmissionAssumption DEF ForgetBuckets, Full
<1>2. AdmissionTypeOK'
  BY <1>1, AdmissionAssumption DEF ForgetBuckets, AdmissionIInv, AdmissionTypeOK
<1>3. ASSUME NEW s \in Senders, NEW b \in TokenBuckets
      PROVE  (admitted[s] * Cost[b] + Refilled(s, b)
                <= Burst[b] * (1 + restarts) + elapsed)'
  <2>1. admitted[s] * Cost[b] + Refilled(s, b)
            <= Burst[b] * (1 + restarts) + elapsed
    BY DEF AdmissionIInv, Balance
  <2>2. /\ age[s][b] \in Nat /\ Burst[b] \in Nat /\ Refilled(s, b) \in Nat
        /\ admitted[s] * Cost[b] \in Nat
        /\ Burst[b] * (1 + restarts) \in Nat /\ elapsed \in Nat
        /\ restarts \in Nat
    BY BucketNumbers DEF AdmissionIInv, AdmissionTypeOK
  <2>3. Refilled(s, b)' = Burst[b]
    BY <1>1, <2>2 DEF Refilled
  <2>4. Burst[b] * (1 + restarts') = Burst[b] * (1 + restarts) + Burst[b]
    <3>1. restarts' = restarts + 1
      BY <1>1
    <3>2. Burst[b] \in Nat /\ restarts \in Nat
      BY <2>2
    <3>3. QED
      BY <3>1, <3>2
  <2>5. QED
    BY <1>1, <2>1, <2>2, <2>3, <2>4
<1>4. QED
  BY <1>2, <1>3 DEF AdmissionIInv, Balance

(* An interval begins with nothing spent and at most a full bucket.        *)
LEMMA WatchKeeps == ASSUME AdmissionIInv, Watch PROVE AdmissionIInv'
<1>1. /\ UNCHANGED bucketVars /\ elapsed' = 0 /\ restarts' = 0
      /\ \A s \in Senders : admitted'[s] = 0
  BY DEF Watch
<1>2. AdmissionTypeOK'
  <2>1. elapsed' \in 0..MaxElapsed /\ restarts' \in 0..MaxRestarts
    BY <1>1, AdmissionAssumption
  <2>2. QED
    BY <1>1, <2>1 DEF Watch, AdmissionIInv, AdmissionTypeOK, bucketVars
<1>3. ASSUME NEW s \in Senders, NEW b \in TokenBuckets
      PROVE  (admitted[s] * Cost[b] + Refilled(s, b)
                <= Burst[b] * (1 + restarts) + elapsed)'
  <2>1. /\ Refilled(s, b) \in Nat /\ Refilled(s, b) <= Burst[b]
        /\ Burst[b] \in Nat /\ Cost[b] \in Nat
    BY BucketNumbers DEF AdmissionIInv
  <2>2. Refilled(s, b)' = Refilled(s, b)
    BY <1>1 DEF Refilled, bucketVars
  <2>3. admitted'[s] * Cost[b] = 0 /\ Burst[b] * (1 + restarts') = Burst[b]
    BY <1>1, <2>1
  <2>4. QED
    BY <1>1, <2>1, <2>2, <2>3
<1>4. QED
  BY <1>2, <1>3 DEF AdmissionIInv, Balance

LEMMA AdmissionStepKeeps == ASSUME AdmissionIInv, [AdmissionNext]_admissionVars PROVE AdmissionIInv'
<1>1. CASE UNCHANGED admissionVars
  BY <1>1 DEF admissionVars, bucketVars, watchVars, AdmissionIInv, AdmissionTypeOK, Balance, Refilled
<1>2. ASSUME NEW s \in Senders, Admit(s) \/ RefuseByOrigin(s) \/ RefuseByPeer(s)
      PROVE  AdmissionIInv'
  BY <1>2, AdmitKeeps, RefuseKeeps
<1>3. CASE Tick \/ ForgetBuckets \/ Watch
  BY <1>3, RefillKeeps, RestartKeeps, WatchKeeps
<1>4. QED
  BY <1>1, <1>2, <1>3 DEF AdmissionNext

-----------------------------------------------------------------------------
(* In no interval are more messages of a sender admitted than its buckets  *)
(* held at the beginning, were refilled with and were given by restarts    *)
(* (the rate limits of MessageRouter.receive).                             *)
THEOREM BudgetCorrect == AdmissionSpec => []WithinBudget
<1>1. AdmissionInit => AdmissionIInv
  BY InitAdmissionIInv
<1>2. AdmissionIInv /\ [AdmissionNext]_admissionVars => AdmissionIInv'
  BY AdmissionStepKeeps
<1>3. AdmissionIInv => WithinBudget
  <2> SUFFICES ASSUME AdmissionIInv, NEW s \in Senders, NEW b \in TokenBuckets
               PROVE  admitted[s] * Cost[b] <= Burst[b] * (1 + restarts) + elapsed
    BY DEF WithinBudget
  <2>1. admitted[s] * Cost[b] + Refilled(s, b)
            <= Burst[b] * (1 + restarts) + elapsed
    BY DEF AdmissionIInv, Balance
  <2>2. /\ Refilled(s, b) \in Nat /\ admitted[s] * Cost[b] \in Nat
        /\ Burst[b] * (1 + restarts) \in Nat /\ elapsed \in Nat
    BY BucketNumbers DEF AdmissionIInv, AdmissionTypeOK
  <2>3. QED
    BY <2>1, <2>2
<1>4. QED
  BY <1>1, <1>2, <1>3, PTL DEF AdmissionSpec

-----------------------------------------------------------------------------
(* PeerCache: what departs is not available, for the row says so or is     *)
(* gone.                                                                   *)
DepartedHasNoRow == \A p \in CachePeers \cap departed : entry[p] # "available"

CacheIInv == CacheTypeOK /\ DepartedHasNoRow /\ CachedHasNotLeft

LEMMA InitCacheIInv == CacheInit => CacheIInv
BY DEF CacheInit, CacheIInv, CacheTypeOK, DepartedHasNoRow, CachedHasNotLeft,
   CachedPeers

(* The events that write a row.                                            *)
LEMMA EventKeeps ==
    ASSUME CacheIInv, NEW p \in CachePeers,
           \/ CacheConnect(p) \/ Disconnect(p) \/ Discover(p) \/ Ages(p)
           \/ DialSucceeds(p)
    PROVE  CacheIInv'
<1> USE DEF CacheIInv
<1>1. CASE Disconnect(p)
  <2>1. CacheTypeOK'
    BY <1>1 DEF Disconnect, MarkPeerUnavailable, CacheTypeOK
  <2>2. /\ DepartedHasNoRow'
        /\ network' => \A q \in connected' : entry'[q] # "unavailable"
    BY <1>1 DEF Disconnect, MarkPeerUnavailable, CacheTypeOK, DepartedHasNoRow,
                CachedHasNotLeft
  <2>3. QED
    BY <2>1, <2>2 DEF DepartedHasNoRow, CachedHasNotLeft, CachedPeers
<1>2. CASE Discover(p)
  <2>1. CacheTypeOK'
    BY <1>2 DEF Discover, Save, CacheTypeOK
  <2>2. /\ DepartedHasNoRow'
        /\ network' => \A q \in connected' : entry'[q] # "unavailable"
    BY <1>2 DEF Discover, Save, CacheTypeOK, DepartedHasNoRow, CachedHasNotLeft
  <2>3. QED
    BY <2>1, <2>2 DEF DepartedHasNoRow, CachedHasNotLeft, CachedPeers
<1>3. CASE Ages(p)
  BY <1>3 DEF Ages, CacheTypeOK, DepartedHasNoRow, CachedHasNotLeft, CachedPeers
<1>4. CASE CacheConnect(p) \/ DialSucceeds(p)
  <2>1. /\ UNCHANGED <<network, up, dialling>> /\ toDial' \subseteq toDial
        /\ Connects(p) \/ UNCHANGED <<connected, entry, old, departed>>
    BY <1>4 DEF CacheConnect, DialSucceeds
  <2>2. CASE UNCHANGED <<connected, entry, old, departed>>
    BY <2>1, <2>2 DEF CacheTypeOK, DepartedHasNoRow, CachedHasNotLeft, CachedPeers
  <2>3. CASE Connects(p)
    <3>1. CacheTypeOK'
      BY <2>1, <2>3 DEF Connects, CacheOnConnect, Save, CacheTypeOK
    <3>2. /\ DepartedHasNoRow'
          /\ network' => \A q \in connected' : entry'[q] # "unavailable"
      BY <2>1, <2>3 DEF Connects, CacheOnConnect, Save, CacheTypeOK,
                        DepartedHasNoRow, CachedHasNotLeft
    <3>3. QED
      BY <3>1, <3>2 DEF DepartedHasNoRow, CachedHasNotLeft, CachedPeers
  <2>4. QED
    BY <2>1, <2>2, <2>3
<1>5. QED
  BY <1>1, <1>2, <1>3, <1>4

LEMMA CacheStepKeeps == CacheIInv /\ [CacheNext]_cacheVars => CacheIInv'
<1> SUFFICES ASSUME CacheIInv, [CacheNext]_cacheVars PROVE CacheIInv'
  OBVIOUS
<1>1. ASSUME NEW p \in CachePeers, DialFails(p) PROVE CacheIInv'
  BY <1>1 DEF DialFails, CacheIInv, CacheTypeOK, DepartedHasNoRow,
     CachedHasNotLeft, CachedPeers
<1>2. CASE DeleteStaleRoutingEntries
  BY <1>2 DEF DeleteStaleRoutingEntries, CacheIInv, CacheTypeOK, DepartedHasNoRow,
     CachedHasNotLeft, CachedPeers
<1>3. CASE DialCachedPeers
  BY <1>3 DEF DialCachedPeers, CacheIInv, CacheTypeOK, DepartedHasNoRow,
     CachedHasNotLeft, CachedPeers
<1>4. CASE CachedDialsEnd
  BY <1>4 DEF CachedDialsEnd, CacheIInv, CacheTypeOK, DepartedHasNoRow,
     CachedHasNotLeft, CachedPeers
<1>5. CASE NodeDies
  BY <1>5 DEF NodeDies, CacheIInv, CacheTypeOK, DepartedHasNoRow,
     CachedHasNotLeft, CachedPeers
<1>6. CASE NodeStarts
  BY <1>6 DEF NodeStarts, CacheIInv, CacheTypeOK, DepartedHasNoRow,
     CachedHasNotLeft, CachedPeers
<1>7. CASE UNCHANGED cacheVars
  BY <1>7 DEF cacheVars, CacheIInv, CacheTypeOK, DepartedHasNoRow,
     CachedHasNotLeft, CachedPeers
<1>8. QED
  BY <1>1, <1>2, <1>3, <1>4, <1>5, <1>6, <1>7, EventKeeps DEF CacheNext

(* No peer is listed to be dialled whose disconnection was the last that   *)
(* was heard of it (dialCachedPeers, getAllCachedPeers), and while         *)
(* NetworkModule handles the events no connected peer's row says           *)
(* unavailable.  Of YapYapNode's events this holds only in the first part: *)
(* a peer that comes back keeps the row that calls it unavailable.         *)
THEOREM CachedCorrect == CacheSpec => []CachedHasNotLeft
<1>1. CacheIInv => CachedHasNotLeft
  BY DEF CacheIInv
<1>2. QED
  BY InitCacheIInv, CacheStepKeeps, <1>1, PTL DEF CacheSpec

-----------------------------------------------------------------------------
(* NodeKeys: a key is read or, if there is none, generated by one start.   *)

(* A process has a key from the moment its libp2p node is created.         *)
HasKey == \A p \in Processes :
    nodeKey[p] = None <=> progress[p] \in {"off", "generating"}

(* Unless starts overlapped, one of them generates, while there is no key. *)
OneGenerates ==
    ~overlap => \A p, q \in Processes :
        /\ progress[p] = "generating" =>
              nodeKeys = <<>> /\ (progress[q] = "generating" => p = q)
        /\ progress[p] = "encrypting" =>
              encryptionKey = None /\ (progress[q] = "encrypting" => p = q)

IdentityIInv == IdentityTypeOK /\ HasKey /\ OneGenerates /\ OneIdentity

LEMMA InitIdentityIInv == IdentityInit => IdentityIInv
<1> SUFFICES ASSUME IdentityInit PROVE IdentityIInv
  OBVIOUS
<1>1. IdentityTypeOK
  <2>1. nodeKeys \in Seq(GeneratedKeys) /\ encryptionKey \in GeneratedKeys \cup {None}
    BY DEF IdentityInit
  <2>2. generated \in 0..MaxGenerated
    BY GeneratedAssumption DEF IdentityInit
  <2>3. progress \in [Processes -> Progress]
    BY DEF IdentityInit, Progress
  <2>4. QED
    BY <2>1, <2>2, <2>3 DEF IdentityInit, IdentityTypeOK
<1>2. /\ nodeKeys = <<>> /\ encryptionKey = None
      /\ \A p \in Processes : /\ nodeKey[p] = None /\ encryptionPair[p] = None
                             /\ progress[p] = "off"
  BY DEF IdentityInit
<1>3. HasKey /\ OneGenerates
  BY <1>2 DEF HasKey, OneGenerates
<1>4. Len(nodeKeys) <= 1
  BY <1>2
<1>5. OneIdentity
  BY <1>2, <1>4 DEF OneIdentity
<1>6. QED
  BY <1>1, <1>3, <1>5 DEF IdentityIInv

(* A key that is saved is in the table behind the others, which stay; if   *)
(* it is the only one, the table is as it was.                             *)
LEMMA SavedKeyIsThere ==
    ASSUME nodeKeys \in Seq(GeneratedKeys), NEW k \in GeneratedKeys
    PROVE  /\ WithNodeKey(k) \in Seq(GeneratedKeys)
           /\ Range(nodeKeys) \cup {k} \subseteq Range(WithNodeKey(k))
           /\ nodeKeys \in {<<>>, <<k>>} => WithNodeKey(k) = <<k>>
<1> DEFINE n == Len(nodeKeys)
<1>1. n \in Nat /\ DOMAIN nodeKeys = 1..n
  OBVIOUS
<1>2. ASSUME NEW s \in Seq(GeneratedKeys)
      PROVE  /\ Append(s, k) \in Seq(GeneratedKeys)
             /\ k \in Range(Append(s, k)) /\ Range(s) \subseteq Range(Append(s, k))
  <2>1. DOMAIN Append(s, k) = 1..Len(s) + 1 /\ DOMAIN s = 1..Len(s) /\ Len(s) \in Nat
    OBVIOUS
  <2>2. /\ Append(s, k)[Len(s) + 1] = k
        /\ \A i \in 1..Len(s) : Append(s, k)[i] = s[i]
    OBVIOUS
  <2>3. Append(s, k) \in Seq(GeneratedKeys)
    OBVIOUS
  <2> HIDE DEF Append
  <2>4. QED
    BY <2>1, <2>2, <2>3 DEF Range
<1>3. CASE k \notin Range(nodeKeys)
  <2>1. WithNodeKey(k) = Append(nodeKeys, k)
    BY <1>3 DEF WithNodeKey
  <2>2. nodeKeys # <<k>>
    BY <1>3 DEF Range
  <2>3. Append(<<>>, k) = <<k>>
    OBVIOUS
  <2>4. QED
    BY <1>2, <2>1, <2>2, <2>3
<1>4. CASE k \in Range(nodeKeys)
  <2> DEFINE i == CHOOSE j \in 1..n : nodeKeys[j] = k
             s == Without(i)
  <2>1. i \in 1..n /\ nodeKeys[i] = k
    BY <1>1, <1>4 DEF Range
  <2> HIDE DEF i
  <2>2. s = [j \in 1..n - 1 |-> nodeKeys[IF j < i THEN j ELSE j + 1]]
    BY DEF Without
  <2>3. s \in Seq(GeneratedKeys) /\ Len(s) = n - 1 /\ DOMAIN s = 1..n - 1
    BY <1>1, <2>1, <2>2
  <2>4. WithNodeKey(k) = Append(s, k)
    BY <1>4 DEF WithNodeKey, i
  <2>5. ASSUME NEW x \in Range(nodeKeys), x # k PROVE x \in Range(s)
    <3>1. PICK m \in 1..n : nodeKeys[m] = x
      BY <1>1 DEF Range
    <3>2. m # i
      BY <2>1, <2>5, <3>1
    <3>3. CASE m < i
      <4>1. m \in 1..n - 1 /\ s[m] = x
        BY <1>1, <2>1, <2>2, <3>1, <3>3
      <4>2. QED
        BY <2>3, <4>1 DEF Range
    <3>4. CASE m > i
      <4>1. m - 1 \in 1..n - 1 /\ s[m - 1] = x
        BY <1>1, <2>1, <2>2, <3>1, <3>4
      <4>2. QED
        BY <2>3, <4>1 DEF Range
    <3>5. QED
      BY <1>1, <2>1, <3>2, <3>3, <3>4
  <2>6. nodeKeys = <<k>> => s = <<>>
    BY <2>3
  <2>7. nodeKeys # <<>>
    BY <1>4 DEF Range
  <2>8. Append(<<>>, k) = <<k>>
    OBVIOUS
  <2> HIDE DEF s
  <2>9. QED
    BY <1>2, <2>3, <2>4, <2>5, <2>6, <2>7, <2>8
<1>5. QED
  BY <1>3, <1>4

(* What the invariant says of the first key: there is one unless the table *)
(* is empty.                                                               *)
LEMMA CurrentKeyIs ==
    ASSUME nodeKeys \in Seq(GeneratedKeys)
    PROVE  /\ CurrentNodeKey = None <=> nodeKeys = <<>>
           /\ CurrentNodeKey \in GeneratedKeys \cup {None}
           /\ Len(nodeKeys) <= 1 /\ nodeKeys # <<>> => nodeKeys = <<CurrentNodeKey>>
<1>1. nodeKeys # <<>> => Head(nodeKeys) \in GeneratedKeys
  OBVIOUS
<1>2. nodeKeys # <<>> => CurrentNodeKey \in GeneratedKeys /\ CurrentNodeKey # None
  BY <1>1, GeneratedAssumption DEF CurrentNodeKey, GeneratedKeys, None
<1>3. Len(nodeKeys) <= 1 /\ nodeKeys # <<>> => nodeKeys = <<Head(nodeKeys)>>
  <2> SUFFICES ASSUME Len(nodeKeys) <= 1, nodeKeys # <<>>
               PROVE  nodeKeys = <<Head(nodeKeys)>>
    OBVIOUS
  <2> DEFINE s == <<Head(nodeKeys)>>
  <2>1. Len(nodeKeys) = 1 /\ Head(nodeKeys) = nodeKeys[1]
    <3>1. Len(nodeKeys) \in Nat /\ Len(nodeKeys) # 0
      OBVIOUS
    <3>2. Head(nodeKeys) = nodeKeys[1]
      OBVIOUS
    <3>3. QED
      BY <3>1, <3>2
  <2>2. s \in Seq(GeneratedKeys) /\ Len(s) = 1 /\ s[1] = nodeKeys[1]
    BY <1>1, <2>1
  <2> HIDE DEF s
  <2>3. s = nodeKeys
    BY <2>1, <2>2
  <2>4. QED
    BY <2>3 DEF s
<1>4. QED
  BY <1>2, <1>3 DEF CurrentNodeKey

(* Begin: a key that is read is the current one, and a key is generated    *)
(* only where there is none.                                               *)
LEMMA BeginKeeps ==
    ASSUME IdentityIInv, NEW p \in Processes,
           NEW c \in {"start", "send-message"}, Begin(p, c)
    PROVE  IdentityIInv'
<1> USE DEF IdentityIInv
<1>1. /\ nodeKeys' = nodeKeys /\ encryptionKey' = encryptionKey
      /\ encryptionPair' = encryptionPair /\ generated' = generated
      /\ progress[p] = "off"
      /\ command' = [command EXCEPT ![p] = c]
  BY DEF Begin
<1>2. nodeKeys \in Seq(GeneratedKeys) /\ nodeKey[p] = None
  BY <1>1 DEF IdentityTypeOK, HasKey
<1>3. CurrentNodeKey' = CurrentNodeKey
  BY <1>1 DEF CurrentNodeKey
<1>4. CASE CurrentNodeKey # None
  <2>1. /\ nodeKey' = [nodeKey EXCEPT ![p] = CurrentNodeKey]
        /\ progress' = [progress EXCEPT ![p] = "creating"]
        /\ overlap' = overlap
    BY <1>4 DEF Begin
  <2>2. CurrentNodeKey \in GeneratedKeys /\ CurrentNodeKey \in Range(nodeKeys)
    <3>1. nodeKeys # <<>>
      BY <1>2, <1>4, CurrentKeyIs
    <3>2. CurrentNodeKey = nodeKeys[1] /\ 1 \in DOMAIN nodeKeys
      BY <1>2, <3>1 DEF CurrentNodeKey
    <3>3. QED
      BY <1>2, <1>4, <3>2, CurrentKeyIs DEF Range
  <2>3. IdentityTypeOK'
    BY <1>1, <2>1, <2>2 DEF IdentityTypeOK, Progress
  <2>4. \A q \in Processes :
           /\ q # p => nodeKey'[q] = nodeKey[q] /\ progress'[q] = progress[q]
           /\ nodeKey'[p] = CurrentNodeKey /\ progress'[p] = "creating"
    BY <2>1 DEF IdentityTypeOK
  <2>5. HasKey'
    BY <1>4, <2>4 DEF HasKey
  <2>6. OneGenerates'
    BY <1>1, <2>1, <2>4 DEF OneGenerates
  <2>7. OneIdentity'
    BY <1>1, <1>3, <2>1, <2>2, <2>4 DEF OneIdentity
  <2>8. QED
    BY <2>3, <2>5, <2>6, <2>7
<1>5. CASE CurrentNodeKey = None
  <2>1. Generates(p, "generating") /\ nodeKey' = nodeKey
    BY <1>5 DEF Begin
  <2>2. /\ progress' = [progress EXCEPT ![p] = "generating"]
        /\ overlap' = (overlap \/ \E q \in Processes : progress[q] = "generating")
    BY <2>1 DEF Generates
  <2>3. IdentityTypeOK'
    <3>1. overlap' \in BOOLEAN
      BY <2>2 DEF IdentityTypeOK
    <3>2. progress' \in [Processes -> Progress] /\ command' \in [Processes -> {"start", "send-message"}]
      BY <1>1, <2>2 DEF IdentityTypeOK, Progress
    <3>3. QED
      BY <1>1, <2>1, <3>1, <3>2 DEF IdentityTypeOK
  <2>4. \A q \in Processes :
           q # p => progress'[q] = progress[q]
    BY <2>2 DEF IdentityTypeOK
  <2>5. progress'[p] = "generating"
    BY <2>2 DEF IdentityTypeOK
  <2>6. HasKey'
    BY <1>2, <2>1, <2>4, <2>5 DEF HasKey
  <2>7. ~overlap' => ~overlap /\ \A q \in Processes : progress[q] # "generating"
    BY <2>2
  <2>8. nodeKeys = <<>>
    BY <1>2, <1>5, CurrentKeyIs
  <2>9. OneGenerates'
    BY <1>1, <2>4, <2>5, <2>7, <2>8 DEF OneGenerates
  <2>10. OneIdentity'
    BY <1>1, <1>3, <2>1, <2>7 DEF OneIdentity
  <2>11. QED
    BY <2>3, <2>6, <2>9, <2>10
<1>6. QED
  BY <1>4, <1>5

(* SaveNodeKey: unless starts overlapped, the table was empty and no other *)
(* process has a key.                                                      *)
LEMMA SaveNodeKeyKeeps ==
    ASSUME IdentityIInv, NEW p \in Processes, SaveNodeKey(p)
    PROVE  IdentityIInv'
<1> USE DEF IdentityIInv
<1> DEFINE k == generated + 1
<1>1. /\ encryptionKey' = encryptionKey /\ command' = command
      /\ encryptionPair' = encryptionPair /\ overlap' = overlap
      /\ progress[p] = "generating" /\ generated < MaxGenerated
      /\ generated' = k /\ nodeKeys' = WithNodeKey(k)
      /\ nodeKey' = [nodeKey EXCEPT ![p] = k]
      /\ progress' = [progress EXCEPT ![p] = "creating"]
  BY DEF SaveNodeKey
<1>2. k \in GeneratedKeys /\ k # None /\ k \in 0..MaxGenerated
  BY <1>1, GeneratedAssumption DEF IdentityTypeOK, GeneratedKeys, None
<1> HIDE DEF k
<1>3. nodeKeys \in Seq(GeneratedKeys)
  BY DEF IdentityTypeOK
<1>4. /\ nodeKeys' \in Seq(GeneratedKeys)
      /\ Range(nodeKeys) \cup {k} \subseteq Range(nodeKeys')
      /\ nodeKeys = <<>> => nodeKeys' = <<k>>
  BY <1>1, <1>2, <1>3, SavedKeyIsThere
<1>5. /\ \A q \in Processes : q # p =>
             nodeKey'[q] = nodeKey[q] /\ progress'[q] = progress[q]
      /\ nodeKey'[p] = k /\ progress'[p] = "creating"
  BY <1>1 DEF IdentityTypeOK
<1>6. IdentityTypeOK'
  BY <1>1, <1>2, <1>4 DEF IdentityTypeOK, Progress
<1>7. HasKey'
  BY <1>2, <1>5 DEF HasKey
<1>8. OneGenerates'
  BY <1>1, <1>5 DEF OneGenerates
<1>9. ASSUME ~overlap
      PROVE  /\ nodeKeys' = <<k>> /\ CurrentNodeKey' = k /\ Len(nodeKeys') <= 1
             /\ \A q \in Processes : q # p => nodeKey[q] = None
  <2>1. nodeKeys = <<>>
    BY <1>1, <1>9 DEF OneGenerates
  <2>2. nodeKeys' = <<k>> /\ nodeKeys' # <<>>
    BY <1>4, <2>1
  <2>3. Head(nodeKeys') = k /\ Len(nodeKeys') = 1
    BY <2>2
  <2>4. CurrentNodeKey' = k
    BY <2>2, <2>3 DEF CurrentNodeKey
  <2>5. \A q \in Processes : nodeKey[q] = None
    BY <1>9, <2>1 DEF OneIdentity, CurrentNodeKey
  <2>6. QED
    BY <2>2, <2>3, <2>4, <2>5
<1>10. OneIdentity'
  <2> SUFFICES ASSUME NEW q \in Processes
               PROVE  /\ nodeKey'[q] # None => nodeKey'[q] \in Range(nodeKeys')
                      /\ ~overlap' =>
                           /\ nodeKey'[q] \in {None, CurrentNodeKey'}
                           /\ encryptionPair'[q] \in {None, encryptionKey'}
                           /\ Len(nodeKeys') <= 1
    BY DEF OneIdentity
  <2>1. nodeKey'[q] # None => nodeKey'[q] \in Range(nodeKeys')
    BY <1>4, <1>5 DEF OneIdentity
  <2>2. ~overlap' => encryptionPair'[q] \in {None, encryptionKey'}
    BY <1>1 DEF OneIdentity
  <2>3. ~overlap' => nodeKey'[q] \in {None, CurrentNodeKey'} /\ Len(nodeKeys') <= 1
    BY <1>1, <1>5, <1>9
  <2>4. QED
    BY <2>1, <2>2, <2>3
<1>11. QED
  BY <1>6, <1>7, <1>8, <1>10

(* The two steps with the encryption key, by the same argument.            *)
LEMMA ReadEncryptionKeyKeeps ==
    ASSUME IdentityIInv, NEW p \in Processes, ReadEncryptionKey(p)
    PROVE  IdentityIInv'
<1> USE DEF IdentityIInv
<1>1. /\ nodeKeys' = nodeKeys /\ encryptionKey' = encryptionKey
      /\ command' = command /\ nodeKey' = nodeKey /\ generated' = generated
      /\ progress[p] = "creating"
  BY DEF ReadEncryptionKey
<1>2. CurrentNodeKey' = CurrentNodeKey /\ nodeKey[p] # None
  BY <1>1 DEF CurrentNodeKey, HasKey
<1>3. CASE encryptionKey # None
  <2>1. /\ encryptionPair' = [encryptionPair EXCEPT ![p] = encryptionKey]
        /\ progress' = [progress EXCEPT ![p] = "ready"]
        /\ overlap' = overlap
    BY <1>3 DEF ReadEncryptionKey
  <2>2. IdentityTypeOK'
    BY <1>1, <2>1 DEF IdentityTypeOK, Progress
  <2>3. \A q \in Processes :
           /\ q # p => encryptionPair'[q] = encryptionPair[q] /\ progress'[q] = progress[q]
           /\ encryptionPair'[p] = encryptionKey /\ progress'[p] = "ready"
    BY <2>1 DEF IdentityTypeOK
  <2>4. HasKey'
    BY <1>1, <1>2, <2>3 DEF HasKey
  <2>5. OneGenerates'
    BY <1>1, <2>1, <2>3 DEF OneGenerates
  <2>6. OneIdentity'
    BY <1>1, <1>2, <2>1, <2>3 DEF OneIdentity
  <2>7. QED
    BY <2>2, <2>4, <2>5, <2>6
<1>4. CASE encryptionKey = None
  <2>1. Generates(p, "encrypting") /\ encryptionPair' = encryptionPair
    BY <1>4 DEF ReadEncryptionKey
  <2>2. /\ progress' = [progress EXCEPT ![p] = "encrypting"]
        /\ overlap' = (overlap \/ \E q \in Processes : progress[q] = "encrypting")
    BY <2>1 DEF Generates
  <2>3. IdentityTypeOK'
    <3>1. overlap' \in BOOLEAN
      BY <2>2 DEF IdentityTypeOK
    <3>2. progress' \in [Processes -> Progress]
      BY <2>2 DEF IdentityTypeOK, Progress
    <3>3. QED
      BY <1>1, <2>1, <3>1, <3>2 DEF IdentityTypeOK
  <2>4. \A q \in Processes : q # p => progress'[q] = progress[q]
    BY <2>2 DEF IdentityTypeOK
  <2>5. progress'[p] = "encrypting"
    BY <2>2 DEF IdentityTypeOK
  <2>6. HasKey'
    BY <1>1, <1>2, <2>4, <2>5 DEF HasKey
  <2>7. ~overlap' => ~overlap /\ \A q \in Processes : progress[q] # "encrypting"
    BY <2>2
  <2>8. OneGenerates'
    BY <1>1, <1>4, <2>4, <2>5, <2>7 DEF OneGenerates
  <2>9. OneIdentity'
    BY <1>1, <1>2, <2>1, <2>7 DEF OneIdentity
  <2>10. QED
    BY <2>3, <2>6, <2>8, <2>9
<1>5. QED
  BY <1>3, <1>4

LEMMA SaveEncryptionKeyKeeps ==
    ASSUME IdentityIInv, NEW p \in Processes, SaveEncryptionKey(p)
    PROVE  IdentityIInv'
<1> USE DEF IdentityIInv
<1> DEFINE k == generated + 1
<1>1. /\ nodeKeys' = nodeKeys /\ command' = command /\ nodeKey' = nodeKey
      /\ overlap' = overlap
      /\ progress[p] = "encrypting" /\ generated < MaxGenerated
      /\ generated' = k /\ encryptionKey' = k
      /\ encryptionPair' = [encryptionPair EXCEPT ![p] = k]
      /\ progress' = [progress EXCEPT ![p] = "ready"]
  BY DEF SaveEncryptionKey
<1>2. k \in GeneratedKeys /\ k \in 0..MaxGenerated
  BY <1>1, GeneratedAssumption DEF IdentityTypeOK, GeneratedKeys
<1> HIDE DEF k
<1>3. CurrentNodeKey' = CurrentNodeKey /\ nodeKey[p] # None
  BY <1>1 DEF CurrentNodeKey, HasKey
<1>4. /\ \A q \in Processes : q # p =>
             encryptionPair'[q] = encryptionPair[q] /\ progress'[q] = progress[q]
      /\ encryptionPair'[p] = k /\ progress'[p] = "ready"
  BY <1>1 DEF IdentityTypeOK
<1>5. IdentityTypeOK'
  BY <1>1, <1>2 DEF IdentityTypeOK, Progress
<1>6. HasKey'
  BY <1>1, <1>3, <1>4 DEF HasKey
<1>7. OneGenerates'
  BY <1>1, <1>4 DEF OneGenerates
<1>8. ~overlap => \A q \in Processes : encryptionPair[q] = None
  BY <1>1 DEF OneGenerates, OneIdentity
<1>9. OneIdentity'
  BY <1>1, <1>3, <1>4, <1>8 DEF OneIdentity
<1>10. QED
  BY <1>5, <1>6, <1>7, <1>9

(* Initialised: what `start` saves again is the only key there is.         *)
LEMMA InitialisedKeeps ==
    ASSUME IdentityIInv, NEW p \in Processes, Initialised(p)
    PROVE  IdentityIInv'
<1> USE DEF IdentityIInv
<1>1. /\ encryptionKey' = encryptionKey /\ command' = command
      /\ nodeKey' = nodeKey /\ encryptionPair' = encryptionPair
      /\ generated' = generated /\ overlap' = overlap
      /\ progress[p] = "ready"
      /\ progress' = [progress EXCEPT ![p] = "up"]
      /\ nodeKeys' \in {WithNodeKey(nodeKey[p]), nodeKeys}
  BY DEF Initialised, SavedAgain
<1>2. nodeKeys \in Seq(GeneratedKeys) /\ nodeKey[p] \in GeneratedKeys /\ nodeKey[p] # None
  BY <1>1 DEF IdentityTypeOK, HasKey
<1>3. /\ nodeKeys' \in Seq(GeneratedKeys)
      /\ Range(nodeKeys) \subseteq Range(nodeKeys')
  BY <1>1, <1>2, SavedKeyIsThere
<1>4. ~overlap => nodeKeys' = nodeKeys
  <2> SUFFICES ASSUME ~overlap PROVE nodeKeys' = nodeKeys
    OBVIOUS
  <2>1. nodeKey[p] = CurrentNodeKey /\ Len(nodeKeys) <= 1
    BY <1>2 DEF OneIdentity
  <2>2. nodeKeys = <<nodeKey[p]>>
    BY <1>2, <2>1, CurrentKeyIs
  <2>3. QED
    BY <1>1, <1>2, <2>2, SavedKeyIsThere
<1>5. /\ \A q \in Processes : q # p => progress'[q] = progress[q]
      /\ progress'[p] = "up"
  BY <1>1 DEF IdentityTypeOK
<1>6. IdentityTypeOK'
  BY <1>1, <1>3 DEF IdentityTypeOK, Progress
<1>7. HasKey'
  BY <1>1, <1>2, <1>5 DEF HasKey
<1>8. OneGenerates'
  BY <1>1, <1>4, <1>5 DEF OneGenerates
<1>9. ~overlap => CurrentNodeKey' = CurrentNodeKey
  BY <1>4 DEF CurrentNodeKey
<1>10. OneIdentity'
  BY <1>1, <1>3, <1>4, <1>9 DEF OneIdentity
<1>11. QED
  BY <1>6, <1>7, <1>8, <1>10

LEMMA ExitKeeps ==
    ASSUME IdentityIInv, NEW p \in Processes, Exit(p)
    PROVE  IdentityIInv'
<1> USE DEF IdentityIInv
<1>1. /\ nodeKeys' = nodeKeys /\ encryptionKey' = encryptionKey
      /\ command' = command /\ generated' = generated /\ overlap' = overlap
      /\ progress' = [progress EXCEPT ![p] = "off"]
      /\ nodeKey' = [nodeKey EXCEPT ![p] = None]
      /\ encryptionPair' = [encryptionPair EXCEPT ![p] = None]
  BY DEF Exit
<1>2. /\ \A q \in Processes : q # p =>
             /\ nodeKey'[q] = nodeKey[q] /\ progress'[q] = progress[q]
             /\ encryptionPair'[q] = encryptionPair[q]
      /\ nodeKey'[p] = None /\ progress'[p] = "off" /\ encryptionPair'[p] = None
  BY <1>1 DEF IdentityTypeOK
<1>3. IdentityTypeOK'
  BY <1>1 DEF IdentityTypeOK, Progress
<1>4. HasKey' /\ OneGenerates'
  BY <1>1, <1>2 DEF HasKey, OneGenerates
<1>5. CurrentNodeKey' = CurrentNodeKey
  BY <1>1 DEF CurrentNodeKey
<1>6. OneIdentity'
  BY <1>1, <1>2, <1>5 DEF OneIdentity
<1>7. QED
  BY <1>3, <1>4, <1>6

LEMMA IdentityStepKeeps == IdentityIInv /\ [IdentityNext]_identityVars => IdentityIInv'
<1> SUFFICES ASSUME IdentityIInv, [IdentityNext]_identityVars PROVE IdentityIInv'
  OBVIOUS
<1>1. CASE UNCHANGED identityVars
  BY <1>1 DEF identityVars, IdentityIInv, IdentityTypeOK, HasKey, OneGenerates,
              OneIdentity, CurrentNodeKey
<1>2. CASE IdentityNext
  BY <1>2, BeginKeeps, SaveNodeKeyKeeps, ReadEncryptionKeyKeeps,
     SaveEncryptionKeyKeeps, InitialisedKeeps, ExitKeeps DEF IdentityNext
<1>3. QED
  BY <1>1, <1>2

(* A data directory has one identity, for every number of processes that   *)
(* start on it: getOrCreateNodeKey and getOrCreateEncryptionKey of         *)
(* cli/index.ts, unless two starts generate a key at the same time.        *)
THEOREM IdentityCorrect == IdentitySpec => []OneIdentity
<1>1. IdentityIInv => OneIdentity
  BY DEF IdentityIInv
<1>2. QED
  BY InitIdentityIInv, IdentityStepKeeps, <1>1, PTL DEF IdentitySpec

=============================================================================
