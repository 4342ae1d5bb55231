--------------------------- MODULE ConnectionProofs ---------------------------
(***************************************************************************)
(* What holds of five components that deal with other nodes, whatever      *)
(* their constants: frames are tried in order, for any chunks and frames;  *)
(* only a failed ping condemns a connection, for any number of remotes and *)
(* checks; table and buckets agree, for peer ids of up to 256 bits; a      *)
(* route announcement reaches each node of a forest once, for any network; *)
(* and no delta is told of twice or lost between two syncs.                *)
(***************************************************************************)
EXTENDS Streams, ConnectionHealth, Routing, Gossip, Sync, FiniteSetTheorems,
        WellFoundedInduction, TLAPS

-----------------------------------------------------------------------------
(* Streams: a frame is tried before the next one is taken.                 *)

(* What the handler is at: the frame behind the last one taken, which is   *)
(* complete, and for NetworkModule one of those the chunk completed.       *)
AtWork ==
    reader = "handling" =>
        /\ taken + 1 \in tried
        /\ handler = "node" => Complete(taken + 1, arrived)
        /\ handler = "network" => taken < last /\ last = arrived \div 2

StreamsIInv == StreamsTypeOK /\ FramesInOrder /\ AtWork

(* Nothing has arrived.                                                    *)
LEMMA InitStreamsIInv == StreamsInit => StreamsIInv
<1> SUFFICES ASSUME StreamsInit PROVE StreamsIInv
  OBVIOUS
<1>1. arrived \in 0..2 * Frames /\ taken \in 0..Frames /\ last \in 0..Frames
  BY StreamsAssumption DEF StreamsInit
<1>2. StreamsTypeOK
  BY <1>1 DEF StreamsInit, StreamsTypeOK, StreamStage
<1>3. FramesInOrder /\ AtWork
  BY StreamsAssumption DEF StreamsInit, FramesInOrder, AtWork, Complete
<1>4. QED
  BY <1>2, <1>3 DEF StreamsIInv

(* What the processing of a buffer comes to when t frames have been taken  *)
(* and the halves up to g have arrived.                                    *)
PassesOn(t, g) ==
    /\ taken' = t /\ arrived' = g /\ last' \in 0..Frames
    /\ UNCHANGED <<handler, huge, idleClosed>> /\ stopped' \in BOOLEAN
    /\ \/ reader' = "closed" /\ tried' = tried
       \/ reader' = "reading" /\ ~Complete(t + 1, g) /\ tried' = tried
       \/ /\ reader' = "handling" /\ Complete(t + 1, g) /\ tried' = tried \cup {t + 1}
          /\ handler = "network" => t < last' /\ last' = g \div 2

(* If all that was tried is taken, the next frame is left in the buffer    *)
(* only incomplete, or with the handler.                                   *)
LEMMA PassKeeps ==
    ASSUME StreamsTypeOK, NEW t \in 0..Frames, NEW g \in 0..2 * Frames,
           PassesOn(t, g), \A f \in tried : f <= t,
           handler = "node" => tried = 1..t
    PROVE  StreamsIInv'
<1>1. t \in Nat /\ Frames \in Nat /\ g \in Nat
  BY StreamsAssumption
<1>2. Complete(t + 1, g) => t + 1 \in 1..Frames
  BY <1>1 DEF Complete
<1>3. reader' \in StreamStage
  BY DEF PassesOn, StreamStage
<1>4. tried' \subseteq 1..Frames
  BY <1>2 DEF PassesOn, StreamsTypeOK
<1>5. StreamsTypeOK'
  BY <1>3, <1>4 DEF PassesOn, StreamsTypeOK
<1>6. \A f \in tried' : f <= taken' + 1
  <2>1. taken' = t /\ tried' \subseteq tried \cup {t + 1}
    BY DEF PassesOn
  <2>2. tried \subseteq Nat
    BY <1>1 DEF StreamsTypeOK
  <2>3. \A f \in Nat : f <= t => f <= t + 1
    BY <1>1
  <2>4. t + 1 <= t + 1
    BY <1>1
  <2>5. QED
    BY <2>1, <2>2, <2>3, <2>4
<1>7. taken' + 1 \in tried' => reader' = "handling"
  <2>1. t + 1 \notin tried
    BY <1>1
  <2>2. QED
    BY <2>1 DEF PassesOn
<1>8. handler' = "node" => tried' = 1..taken' \/ tried' = 1..taken' + 1
  <2>1. (1..t) \cup {t + 1} = 1..t + 1
    BY <1>1
  <2>2. QED
    BY <2>1 DEF PassesOn
<1>9. FramesInOrder'
  BY <1>6, <1>7, <1>8 DEF PassesOn, FramesInOrder, Complete
<1>10. AtWork'
  <2> SUFFICES ASSUME reader' = "handling" PROVE AtWork'
    BY DEF AtWork
  <2>1. /\ tried' = tried \cup {t + 1} /\ Complete(t + 1, g)
        /\ taken' = t /\ arrived' = g /\ handler' = handler
        /\ handler = "network" => t < last' /\ last' = g \div 2
    BY DEF PassesOn
  <2>2. QED
    BY <2>1 DEF AtWork, Complete
<1>11. QED
  BY <1>5, <1>9, <1>10 DEF StreamsIInv

(* The passes that begin are such.                                         *)
LEMMA ScanPasses ==
    ASSUME StreamsTypeOK, NEW g \in 0..2 * Frames, arrived' = g, Scan(g),
           UNCHANGED <<handler, huge, taken, idleClosed>>, stopped' \in BOOLEAN
    PROVE  PassesOn(taken, g)
<1>1. taken \in Nat /\ g \in Nat /\ g \div 2 \in 0..Frames
  BY StreamsAssumption DEF StreamsTypeOK
<1>2. last \in 0..Frames
  BY DEF StreamsTypeOK
<1>3. CASE handler = "node"
  BY <1>1, <1>2, <1>3 DEF Scan, NodeContinues, Rest, Handle, PassesOn
<1>4. CASE handler = "network"
  <2>1. g \div 2 > taken <=> Complete(taken + 1, g)
    BY <1>1 DEF Complete
  <2>2. \/ Rest("closed") /\ last' = last
        \/ last' = g \div 2 /\ last' > taken /\ Handle(taken)
        \/ last' = g \div 2 /\ g \div 2 <= taken /\ Rest("reading")
    BY <1>4 DEF Scan, NetworkBegins
  <2>3. g \div 2 <= taken => ~Complete(taken + 1, g)
    BY <1>1, <2>1
  <2>4. QED
    BY <1>1, <1>2, <2>1, <2>2, <2>3 DEF Rest, Handle, PassesOn
<1>5. QED
  BY <1>3, <1>4 DEF StreamsTypeOK

(* Before a pass every frame that was tried is taken.                      *)
LEMMA TriedIsTaken ==
    ASSUME StreamsIInv, reader # "handling"
    PROVE  /\ \A f \in tried : f <= taken
           /\ handler = "node" => tried = 1..taken
<1>1. taken \in Nat /\ \A f \in tried : f \in Nat
  BY DEF StreamsIInv, StreamsTypeOK
<1>2. taken + 1 \notin tried
  BY DEF StreamsIInv, FramesInOrder
<1>3. \A f \in tried : f <= taken
  BY <1>1, <1>2 DEF StreamsIInv, FramesInOrder
<1>4. handler = "node" => tried = 1..taken
  <2>1. taken + 1 \in 1..taken + 1
    BY <1>1
  <2>2. QED
    BY <1>2, <2>1 DEF StreamsIInv, FramesInOrder
<1>5. QED
  BY <1>3, <1>4

LEMMA ChunkKeeps == StreamsIInv /\ ChunkArrives => StreamsIInv'
<1> SUFFICES ASSUME StreamsIInv, ChunkArrives PROVE StreamsIInv'
  OBVIOUS
<1>1. PICK g \in arrived + 1..2 * Frames :
        /\ arrived' = g /\ stopped' = FALSE
        /\ \/ Rest("closed") /\ UNCHANGED last
           \/ Rest("waiting") /\ UNCHANGED last
           \/ Scan(g)
  BY DEF ChunkArrives
<1>2. UNCHANGED <<handler, huge, taken, idleClosed>> /\ reader = "reading"
  BY DEF ChunkArrives
<1>3. g \in 0..2 * Frames
  BY StreamsAssumption DEF StreamsIInv, StreamsTypeOK
<1>4. CASE Scan(g)
  <2>1. PassesOn(taken, g)
    BY <1>1, <1>2, <1>3, <1>4, ScanPasses DEF StreamsIInv
  <2>2. QED
    BY <1>2, <1>3, <2>1, TriedIsTaken, PassKeeps DEF StreamsIInv, StreamsTypeOK
<1>5. CASE (Rest("closed") \/ Rest("waiting")) /\ UNCHANGED last
  <2>1. StreamsTypeOK'
    BY <1>1, <1>2, <1>3, <1>5 DEF StreamsIInv, StreamsTypeOK, Rest, StreamStage
  <2>2. FramesInOrder' /\ AtWork'
    BY <1>1, <1>2, <1>5, TriedIsTaken
    DEF StreamsIInv, StreamsTypeOK, FramesInOrder, AtWork, Rest
  <2>3. QED
    BY <2>1, <2>2 DEF StreamsIInv
<1>6. QED
  BY <1>1, <1>4, <1>5

LEMMA ResumeKeeps == StreamsIInv /\ Resume => StreamsIInv'
<1> SUFFICES ASSUME StreamsIInv, Resume PROVE StreamsIInv'
  OBVIOUS
<1>1. /\ reader # "handling" /\ Scan(arrived) /\ arrived' = arrived
      /\ UNCHANGED <<handler, huge, taken, idleClosed, stopped>>
  BY DEF Resume
<1>2. arrived \in 0..2 * Frames /\ stopped' \in BOOLEAN
  BY <1>1 DEF StreamsIInv, StreamsTypeOK
<1>3. PassesOn(taken, arrived)
  BY <1>1, <1>2, ScanPasses DEF StreamsIInv
<1>4. QED
  BY <1>1, <1>2, <1>3, TriedIsTaken, PassKeeps DEF StreamsIInv, StreamsTypeOK

(* The frame at work is taken, and the next one tried if it is complete.   *)
LEMMA SucceedsKeeps == StreamsIInv /\ HandlerSucceeds => StreamsIInv'
<1> SUFFICES ASSUME StreamsIInv, HandlerSucceeds PROVE StreamsIInv'
  OBVIOUS
<1> DEFINE t == taken + 1
<1> USE DEF StreamsIInv
<1>1. /\ reader = "handling" /\ taken' = t
      /\ UNCHANGED <<handler, huge, arrived, idleClosed, stopped>>
  BY DEF HandlerSucceeds
<1>2. /\ taken \in Nat /\ arrived \in 0..2 * Frames /\ last \in 0..Frames
      /\ Frames \in Nat /\ stopped \in BOOLEAN
  BY StreamsAssumption DEF StreamsTypeOK
<1>3. t \in 0..Frames /\ handler \in {"node", "network"}
  BY <1>1, <1>2 DEF AtWork, Complete, StreamsTypeOK
<1>4. \A f \in tried : f <= t
  BY <1>2 DEF FramesInOrder
<1>5. handler = "node" => tried = 1..t
  <2>1. t \in tried
    BY <1>1 DEF AtWork
  <2>2. t \notin 1..taken
    BY <1>2
  <2>3. QED
    BY <2>1, <2>2 DEF FramesInOrder
<1>6. PassesOn(t, arrived)
  <2>1. CASE handler = "node"
    BY <1>1, <1>2, <2>1 DEF HandlerSucceeds, NodeContinues, Rest, Handle, PassesOn
  <2>2. CASE handler = "network"
    <3>1. NetworkContinues(t) /\ last = arrived \div 2
      BY <1>1, <2>2 DEF HandlerSucceeds, AtWork
    <3>2. last' = last /\ (t < last <=> Complete(t + 1, arrived))
      BY <1>2, <3>1 DEF NetworkContinues, Complete
    <3>3. \/ t < last /\ Handle(t)
          \/ ~(t < last) /\ Rest("reading")
      BY <1>2, <3>1 DEF NetworkContinues
    <3>4. QED
      BY <1>1, <1>2, <3>1, <3>2, <3>3 DEF Rest, Handle, PassesOn
  <2>3. QED
    BY <1>3, <2>1, <2>2
<1>7. QED
  BY <1>2, <1>3, <1>4, <1>5, <1>6, PassKeeps

(* The frame that failed is taken, with those NetworkModule had decoded.   *)
LEMMA FailsKeeps == StreamsIInv /\ HandlerFails => StreamsIInv'
<1> SUFFICES ASSUME StreamsIInv, HandlerFails PROVE StreamsIInv'
  OBVIOUS
<1> USE StreamsAssumption DEF StreamsIInv
<1>1. /\ reader = "handling" /\ taken' = AfterFailure /\ reader' = "reading"
      /\ stopped' = TRUE
      /\ UNCHANGED <<handler, huge, arrived, last, idleClosed, tried>>
  BY DEF HandlerFails
<1>2. CASE handler = "node"
  BY <1>1, <1>2
  DEF AfterFailure, StreamsTypeOK, StreamStage, Complete, FramesInOrder, AtWork
<1>3. CASE handler = "network"
  BY <1>1, <1>3
  DEF AfterFailure, StreamsTypeOK, StreamStage, Complete, FramesInOrder, AtWork
<1>4. QED
  BY <1>2, <1>3 DEF StreamsTypeOK

LEMMA StreamsStepKeeps == StreamsIInv /\ [StreamsNext]_streamVars => StreamsIInv'
<1> SUFFICES ASSUME StreamsIInv, [StreamsNext]_streamVars PROVE StreamsIInv'
  OBVIOUS
<1>1. CASE IdleTimeout
  BY <1>1 DEF IdleTimeout, StreamsIInv, StreamsTypeOK, FramesInOrder, AtWork, Complete
<1>2. CASE StreamEnds
  BY <1>2
  DEF StreamEnds, StreamsIInv, StreamsTypeOK, StreamStage, FramesInOrder, AtWork,
      Complete
<1>3. CASE UNCHANGED streamVars
  BY <1>3 DEF streamVars, StreamsIInv, StreamsTypeOK, FramesInOrder, AtWork, Complete
<1>4. QED
  BY <1>1, <1>2, <1>3, ChunkKeeps, ResumeKeeps, SucceedsKeeps, FailsKeeps
  DEF StreamsNext

(* Whatever chunks the frames come in and whichever of them fail, each is  *)
(* handed over at most once, in order, and what is complete and not handed *)
(* over lies behind a failure (processFrames).                             *)
THEOREM FramesCorrect == StreamsSpec => []FramesInOrder
<1>1. StreamsIInv => FramesInOrder
  BY DEF StreamsIInv
<1>2. QED
  BY InitStreamsIInv, StreamsStepKeeps, <1>1, PTL DEF StreamsSpec

-----------------------------------------------------------------------------
(* ConnectionHealth: only a ping that fails makes an entry unhealthy.      *)

(* The entry of the peer a check pings is in the map, unless the check     *)
(* holds one that was deleted; and a ping may fail only of a peer that has *)
(* not answered at some time.                                              *)
PingsWhatIsKnown ==
    \A c \in Checks :
        /\ awaits[c] = "ping" /\ c \notin orphaned => at[c] \in known
        /\ awaits[c] = "ping" /\ c \in unsure => at[c] \in silent
DeadIsSilent == Remotes \ alive \subseteq silent

HealthIInv ==
    HealthTypeOK /\ PingsWhatIsKnown /\ DeadIsSilent /\ UnhealthyFailedLast

LEMMA InitHealthIInv == HealthInit => HealthIInv
<1> SUFFICES ASSUME HealthInit PROVE HealthIInv
  OBVIOUS
<1>1. deaths \in 0..MaxDeaths /\ 0 \in 0..StalledLimit
  BY HealthAssumption DEF HealthInit
<1>2. /\ left \in [Checks -> SUBSET Remotes] /\ saw \in [Checks -> SUBSET Remotes]
      /\ at \in [Checks -> Remotes \cup {NoRemote}]
      /\ awaits \in [Checks -> {"none", "ping", "hangUp"}]
      /\ \A c \in Checks : at[c] = NoRemote /\ awaits[c] = "none"
      /\ goal \in [Transmissions -> Remotes \cup {NoRemote}]
  BY DEF HealthInit
<1>3. HealthTypeOK
  BY <1>1, <1>2 DEF HealthInit, HealthTypeOK
<1>4. PingsWhatIsKnown /\ DeadIsSilent /\ UnhealthyFailedLast
  BY <1>2 DEF HealthInit, PingsWhatIsKnown, DeadIsSilent, UnhealthyFailedLast
<1>5. QED
  BY <1>3, <1>4 DEF HealthIInv

(* What the loop of check c does to the entries k, healthy those of h: the *)
(* ones it adds are healthy, and a peer it stops at has one.               *)
Proceeded(c, k, h) ==
    /\ k \subseteq known' /\ known' \subseteq Remotes
    /\ healthy' \subseteq known' /\ known' \ healthy' \subseteq k \ h
    /\ left' \in [Checks -> SUBSET Remotes]
    /\ saw' \in [Checks -> SUBSET Remotes]
    /\ at' \in [Checks -> Remotes \cup {NoRemote}]
    /\ awaits' \in [Checks -> {"none", "ping", "hangUp"}]
    /\ \/ at'[c] = NoRemote /\ awaits'[c] = "none"
       \/ at'[c] \in known' /\ awaits'[c] = "ping"
    /\ c \in unsure' => at'[c] \in Remotes \ alive
    /\ unsure' \subseteq unsure \cup {c}
    /\ \A d \in Checks \ {c} : at'[d] = at[d] /\ awaits'[d] = awaits[d]

LEMMA ProceedDoes ==
    ASSUME HealthTypeOK, NEW c \in Checks, NEW rest \in SUBSET Remotes,
           NEW sees \in [Checks -> SUBSET Remotes], NEW k \in SUBSET Remotes,
           NEW h \in SUBSET k, Proceed(c, rest, sees, k, h)
    PROVE  Proceeded(c, k, h)
<1> DEFINE suspects == rest \cap Suspects(k, h, sees[c])
           Pass(some, next, what) ==
               /\ known' = k \cup some
               /\ healthy' = h \cup (some \ k)
               /\ left' = [left EXCEPT ![c] = rest \ (some \cup {next})]
               /\ saw' = [sees EXCEPT ![c] = @ \cap (rest \ some)]
               /\ at' = [at EXCEPT ![c] = next]
               /\ awaits' = [awaits EXCEPT ![c] = what]
               /\ unsure' = IF next \in Remotes \ alive THEN unsure \cup {c}
                            ELSE unsure \ {c}
<1>1. suspects \subseteq k /\ suspects \subseteq rest
  BY DEF Suspects
<1>2. \/ Pass(rest, NoRemote, "none")
      \/ \E p \in suspects, passed \in SUBSET (rest \ suspects) : Pass(passed, p, "ping")
  BY DEF Proceed
<1> HIDE DEF suspects
<1>3. ASSUME NEW some \in SUBSET rest, NEW next, NEW what,
             Pass(some, next, what),
             \/ next = NoRemote /\ what = "none"
             \/ next \in k /\ what = "ping"
      PROVE  Proceeded(c, k, h)
  <2>1. /\ k \subseteq known' /\ known' \subseteq Remotes
        /\ healthy' \subseteq known' /\ known' \ healthy' \subseteq k \ h
    BY <1>3
  <2>2. left' \in [Checks -> SUBSET Remotes]
    BY <1>3 DEF HealthTypeOK
  <2>3. /\ at' \in [Checks -> Remotes \cup {NoRemote}]
        /\ at'[c] = next /\ \A d \in Checks \ {c} : at'[d] = at[d]
    BY <1>3 DEF HealthTypeOK
  <2>4. /\ awaits' \in [Checks -> {"none", "ping", "hangUp"}]
        /\ awaits'[c] = what /\ \A d \in Checks \ {c} : awaits'[d] = awaits[d]
    BY <1>3 DEF HealthTypeOK
  <2>5. saw' \in [Checks -> SUBSET Remotes]
    BY <1>3
  <2>6. (c \in unsure' => next \in Remotes \ alive) /\ unsure' \subseteq unsure \cup {c}
    BY <1>3
  <2> HIDE DEF Pass
  <2>7. QED
    BY <1>3, <2>1, <2>2, <2>3, <2>4, <2>5, <2>6 DEF Proceeded
<1> HIDE DEF Pass
<1>4. CASE Pass(rest, NoRemote, "none")
  BY <1>3, <1>4
<1>5. CASE \E p \in suspects, passed \in SUBSET (rest \ suspects) : Pass(passed, p, "ping")
  BY <1>1, <1>3, <1>5
<1>6. QED
  BY <1>2, <1>4, <1>5

(* A step in which check c goes on keeps the invariant, if the failures    *)
(* that are known of include the unhealthy entries it goes on with.        *)
LEMMA GoingOnKeeps ==
    ASSUME HealthIInv, NEW c \in Checks, NEW k \in SUBSET Remotes,
           NEW h \in SUBSET k, Proceeded(c, k, h), known \subseteq k,
           running' = running, running => k \ h \subseteq failed' \cap silent,
           orphaned' \subseteq orphaned, orphaned \subseteq orphaned' \cup {c},
           open' \subseteq Remotes, alive' = alive, deaths' = deaths,
           hangingUp' = hangingUp, idle' \subseteq idle, failed' \subseteq Remotes,
           goal' = goal, silent' = silent,
           stalled' \in [Remotes -> 0..StalledLimit]
    PROVE  HealthIInv'
<1>1. \A d \in Checks : at'[d] = NoRemote <=> awaits'[d] = "none"
  BY HealthAssumption DEF HealthIInv, HealthTypeOK, Proceeded
<1>2. idle' \subseteq known' /\ unsure' \subseteq Checks /\ orphaned' \subseteq Checks
  BY DEF HealthIInv, HealthTypeOK, Proceeded
<1>3. HealthTypeOK'
  BY <1>1, <1>2 DEF HealthIInv, HealthTypeOK, Proceeded
<1>4. PingsWhatIsKnown' /\ DeadIsSilent'
  <2>1. ASSUME NEW d \in Checks
        PROVE  /\ awaits'[d] = "ping" /\ d \notin orphaned' => at'[d] \in known'
               /\ awaits'[d] = "ping" /\ d \in unsure' => at'[d] \in silent'
    <3>1. CASE d = c
      BY <3>1 DEF HealthIInv, DeadIsSilent, Proceeded
    <3>2. CASE d # c
      BY <3>2 DEF HealthIInv, PingsWhatIsKnown, Proceeded
    <3>3. QED
      BY <3>1, <3>2
  <2>2. QED
    BY <2>1 DEF HealthIInv, PingsWhatIsKnown, DeadIsSilent
<1>5. UnhealthyFailedLast'
  BY DEF HealthIInv, UnhealthyFailedLast, Proceeded
<1>6. QED
  BY <1>3, <1>4, <1>5 DEF HealthIInv

LEMMA CountedCounts ==
    ASSUME HealthTypeOK, NEW p \in Remotes
    PROVE  Counted(p) \in 0..StalledLimit
<1>1. stalled[p] \in 0..StalledLimit
  BY DEF HealthTypeOK
<1>2. QED
  BY <1>1, HealthAssumption DEF Counted

(* The peer check c awaits, and that its entry is in the map.              *)
LEMMA AwaitsRemote ==
    ASSUME HealthIInv, NEW c \in Checks, awaits[c] # "none"
    PROVE  /\ at[c] \in Remotes
           /\ awaits[c] = "ping" /\ c \notin orphaned => at[c] \in known
BY DEF HealthIInv, HealthTypeOK, PingsWhatIsKnown

(* What is set aside of the checks' views is one of them.                  *)
LEMMA StirredIs ==
    ASSUME HealthTypeOK, NEW p \in Remotes
    PROVE  Stirred(p) \in [Checks -> SUBSET Remotes]
BY DEF Stirred, HealthTypeOK

LEMMA PingAnsweredKeeps ==
    ASSUME HealthIInv, NEW c \in Checks, PingAnswered(c)
    PROVE  HealthIInv'
<1> DEFINE p == at[c]
<1>1. /\ awaits[c] = "ping" /\ orphaned' = orphaned \ {c} /\ running' = running
      /\ open' = open /\ alive' = alive /\ deaths' = deaths /\ hangingUp' = hangingUp
      /\ goal' = goal /\ silent' = silent
  BY DEF PingAnswered, worldVars
<1>2. p \in Remotes /\ (c \notin orphaned => p \in known)
  BY <1>1, AwaitsRemote
<1>3. left[c] \in SUBSET Remotes /\ saw \in [Checks -> SUBSET Remotes] /\ open \subseteq Remotes
      /\ known \subseteq Remotes /\ healthy \subseteq known /\ HealthTypeOK
  BY DEF HealthIInv, HealthTypeOK
<1>4. CASE c \in orphaned
  <2>1. /\ Proceed(c, left[c], saw, known, healthy)
        /\ stalled' = stalled /\ idle' = idle /\ failed' = failed
    BY <1>4 DEF PingAnswered
  <2>2. Proceeded(c, known, healthy)
    BY <1>3, <2>1, ProceedDoes
  <2>3. /\ failed' \subseteq Remotes
        /\ stalled' \in [Remotes -> 0..StalledLimit]
        /\ running => known \ healthy \subseteq failed' \cap silent
    BY <2>1 DEF HealthIInv, HealthTypeOK, UnhealthyFailedLast
  <2>4. QED
    BY <1>1, <1>3, <2>1, <2>2, <2>3, GoingOnKeeps
<1>5. CASE c \notin orphaned
  <2>1. /\ Proceed(c, left[c], Stirred(p), known, healthy \cup {p})
        /\ idle' = idle \ {p}
        /\ stalled' = [stalled EXCEPT ![p] = 0]
        /\ failed' = failed \ {p}
    BY <1>5 DEF PingAnswered, Revived
  <2>2. Proceeded(c, known, healthy \cup {p})
    BY <1>2, <1>3, <1>5, <2>1, StirredIs, ProceedDoes
  <2>3. stalled' \in [Remotes -> 0..StalledLimit]
    <3>1. 0 \in 0..StalledLimit
      BY HealthAssumption
    <3>2. stalled \in [Remotes -> 0..StalledLimit]
      BY <1>3 DEF HealthTypeOK
    <3> HIDE DEF p
    <3>3. QED
      BY <2>1, <3>1, <3>2
  <2>4. /\ failed' \subseteq Remotes /\ idle' \subseteq idle
        /\ running => known \ (healthy \cup {p}) \subseteq failed' \cap silent
        /\ healthy \cup {p} \in SUBSET known
    BY <1>2, <1>3, <1>5, <2>1 DEF HealthIInv, HealthTypeOK, UnhealthyFailedLast
  <2>5. QED
    BY <1>1, <1>3, <2>2, <2>3, <2>4, GoingOnKeeps
<1>6. QED
  BY <1>4, <1>5

LEMMA PingFailsKeeps ==
    ASSUME HealthIInv, NEW c \in Checks, PingFails(c)
    PROVE  HealthIInv'
<1> DEFINE p == at[c]
<1>1. /\ awaits[c] = "ping" /\ orphaned' = orphaned \ {c} /\ running' = running
      /\ open' = open /\ alive' = alive /\ deaths' = deaths /\ hangingUp' = hangingUp
      /\ idle' = idle /\ goal' = goal /\ silent' = silent
      /\ Proceed(c, left[c], saw, known, healthy)
  BY DEF PingFails, worldVars
<1>2. p \in Remotes
  BY <1>1, AwaitsRemote
<1>3. left[c] \in SUBSET Remotes /\ saw \in [Checks -> SUBSET Remotes] /\ open \subseteq Remotes
      /\ known \subseteq Remotes /\ healthy \subseteq known /\ HealthTypeOK
  BY DEF HealthIInv, HealthTypeOK
<1>4. Proceeded(c, known, healthy)
  BY <1>1, <1>3, ProceedDoes
<1>5. /\ failed' \in {failed, failed \cup {p}}
      /\ stalled' \in {stalled, [stalled EXCEPT ![p] = Counted(p)]}
  BY DEF PingFails
<1>6. stalled' \in [Remotes -> 0..StalledLimit]
  BY <1>2, <1>3, <1>5, CountedCounts DEF HealthTypeOK
<1>7. failed' \subseteq Remotes /\ (running => known \ healthy \subseteq failed' \cap silent)
  BY <1>2, <1>5 DEF HealthIInv, HealthTypeOK, UnhealthyFailedLast
<1>8. QED
  BY <1>1, <1>3, <1>4, <1>6, <1>7, GoingOnKeeps

LEMMA PingCondemnsKeeps ==
    ASSUME HealthIInv, NEW c \in Checks, PingCondemns(c)
    PROVE  HealthIInv'
<1> DEFINE p == at[c]
<1>1. /\ awaits[c] = "ping" /\ awaits' = [awaits EXCEPT ![c] = "hangUp"]
      /\ running' = running /\ known' = known /\ idle' = idle /\ left' = left
      /\ saw' = [saw EXCEPT ![c] = @ \cap left[c]] /\ at' = at
      /\ orphaned' = orphaned \ {c} /\ unsure' = unsure \ {c}
      /\ open' = open /\ alive' = alive /\ deaths' = deaths /\ hangingUp' = hangingUp
      /\ goal' = goal /\ silent' = silent /\ (c \in unsure \/ ~running)
  BY DEF PingCondemns, worldVars
<1>2. p \in Remotes /\ (running => p \in silent)
  BY <1>1, AwaitsRemote DEF HealthIInv, PingsWhatIsKnown
<1>3. \/ healthy' = healthy /\ failed' = failed /\ stalled' = stalled
      \/ /\ healthy' = healthy \ {p} /\ failed' = failed \cup {p}
         /\ stalled' = [stalled EXCEPT ![p] = Counted(p)]
  BY DEF PingCondemns
<1>4. stalled' \in [Remotes -> 0..StalledLimit] /\ saw' \in [Checks -> SUBSET Remotes]
  BY <1>1, <1>2, <1>3, CountedCounts DEF HealthIInv, HealthTypeOK
<1>5. /\ awaits' \in [Checks -> {"none", "ping", "hangUp"}]
      /\ awaits'[c] = "hangUp" /\ \A d \in Checks \ {c} : awaits'[d] = awaits[d]
  BY <1>1 DEF HealthIInv, HealthTypeOK
<1>6. HealthTypeOK'
  BY <1>1, <1>2, <1>3, <1>4, <1>5 DEF HealthIInv, HealthTypeOK
<1>7. PingsWhatIsKnown' /\ DeadIsSilent'
  BY <1>1, <1>5 DEF HealthIInv, PingsWhatIsKnown, DeadIsSilent
<1>8. UnhealthyFailedLast'
  BY <1>1, <1>2, <1>3, <1>5 DEF HealthIInv, UnhealthyFailedLast
<1>9. QED
  BY <1>6, <1>7, <1>8 DEF HealthIInv

LEMMA HangUpEndsKeeps ==
    ASSUME HealthIInv, NEW c \in Checks, NEW closed \in BOOLEAN, HangUpEnds(c, closed)
    PROVE  HealthIInv'
<1>1. /\ awaits[c] = "hangUp" /\ orphaned' = orphaned /\ running' = running
      /\ alive' = alive /\ deaths' = deaths /\ hangingUp' = hangingUp
      /\ idle' = idle /\ stalled' = stalled /\ failed' = failed
      /\ goal' = goal /\ silent' = silent /\ open' \subseteq open
      /\ Proceed(c, left[c], saw, known, healthy)
  BY DEF HangUpEnds, pastVars
<1>2. left[c] \in SUBSET Remotes /\ saw \in [Checks -> SUBSET Remotes] /\ open \subseteq Remotes
      /\ known \subseteq Remotes /\ healthy \subseteq known /\ HealthTypeOK
  BY DEF HealthIInv, HealthTypeOK
<1>3. Proceeded(c, known, healthy)
  BY <1>1, <1>2, ProceedDoes
<1>4. /\ failed' \subseteq Remotes
      /\ stalled' \in [Remotes -> 0..StalledLimit]
      /\ running => known \ healthy \subseteq failed' \cap silent
  BY <1>1 DEF HealthIInv, HealthTypeOK, UnhealthyFailedLast
<1>5. QED
  BY <1>1, <1>2, <1>3, <1>4, GoingOnKeeps

LEMMA CheckStartsKeeps ==
    ASSUME HealthIInv, NEW c \in Checks, CheckStarts(c)
    PROVE  HealthIInv'
<1> DEFINE sees == [saw EXCEPT ![c] = idle]
<1>1. /\ awaits[c] = "none" /\ running' = running /\ orphaned' = orphaned
      /\ alive' = alive /\ deaths' = deaths /\ hangingUp' = hangingUp /\ open' = open
      /\ idle' = idle /\ stalled' = stalled /\ failed' = failed
      /\ goal' = goal /\ silent' = silent
      /\ Proceed(c, open, sees, known, healthy)
  BY DEF CheckStarts, worldVars, pastVars
<1>2. /\ open \in SUBSET Remotes /\ idle \in SUBSET Remotes
      /\ known \in SUBSET Remotes /\ healthy \in SUBSET known /\ HealthTypeOK
  BY DEF HealthIInv, HealthTypeOK
<1>3. sees \in [Checks -> SUBSET Remotes]
  BY <1>2 DEF HealthTypeOK
<1> HIDE DEF sees
<1>4. Proceeded(c, known, healthy)
  BY <1>1, <1>2, <1>3, ProceedDoes
<1>5. /\ failed' \subseteq Remotes
      /\ stalled' \in [Remotes -> 0..StalledLimit]
      /\ running => known \ healthy \subseteq failed' \cap silent
  BY <1>1 DEF HealthIInv, HealthTypeOK, UnhealthyFailedLast
<1>6. QED
  BY <1>1, <1>2, <1>4, <1>5, GoingOnKeeps

(* A step of the world, or one that ends or begins a hang-up or a          *)
(* transmission, leaves the entries alone.                                 *)
LEMMA WorldKeeps ==
    ASSUME HealthIInv, NEW p \in Remotes,
           \/ ConnectionOpens(p) \/ RemoteRecovers(p) \/ BecomesIdle(p)
           \/ HangUpUnhealthyPeer(p) \/ TransmitDialsInVain(p)
           \/ \E t \in Transmissions : TransmitStarts(t, p)
    PROVE  HealthIInv'
<1>1. /\ running' = running /\ known' = known /\ healthy' = healthy
      /\ stalled' = stalled /\ checkVars' = checkVars /\ pastVars' = pastVars
      /\ open' \subseteq Remotes /\ alive \subseteq alive' /\ alive' \subseteq Remotes
      /\ hangingUp' \subseteq Remotes /\ idle' \subseteq known /\ deaths' = deaths
  BY DEF ConnectionOpens, RemoteRecovers, BecomesIdle, TransmitDialsInVain,
         TransmitStarts, HangUpUnhealthyPeer, HealthIInv, HealthTypeOK, entryVars,
         worldVars
<1>2. goal' \in [Transmissions -> Remotes \cup {NoRemote}]
  BY DEF ConnectionOpens, RemoteRecovers, BecomesIdle, TransmitDialsInVain,
         TransmitStarts, HangUpUnhealthyPeer, HealthIInv, HealthTypeOK
<1>3. HealthTypeOK'
  BY <1>1, <1>2 DEF HealthIInv, HealthTypeOK, checkVars, pastVars
<1>4. PingsWhatIsKnown' /\ DeadIsSilent' /\ UnhealthyFailedLast'
  BY <1>1 DEF HealthIInv, PingsWhatIsKnown, DeadIsSilent, UnhealthyFailedLast,
              checkVars, pastVars
<1>5. QED
  BY <1>3, <1>4 DEF HealthIInv

LEMMA RemoteDiesKeeps ==
    ASSUME HealthIInv, NEW p \in Remotes, RemoteDies(p)
    PROVE  HealthIInv'
<1>1. /\ deaths < MaxDeaths /\ deaths' = deaths + 1 /\ deaths \in 0..MaxDeaths
      /\ alive' = alive \ {p} /\ silent' = silent \cup {p} /\ failed' = failed
      /\ unsure' = unsure \cup {c \in Checks : at[c] = p /\ awaits[c] = "ping"}
      /\ UNCHANGED <<running, known, healthy, stalled, idle, goal, left, saw, at,
                     awaits, orphaned, open, hangingUp>>
  BY DEF RemoteDies, entryVars, HealthIInv, HealthTypeOK
<1>2. deaths' \in 0..MaxDeaths
  BY <1>1, HealthAssumption
<1>3. HealthTypeOK'
  BY <1>1, <1>2 DEF HealthIInv, HealthTypeOK
<1>4. PingsWhatIsKnown' /\ DeadIsSilent' /\ UnhealthyFailedLast'
  BY <1>1 DEF HealthIInv, PingsWhatIsKnown, DeadIsSilent, UnhealthyFailedLast
<1>5. QED
  BY <1>3, <1>4 DEF HealthIInv

LEMMA TransmitEndsKeeps ==
    ASSUME HealthIInv, NEW t \in Transmissions,
           TransmitEnds(t) \/ \E closed \in BOOLEAN : TransmitFails(t, closed)
    PROVE  HealthIInv'
<1> DEFINE p == goal[t]
<1>1. /\ goal[t] # NoRemote /\ goal' = [goal EXCEPT ![t] = NoRemote]
      /\ UNCHANGED <<running, known, left, at, awaits, orphaned, unsure, alive,
                     deaths, hangingUp, silent>>
  BY DEF TransmitEnds, TransmitFails, worldVars, entryVars, checkVars, pastVars
<1>2. p \in Remotes /\ goal' \in [Transmissions -> Remotes \cup {NoRemote}]
  BY <1>1 DEF HealthIInv, HealthTypeOK
<1>3. /\ open' \subseteq Remotes
      /\ \/ UNCHANGED <<healthy, stalled, idle, saw, failed>>
         \/ /\ p \in known /\ healthy' = healthy \cup {p}
            /\ stalled' = [stalled EXCEPT ![p] = 0] /\ idle' = idle \ {p}
            /\ saw' = Stirred(p) /\ failed' = failed \ {p}
  BY DEF TransmitEnds, TransmitFails, Refresh, Stir, worldVars, entryVars,
         checkVars, pastVars, HealthIInv, HealthTypeOK
<1> HIDE DEF p
<1>4. stalled' \in [Remotes -> 0..StalledLimit] /\ saw' \in [Checks -> SUBSET Remotes]
  BY <1>2, <1>3, StirredIs, HealthAssumption DEF HealthIInv, HealthTypeOK
<1>5. HealthTypeOK'
  BY <1>1, <1>2, <1>3, <1>4 DEF HealthIInv, HealthTypeOK
<1>6. PingsWhatIsKnown' /\ DeadIsSilent' /\ UnhealthyFailedLast'
  BY <1>1, <1>3 DEF HealthIInv, PingsWhatIsKnown, DeadIsSilent, UnhealthyFailedLast
<1>7. QED
  BY <1>5, <1>6 DEF HealthIInv

LEMMA HungUpKeeps ==
    ASSUME HealthIInv, NEW p \in Remotes, NEW closed \in BOOLEAN, HungUp(p, closed)
    PROVE  HealthIInv'
<1>1. /\ hangingUp' = hangingUp \ {p} /\ running' = running /\ left' = left
      /\ at' = at /\ awaits' = awaits /\ alive' = alive /\ deaths' = deaths
      /\ goal' = goal /\ unsure' = unsure /\ silent' = silent
  BY DEF HungUp
<1>2. CASE ~closed
  <2>1. UNCHANGED <<open, known, healthy, stalled, idle, saw, orphaned, failed>>
    BY <1>2 DEF HungUp, entryVars
  <2>2. HealthTypeOK'
    BY <1>1, <2>1 DEF HealthIInv, HealthTypeOK
  <2>3. PingsWhatIsKnown' /\ DeadIsSilent' /\ UnhealthyFailedLast'
    BY <1>1, <2>1 DEF HealthIInv, PingsWhatIsKnown, DeadIsSilent, UnhealthyFailedLast
  <2>4. QED
    BY <2>2, <2>3 DEF HealthIInv
<1>3. CASE closed
  <2>1. /\ open' = open \ {p} /\ known' = known \ {p} /\ healthy' = healthy \ {p}
        /\ stalled' = [stalled EXCEPT ![p] = 0] /\ idle' = idle \ {p}
        /\ saw' = Stirred(p) /\ failed' = failed \ {p}
        /\ orphaned' = orphaned \cup {c \in Checks : at[c] = p /\ awaits[c] = "ping"}
    BY <1>3 DEF HungUp, Forget, Stir
  <2>2. stalled' \in [Remotes -> 0..StalledLimit]
    BY <2>1, HealthAssumption DEF HealthIInv, HealthTypeOK
  <2>3. saw' \in [Checks -> SUBSET Remotes]
    BY <2>1, StirredIs DEF HealthIInv
  <2>4. HealthTypeOK'
    BY <1>1, <2>1, <2>2, <2>3 DEF HealthIInv, HealthTypeOK
  <2>5. PingsWhatIsKnown' /\ DeadIsSilent' /\ UnhealthyFailedLast'
    BY <1>1, <2>1 DEF HealthIInv, PingsWhatIsKnown, DeadIsSilent, UnhealthyFailedLast
  <2>6. QED
    BY <2>4, <2>5 DEF HealthIInv
<1>4. QED
  BY <1>2, <1>3

LEMMA StopKeeps ==
    ASSUME HealthIInv, Stop
    PROVE  HealthIInv'
<1>1. /\ running' = FALSE /\ known' = {} /\ healthy' = {} /\ idle' = {} /\ open' = {}
      /\ stalled' = [p \in Remotes |-> 0] /\ saw' = [c \in Checks |-> {}]
      /\ orphaned' = {c \in Checks : awaits[c] = "ping"} /\ failed' = {}
      /\ left' = left /\ at' = at /\ awaits' = awaits /\ alive' = alive
      /\ deaths' = deaths /\ hangingUp' = hangingUp /\ goal' = goal
      /\ unsure' = unsure /\ silent' = silent
  BY DEF Stop
<1>2. /\ stalled' \in [Remotes -> 0..StalledLimit]
      /\ saw' \in [Checks -> SUBSET Remotes]
  BY <1>1, HealthAssumption
<1>3. HealthTypeOK'
  BY <1>1, <1>2 DEF HealthIInv, HealthTypeOK
<1>4. PingsWhatIsKnown' /\ DeadIsSilent' /\ UnhealthyFailedLast'
  BY <1>1 DEF HealthIInv, PingsWhatIsKnown, DeadIsSilent, UnhealthyFailedLast
<1>5. QED
  BY <1>3, <1>4 DEF HealthIInv

LEMMA HealthStepKeeps == HealthIInv /\ [HealthNext]_healthVars => HealthIInv'
<1> SUFFICES ASSUME HealthIInv, [HealthNext]_healthVars PROVE HealthIInv'
  OBVIOUS
<1>1. CASE UNCHANGED healthVars
  BY <1>1 DEF healthVars, entryVars, checkVars, worldVars, pastVars, HealthIInv,
              HealthTypeOK, PingsWhatIsKnown, DeadIsSilent, UnhealthyFailedLast
<1>2. CASE HealthNext
  <2>1. ASSUME NEW p \in Remotes,
               \/ ConnectionOpens(p) \/ RemoteDies(p) \/ RemoteRecovers(p)
               \/ BecomesIdle(p) \/ HangUpUnhealthyPeer(p) \/ TransmitDialsInVain(p)
               \/ \E t \in Transmissions : TransmitStarts(t, p)
        PROVE  HealthIInv'
    BY <2>1, WorldKeeps, RemoteDiesKeeps
  <2>2. ASSUME NEW c \in Checks,
               \/ CheckStarts(c) \/ Goes(c)
               \/ \E closed \in BOOLEAN : HangUpEnds(c, closed)
        PROVE  HealthIInv'
    BY <2>2, CheckStartsKeeps, PingAnsweredKeeps, PingFailsKeeps, PingCondemnsKeeps,
       HangUpEndsKeeps DEF Goes
  <2>3. QED
    BY <1>2, <2>1, <2>2, TransmitEndsKeeps, HungUpKeeps, StopKeeps DEF HealthNext, Timer
<1>3. QED
  BY <1>1, <1>2

(* While the monitor of NetworkModule.ts runs, an entry is unhealthy only  *)
(* if the latest recorded in it is a failed ping, and no check hangs up a  *)
(* peer that has answered all along, whichever checks, hang-ups and        *)
(* transmissions overlap.                                                  *)
THEOREM HealthCorrect == HealthSpec => []UnhealthyFailedLast
<1>1. HealthIInv => UnhealthyFailedLast
  BY DEF HealthIInv
<1>2. QED
  BY InitHealthIInv, HealthStepKeeps, <1>1, PTL DEF HealthSpec

-----------------------------------------------------------------------------
(* Routing: table and buckets keep in step.                                *)

(* Every peer belongs to one of the buckets: the distance of two ids is at *)
(* least one of its bits, or the last bucket takes it                      *)
(* (getBucketIdForPeer).                                                   *)
LEMMA BucketIsThere ==
    ASSUME NEW p
    PROVE  GetBucketIdForPeer(p) \in Buckets
<1> USE RoutingAssumption
<1> DEFINE differ == {i \in 1..Bits : p[i] # SelfId[i]}
<1>1. CASE ~IsHex(p) \/ ~IsHex(SelfId) \/ differ = {}
  BY <1>1 DEF GetBucketIdForPeer, Buckets
<1>2. CASE IsHex(p) /\ IsHex(SelfId) /\ differ # {}
  <2>1. PICK i \in differ : TRUE
    BY <1>2
  <2>2. differ \subseteq Nat
    OBVIOUS
  <2>3. \E n \in differ : \A m \in differ : n <= m
    <3> DEFINE less == {ss \in Nat \X Nat : ss[1] < ss[2]}
    <3>1. IsWellFoundedOn(less, Nat)
      BY NatLessThanWellFounded DEF OpToRel
    <3>2. PICK n \in differ : \A m \in differ : ~(<<m, n>> \in less)
      <4> HIDE DEF less
      <4>1. QED
        BY <2>1, <2>2, <3>1, WFMin
    <3>3. ASSUME NEW m \in differ PROVE n <= m
      <4>1. m \in Nat /\ n \in Nat
        BY <2>2
      <4>2. ~(m < n)
        BY <3>2, <4>1
      <4>3. QED
        BY <4>1, <4>2
    <3>4. QED
      BY <3>3
  <2>4. (CHOOSE n \in differ : \A m \in differ : n <= m) \in differ
    BY <2>3
  <2>5. QED
    BY <1>2, <2>4 DEF GetBucketIdForPeer, Buckets
<1>3. QED
  BY <1>1, <1>2

-----------------------------------------------------------------------------
(* The inductive invariant: the type invariant and the property itself.    *)
(* The times of table and buckets do not matter, which is why the two      *)
(* cleanups may go by either.                                              *)
RoutingIInv == RoutingTypeOK /\ BucketsMatchTable

(* Both sides are empty.                                                   *)
LEMMA InitRoutingIInv == RoutingInit => RoutingIInv
BY RoutingAssumption
   DEF RoutingInit, RoutingIInv, RoutingTypeOK, BucketsMatchTable

(* The types: an entry is put into the table and into a bucket, ...        *)
LEMMA PutTypes ==
    ASSUME RoutingTypeOK, NEW p \in RoutePeers, NEW isAvailable \in BOOLEAN,
           AddPeerToRoutingTable(p, isAvailable)
            \/ UpdateRoutingTableEntry(p, isAvailable)
    PROVE  RoutingTypeOK'
<1>0. PutInTable(p, isAvailable)
  BY DEF AddPeerToRoutingTable, UpdateRoutingTableEntry
<1>1. table' \subseteq RoutePeers /\ available' \subseteq table'
  BY <1>0 DEF PutInTable, RoutingTypeOK
<1>2. 0 \in 0..Stale
  BY RoutingAssumption
<1>3. seen' \in [RoutePeers -> 0..Stale]
  BY <1>0, <1>2 DEF PutInTable, RoutingTypeOK
<1>4. bucketSeen' = bucketSeen \/ bucketSeen' = [bucketSeen EXCEPT ![p] = 0]
  BY DEF AddPeerToRoutingTable, UpdateRoutingTableEntry
<1>5. bucketSeen' \in [RoutePeers -> 0..Stale]
  BY <1>2, <1>4 DEF RoutingTypeOK
<1>6. bucket' \in [Buckets -> SUBSET RoutePeers]
  BY DEF AddPeerToRoutingTable, UpdateRoutingTableEntry, RoutingTypeOK
<1>7. QED
  BY <1>1, <1>3, <1>5, <1>6 DEF RoutingTypeOK

(* ... removed from both, ...                                              *)
LEMMA RemoveTypes ==
    ASSUME RoutingTypeOK, NEW ps, Remove(ps)
    PROVE  RoutingTypeOK'
<1>1. 0 \in 0..Stale
  BY RoutingAssumption
<1>2. /\ seen' \in [RoutePeers -> 0..Stale]
      /\ bucketSeen' \in [RoutePeers -> 0..Stale]
  BY <1>1 DEF Remove, RoutingTypeOK
<1>3. QED
  BY <1>2 DEF Remove, FromBuckets, RoutingTypeOK

(* ... or grows older, up to Stale.                                        *)
LEMMA OlderTypes ==
    ASSUME NEW times \in [RoutePeers -> 0..Stale]
    PROVE  Older(times) \in [RoutePeers -> 0..Stale]
<1>1. ASSUME NEW t \in 0..Stale, t < Stale PROVE t + 1 \in 0..Stale
  BY <1>1, RoutingAssumption
<1>2. QED
  BY <1>1 DEF Older

(* A peer that is added to the table is added to its bucket.               *)
LEMMA AddKeeps ==
    ASSUME RoutingIInv, NEW p \in RoutePeers, NEW isAvailable \in BOOLEAN,
           AddPeerToRoutingTable(p, isAvailable)
    PROVE  BucketsMatchTable'
<1> DEFINE b0 == GetBucketIdForPeer(p)
<1>1. table' = table \cup {p} /\ bucket' = [bucket EXCEPT ![b0] = @ \cup {p}]
  BY DEF AddPeerToRoutingTable, PutInTable
<1>2. bucket \in [Buckets -> SUBSET RoutePeers]
  BY DEF RoutingIInv, RoutingTypeOK
<1>3. ASSUME NEW b \in Buckets
      PROVE  bucket'[b] = {q \in table' : GetBucketIdForPeer(q) = b}
  <2>1. bucket[b] = {q \in table : GetBucketIdForPeer(q) = b}
    BY DEF RoutingIInv, BucketsMatchTable
  <2>2. CASE b = b0
    BY <1>1, <1>2, <2>1, <2>2
  <2>3. CASE b # b0
    BY <1>1, <1>2, <2>1, <2>3
  <2>4. QED
    BY <2>2, <2>3
<1>4. QED
  BY <1>3 DEF BucketsMatchTable

(* An update is of a peer that is in the table and so in its bucket.       *)
LEMMA UpdateKeeps ==
    ASSUME RoutingIInv, NEW p \in RoutePeers, NEW isAvailable \in BOOLEAN,
           UpdateRoutingTableEntry(p, isAvailable)
    PROVE  BucketsMatchTable'
<1>1. table' = table /\ bucket' = bucket
  BY DEF UpdateRoutingTableEntry, PutInTable
<1>2. QED
  BY <1>1 DEF RoutingIInv, BucketsMatchTable

(* Peers are removed from the table and from whatever bucket they are in,  *)
(* by whichever of the two sides they were chosen.                         *)
LEMMA RemoveKeeps ==
    ASSUME RoutingIInv, NEW ps, Remove(ps)
    PROVE  BucketsMatchTable'
<1>1. table' = table \ ps /\ bucket' = [b \in Buckets |-> bucket[b] \ ps]
  BY DEF Remove, FromBuckets
<1>2. ASSUME NEW b \in Buckets
      PROVE  bucket'[b] = {q \in table' : GetBucketIdForPeer(q) = b}
  <2>1. bucket[b] = {q \in table : GetBucketIdForPeer(q) = b}
    BY DEF RoutingIInv, BucketsMatchTable
  <2>2. QED
    BY <1>1, <2>1
<1>3. QED
  BY <1>2 DEF BucketsMatchTable

LEMMA RoutingStepKeeps == RoutingIInv /\ [RoutingNext]_routeVars => RoutingIInv'
<1> SUFFICES ASSUME RoutingIInv, [RoutingNext]_routeVars PROVE RoutingIInv'
  OBVIOUS
<1>0. RoutingTypeOK
  BY DEF RoutingIInv
<1>1. ASSUME NEW p \in RoutePeers, NEW isAvailable \in BOOLEAN,
             \/ AddPeerToRoutingTable(p, isAvailable)
             \/ UpdateRoutingTableEntry(p, isAvailable)
      PROVE  RoutingIInv'
  BY <1>0, <1>1, AddKeeps, UpdateKeeps, PutTypes DEF RoutingIInv
<1>2. ASSUME NEW ps, Remove(ps) PROVE RoutingIInv'
  BY <1>0, <1>2, RemoveKeeps, RemoveTypes DEF RoutingIInv
<1>3. ASSUME NEW p \in RoutePeers, RemovePeerFromRoutingTable(p) PROVE RoutingIInv'
  BY <1>2, <1>3 DEF RemovePeerFromRoutingTable
<1>4. CASE CleanupStaleEntries
  BY <1>2, <1>4 DEF CleanupStaleEntries
<1>5. CASE OptimizeBuckets
  BY <1>2, <1>5 DEF OptimizeBuckets
<1>6. CASE TimePasses
  <2>1. /\ seen' \in [RoutePeers -> 0..Stale]
        /\ bucketSeen' \in [RoutePeers -> 0..Stale]
    BY <1>0, <1>6, OlderTypes DEF TimePasses, RoutingTypeOK
  <2>2. QED
    BY <1>6, <2>1 DEF TimePasses, RoutingIInv, RoutingTypeOK, BucketsMatchTable
<1>7. CASE UNCHANGED routeVars
  BY <1>7 DEF routeVars, RoutingIInv, RoutingTypeOK, BucketsMatchTable
<1>8. QED
  BY <1>1, <1>3, <1>4, <1>5, <1>6, <1>7 DEF RoutingNext

-----------------------------------------------------------------------------
(* Every bucket holds the peers of the routing table that belong in it and *)
(* no other, after any sequence of additions, updates, removals and the    *)
(* two cleanups (RoutingModule).                                           *)
THEOREM BucketsCorrect == RoutingSpec => []BucketsMatchTable
<1>1. RoutingIInv => BucketsMatchTable
  BY DEF RoutingIInv
<1>2. QED
  BY <1>1, InitRoutingIInv, RoutingStepKeeps, PTL DEF RoutingSpec

(* Every peer of the table is in a bucket, and every peer of a bucket in   *)
(* the table: neither side keeps one the other has forgotten.              *)
THEOREM SamePeers == RoutingSpec => [](InBuckets = table)
<1>1. ASSUME RoutingIInv PROVE InBuckets = table
  <2>1. InBuckets \subseteq table
    BY <1>1 DEF RoutingIInv, RoutingTypeOK, BucketsMatchTable, InBuckets
  <2>2. ASSUME NEW p \in table PROVE p \in InBuckets
    <3>1. GetBucketIdForPeer(p) \in Buckets
      BY BucketIsThere
    <3>2. p \in bucket[GetBucketIdForPeer(p)]
      BY <1>1, <3>1 DEF RoutingIInv, BucketsMatchTable
    <3>3. QED
      BY <3>1, <3>2 DEF InBuckets
  <2>3. QED
    BY <2>1, <2>2
<1>2. QED
  BY <1>1, InitRoutingIInv, RoutingStepKeeps, PTL DEF RoutingSpec

-----------------------------------------------------------------------------
(* Gossip: the nodes an announcement has touched are spanned by a tree of  *)
(* links, so on a forest no link leads from one of them to another but     *)
(* those of the tree.                                                      *)

Touched == {origin} \cup {n \in RouteNodes : received[n] > 0}

(* The links E connect the nodes T without a cycle.                        *)
Spans(E, T) ==
    /\ E \subseteq links /\ UNION E \subseteq T
    /\ IsFiniteSet(E) /\ IsFiniteSet(T)
    /\ Cardinality(T) = Cardinality(E) + 1

(* Copies go from touched nodes to others, one to each.                    *)
OneToEach ==
    /\ \A h \in Hops : copies[h] > 0 =>
        copies[h] = 1 /\ {h[1], h[2]} \in links /\ h[1] \in Touched /\ h[2] \notin Touched
    /\ \A g, h \in Hops : copies[g] > 0 /\ copies[h] > 0 /\ g[2] = h[2] => g = h

HeardOnce == received[origin] = 0 /\ \A n \in RouteNodes : received[n] <= 1

SpreadsAsTree == Forest => HeardOnce /\ OneToEach /\ \E E : Spans(E, Touched)

(* What n sent it is on its way or received, unless some was lost; the     *)
(* sender of a copy need not have one back.                                *)
HasSent(n) == (n = origin /\ announced) \/ received[n] > 0

SendersHave == valid => \A h \in Hops : copies[h] > 0 => h[1] = origin \/ received[h[1]] > 0

SentArrives ==
    valid /\ lost = 0 =>
        \A h \in Hops :
            {h[1], h[2]} \in links /\ h[2] # origin /\ HasSent(h[1])
                => received[h[2]] > 0 \/ copies[h] > 0

HeardIsNoted == valid => \A n \in RouteNodes : received[n] > 0 => origin \in routes[n]

Unannounced ==
    ~announced =>
        (\A h \in Hops : copies[h] = 0) /\ \A n \in RouteNodes : received[n] = 0

GossipIInv ==
    /\ GossipTypeOK
    /\ Unannounced
    /\ SpreadsAsTree
    /\ SendersHave /\ SentArrives /\ HeardIsNoted

-----------------------------------------------------------------------------
LEMMA SpanOfOne == ASSUME NEW n PROVE Spans({}, {n})
<1>1. IsFiniteSet({}) /\ Cardinality({}) = 0
  BY FS_EmptySet
<1>2. IsFiniteSet({} \cup {n}) /\ Cardinality({} \cup {n}) = 1
  BY <1>1, FS_AddElement
<1>3. {} \cup {n} = {n}
  OBVIOUS
<1>4. QED
  BY <1>1, <1>2, <1>3 DEF Spans

(* A link to a node outside prolongs the tree.                             *)
LEMMA SpanGrows ==
    ASSUME NEW E, NEW T, Spans(E, T), NEW a \in T, NEW n, n \notin T, {a, n} \in links
    PROVE  Spans(E \cup {{a, n}}, T \cup {n}) /\ {a, n} \notin E
<1>1. {a, n} \notin E
  BY DEF Spans
<1>2. /\ IsFiniteSet(E \cup {{a, n}})
      /\ Cardinality(E \cup {{a, n}}) = Cardinality(E) + 1
  BY <1>1, FS_AddElement DEF Spans
<1>3. IsFiniteSet(T \cup {n}) /\ Cardinality(T \cup {n}) = Cardinality(T) + 1
  BY FS_AddElement DEF Spans
<1>4. E \cup {{a, n}} \subseteq links /\ UNION (E \cup {{a, n}}) \subseteq T \cup {n}
  BY DEF Spans
<1>5. QED
  BY <1>1, <1>2, <1>3, <1>4 DEF Spans

(* On a forest every link between its nodes is one of the tree.            *)
LEMMA SpanIsAll ==
    ASSUME Forest, NEW E, NEW T, Spans(E, T), NEW e \in links, e \subseteq T
    PROVE  e \in E
<1> SUFFICES ASSUME e \notin E PROVE FALSE
  OBVIOUS
<1> DEFINE s == E \cup {e}
<1>1. IsFiniteSet(s) /\ Cardinality(s) = Cardinality(E) + 1
  BY FS_AddElement DEF Spans
<1>2. s \in SUBSET links /\ s # {} /\ UNION s \subseteq T
  BY DEF Spans
<1> HIDE DEF s
<1>3. Cardinality(UNION s) > Cardinality(s)
  BY <1>2 DEF Forest
<1>4. IsFiniteSet(UNION s) /\ Cardinality(UNION s) <= Cardinality(T)
  BY <1>2, FS_Subset DEF Spans
<1>5. /\ Cardinality(UNION s) \in Nat /\ Cardinality(s) \in Nat
      /\ Cardinality(T) = Cardinality(s)
  BY <1>1, <1>4, FS_CardinalityType DEF Spans
<1>6. QED
  BY <1>3, <1>4, <1>5

(* A hop is its two nodes.                                                 *)
LEMMA HopIs ==
    /\ \A h \in Hops : /\ h[1] \in RouteNodes /\ h[2] \in RouteNodes /\ h[1] # h[2]
                       /\ h = <<h[1], h[2]>> /\ h # <<>>
    /\ \A g, h \in Hops : g[1] = h[1] /\ g[2] = h[2] => g = h
BY DEF Hops

(* Where the origin or a node that has just been touched sends on, the     *)
(* nodes it sends to are untouched, and no copy is on its way to one.      *)
LEMMA SendsOutside ==
    ASSUME Forest, OneToEach, NEW E, Spans(E, Touched),
           NEW h \in Hops, copies[h] > 0, NEW m \in RouteNodes,
           m # h[1], m # h[2], {h[2], m} \in links
    PROVE  /\ m \notin Touched
           /\ \A g \in Hops : copies[g] > 0 => g[2] # m
<1> DEFINE T == Touched \cup {h[2]}
           F == E \cup {{h[1], h[2]}}
<1>1. h[1] \in Touched /\ h[2] \notin Touched /\ {h[1], h[2]} \in links
  BY DEF OneToEach
<1>2. Spans(F, T)
  BY <1>1, SpanGrows
<1>3. {h[2], m} \notin F
  <2>1. {h[2], m} \notin E
    BY <1>1 DEF Spans
  <2>2. {h[2], m} # {h[1], h[2]}
    OBVIOUS
  <2>3. QED
    BY <2>1, <2>2
<1> HIDE DEF F
<1>4. m \notin Touched
  BY <1>2, <1>3, SpanIsAll
<1>5. ASSUME NEW g \in Hops, copies[g] > 0, g[2] = m PROVE FALSE
  <2>1. g[1] \in Touched /\ {g[1], m} \in links /\ g[1] # h[2]
    BY <1>1, <1>5 DEF OneToEach
  <2>2. m \notin T /\ h[2] \in T
    BY <1>4
  <2>3. Spans(F \cup {{h[2], m}}, T \cup {m})
    BY <1>2, <2>2, SpanGrows
  <2>4. {g[1], m} \in F \cup {{h[2], m}}
    BY <2>1, <2>3, SpanIsAll
  <2>5. {g[1], m} # {h[2], m}
    BY <2>1
  <2>6. UNION F \subseteq T
    BY <1>2 DEF Spans
  <2>7. QED
    BY <2>2, <2>4, <2>5, <2>6
<1>6. QED
  BY <1>4, <1>5

-----------------------------------------------------------------------------
LEMMA InitGossipIInv == GossipInit => GossipIInv
<1> SUFFICES ASSUME GossipInit PROVE GossipIInv
  OBVIOUS
<1>1. /\ links \in Topologies /\ origin \in RouteNodes
      /\ valid \in BOOLEAN /\ announced = FALSE /\ lost = 0 /\ queries = 0
      /\ \A h \in Hops : copies[h] = 0
      /\ \A n \in RouteNodes : received[n] = 0
  BY DEF GossipInit
<1>2. copies \in [Hops -> Nat] /\ received \in [RouteNodes -> 0..MaxHeard]
  BY GossipAssumption DEF GossipInit
<1>3. routes \in [RouteNodes -> SUBSET RouteNodes]
  BY DEF GossipInit, Neighbours
<1>4. GossipTypeOK
  <2>1. lost \in 0..MaxLost /\ queries \in 0..MaxQueries
    BY <1>1, GossipAssumption
  <2>2. QED
    BY <1>1, <1>2, <1>3, <2>1 DEF GossipTypeOK
<1>5. Touched = {origin}
  BY <1>1 DEF Touched
<1>6. \E E : Spans(E, Touched)
  BY <1>5, SpanOfOne
<1>7. HeardOnce /\ OneToEach
  <2>1. HeardOnce
    BY <1>1 DEF HeardOnce
  <2>2. \A h \in Hops : ~(copies[h] > 0)
    BY <1>1
  <2>3. QED
    BY <2>1, <2>2 DEF OneToEach
<1>8. SendersHave /\ SentArrives /\ HeardIsNoted
  <2>1. \A h \in Hops : ~(copies[h] > 0) /\ ~HasSent(h[1])
    BY <1>1, HopIs DEF HasSent
  <2>2. \A n \in RouteNodes : ~(received[n] > 0)
    BY <1>1
  <2>3. QED
    BY <2>1, <2>2 DEF SendersHave, SentArrives, HeardIsNoted
<1>9. QED
  BY <1>1, <1>4, <1>6, <1>7, <1>8 DEF GossipIInv, SpreadsAsTree, Unannounced

(* What changes on the way when n sends to R and the copy on hop out goes. *)
LEMMA SentChanges ==
    ASSUME GossipTypeOK, NEW n \in RouteNodes, NEW R \in SUBSET RouteNodes, NEW out,
           out \in Hops => copies[out] > 0 /\ ~(out[1] = n /\ out[2] \in R),
           copies' = Sent(n, R, out)
    PROVE  /\ copies' \in [Hops -> Nat]
           /\ \A h \in Hops :
                /\ h # out /\ ~(h[1] = n /\ h[2] \in R) => copies'[h] = copies[h]
                /\ h[1] = n /\ h[2] \in R => copies'[h] = copies[h] + 1
                /\ h = out => copies'[h] = copies[h] - 1
<1>1. ASSUME NEW h \in Hops
      PROVE  copies'[h] = copies[h] + (IF h[1] = n /\ h[2] \in R THEN 1 ELSE 0)
                                    - (IF h = out THEN 1 ELSE 0)
  BY DEF Sent
<1>2. \A h \in Hops : copies[h] \in Nat
  BY DEF GossipTypeOK
<1>3. \A h \in Hops : copies'[h] \in Nat
  BY <1>1, <1>2
<1>4. copies' \in [Hops -> Nat]
  BY <1>3 DEF Sent
<1>5. QED
  BY <1>1, <1>2, <1>4

(* The type of the state after a step that sends, or takes a copy.         *)
LEMMA GossipTypeKeeps ==
    ASSUME GossipTypeOK, links' = links, origin' = origin, valid' = valid,
           announced' \in BOOLEAN, copies' \in [Hops -> Nat],
           routes' \in [RouteNodes -> SUBSET RouteNodes],
           received' \in [RouteNodes -> 0..MaxHeard],
           lost' \in 0..MaxLost, queries' \in 0..MaxQueries
    PROVE  GossipTypeOK'
BY DEF GossipTypeOK

LEMMA AnnounceKeeps == ASSUME GossipIInv, Announce PROVE GossipIInv'
<1>1. /\ ~announced /\ announced' = TRUE
      /\ copies' = Sent(origin, Neighbours(origin), <<>>)
      /\ links' = links /\ origin' = origin /\ valid' = valid /\ routes' = routes
      /\ received' = received /\ lost' = lost /\ queries' = queries
  BY DEF Announce
<1>2. GossipTypeOK /\ origin \in RouteNodes
  BY DEF GossipIInv, GossipTypeOK
<1>3. /\ \A h \in Hops : copies[h] = 0
      /\ \A n \in RouteNodes : received[n] = 0
  BY <1>1 DEF GossipIInv, Unannounced
<1>4. Neighbours(origin) \in SUBSET RouteNodes
  BY DEF Neighbours
<1>5. /\ copies' \in [Hops -> Nat]
      /\ \A h \in Hops :
            /\ ~(h[1] = origin /\ h[2] \in Neighbours(origin)) => copies'[h] = 0
            /\ h[1] = origin /\ h[2] \in Neighbours(origin) => copies'[h] = 1
  <2> DEFINE none == <<>>
  <2>1. none \notin Hops /\ copies' = Sent(origin, Neighbours(origin), none)
    BY <1>1, HopIs
  <2> HIDE DEF none
  <2>2. /\ copies' \in [Hops -> Nat]
        /\ \A h \in Hops :
              /\ h # none /\ ~(h[1] = origin /\ h[2] \in Neighbours(origin))
                    => copies'[h] = copies[h]
              /\ h[1] = origin /\ h[2] \in Neighbours(origin) => copies'[h] = copies[h] + 1
              /\ h = none => copies'[h] = copies[h] - 1
    BY <1>2, <1>4, <2>1, SentChanges
  <2>3. QED
    BY <1>3, <2>1, <2>2
<1>6. GossipTypeOK'
  BY <1>1, <1>2, <1>5, GossipTypeKeeps DEF GossipTypeOK
<1>7. Touched = {origin} /\ Touched' = Touched
  BY <1>1, <1>3 DEF Touched
<1>8. ASSUME NEW h \in Hops, copies'[h] > 0
      PROVE  copies'[h] = 1 /\ h[1] = origin /\ h[2] # origin /\ {h[1], h[2]} \in links
  <2>1. h[1] = origin /\ h[2] \in Neighbours(origin)
    BY <1>5, <1>8
  <2>2. QED
    BY <1>5, <2>1 DEF Neighbours
<1>9. OneToEach'
  <2>1. \A h \in Hops : copies'[h] > 0 =>
            /\ copies'[h] = 1 /\ {h[1], h[2]} \in links'
            /\ h[1] \in Touched' /\ h[2] \notin Touched'
    BY <1>1, <1>7, <1>8
  <2>2. \A g, h \in Hops : copies'[g] > 0 /\ copies'[h] > 0 /\ g[2] = h[2] => g = h
    <3>1. \A g, h \in Hops : copies'[g] > 0 /\ copies'[h] > 0 => g[1] = h[1]
      BY <1>8
    <3>2. QED
      BY <3>1, HopIs
  <2>3. QED
    BY <2>1, <2>2 DEF OneToEach
<1>10. SpreadsAsTree'
  BY <1>1, <1>7, <1>9 DEF GossipIInv, SpreadsAsTree, Forest, HeardOnce, Spans
<1>11. SendersHave'
  BY <1>1, <1>8 DEF SendersHave
<1>12. SentArrives'
  <2> SUFFICES ASSUME NEW h \in Hops, {h[1], h[2]} \in links, h[2] # origin,
                      HasSent(h[1])'
               PROVE  copies'[h] > 0
    BY <1>1 DEF SentArrives, HasSent
  <2>1. h[1] = origin
    BY <1>1, <1>3, HopIs DEF HasSent
  <2>2. h[2] \in Neighbours(origin)
    BY <2>1, HopIs DEF Neighbours
  <2>3. QED
    BY <1>5, <2>1, <2>2
<1>13. HeardIsNoted'
  BY <1>1, <1>3 DEF HeardIsNoted
<1>14. Unannounced'
  BY <1>1 DEF Unannounced
<1>15. QED
  BY <1>6, <1>10, <1>11, <1>12, <1>13, <1>14 DEF GossipIInv

(* What a copy that was taken makes of the nodes touched.                  *)
LEMMA TakenTouches ==
    ASSUME GossipTypeOK, NEW h \in Hops, origin' = origin,
           received' = [received EXCEPT ![h[2]] = @ + 1]
    PROVE  /\ received'[h[2]] = received[h[2]] + 1 /\ received'[h[2]] > 0
           /\ \A n \in RouteNodes : n # h[2] => received'[n] = received[n]
           /\ \A n \in RouteNodes : received[n] > 0 => received'[n] > 0
           /\ Touched' = Touched \cup {h[2]}
<1>1. h[2] \in RouteNodes
  BY HopIs
<1>2. \A n \in RouteNodes : received[n] \in Nat
  BY GossipAssumption DEF GossipTypeOK
<1>3. /\ received'[h[2]] = received[h[2]] + 1 /\ received'[h[2]] > 0
      /\ \A n \in RouteNodes : n # h[2] => received'[n] = received[n]
  BY <1>1, <1>2 DEF GossipTypeOK
<1>4. \A n \in RouteNodes : received[n] > 0 => received'[n] > 0
  BY <1>3
<1>5. Touched' = Touched \cup {h[2]}
  BY <1>1, <1>3, <1>4 DEF Touched
<1>6. QED
  BY <1>3, <1>4, <1>5

(* The part of a step that takes the copy on h, and on which its receiver  *)
(* sends to R, that both handlers share: the tree gets one more link.      *)
LEMMA TakenKeepsTree ==
    ASSUME GossipTypeOK, SpreadsAsTree, Forest,
           NEW h \in Hops, copies[h] > 0, NEW R \in SUBSET (Neighbours(h[2]) \ {h[1]}),
           received' = [received EXCEPT ![h[2]] = @ + 1],
           copies' = Sent(h[2], R, h), links' = links, origin' = origin
    PROVE  SpreadsAsTree'
<1> DEFINE n == h[2]
<1>1. HeardOnce /\ OneToEach /\ \E E : Spans(E, Touched)
  BY DEF SpreadsAsTree
<1>2. PICK E : Spans(E, Touched)
  BY <1>1
<1>3. /\ copies[h] = 1 /\ {h[1], n} \in links /\ h[1] \in Touched /\ n \notin Touched
      /\ h[1] \in RouteNodes /\ n \in RouteNodes /\ h[1] # n
  BY <1>1, HopIs DEF OneToEach
<1>4. received[n] = 0 /\ n # origin
  BY <1>3, GossipAssumption DEF Touched, GossipTypeOK
<1>5. /\ received'[n] = received[n] + 1
      /\ \A m \in RouteNodes : m # n => received'[m] = received[m]
      /\ Touched' = Touched \cup {n}
  BY TakenTouches
<1>6. HeardOnce'
  <2>1. origin \in RouteNodes
    BY DEF GossipTypeOK
  <2>2. \A m \in RouteNodes : received'[m] <= 1
    BY <1>1, <1>4, <1>5 DEF HeardOnce
  <2>3. QED
    BY <1>1, <1>4, <1>5, <2>1, <2>2 DEF HeardOnce
<1>7. \E F : Spans(F, Touched)'
  <2>1. Spans(E \cup {{h[1], n}}, Touched \cup {n})
    BY <1>2, <1>3, SpanGrows
  <2>2. QED
    BY <1>5, <2>1 DEF Spans
<1>8. \A g \in Hops :
        /\ g # h /\ ~(g[1] = n /\ g[2] \in R) => copies'[g] = copies[g]
        /\ g[1] = n /\ g[2] \in R => copies'[g] = copies[g] + 1
        /\ g = h => copies'[g] = copies[g] - 1
  <2>1. R \in SUBSET RouteNodes
    BY DEF Neighbours
  <2>2. QED
    BY <1>3, <2>1, SentChanges
<1>9. ASSUME NEW m \in R
      PROVE  /\ m \in RouteNodes /\ m # n /\ m # h[1] /\ {n, m} \in links
             /\ m \notin Touched /\ \A g \in Hops : copies[g] > 0 => g[2] # m
  <2>1. m \in RouteNodes /\ m # n /\ m # h[1] /\ {n, m} \in links
    BY DEF Neighbours
  <2>2. QED
    BY <1>1, <1>2, <2>1, SendsOutside
<1>10. ASSUME NEW g \in Hops, g[1] = n, g[2] \in R
       PROVE  copies'[g] = 1
  <2>1. copies[g] \in Nat /\ ~(copies[g] > 0)
    BY <1>9, <1>10 DEF GossipTypeOK
  <2>2. QED
    BY <1>8, <1>10, <2>1
<1>11. ASSUME NEW g \in Hops, copies'[g] > 0, ~(g[1] = n /\ g[2] \in R)
       PROVE  copies'[g] = copies[g] /\ g[2] # n
  <2>1. g # h
    BY <1>3, <1>8, <1>11
  <2>2. QED
    BY <1>1, <1>8, <1>11, <2>1 DEF OneToEach
<1>12. ASSUME NEW g \in Hops, copies'[g] > 0
       PROVE  /\ copies'[g] = 1 /\ {g[1], g[2]} \in links'
              /\ g[1] \in Touched' /\ g[2] \notin Touched'
  <2>1. CASE g[1] = n /\ g[2] \in R
    BY <1>5, <1>9, <1>10, <2>1
  <2>2. CASE ~(g[1] = n /\ g[2] \in R)
    BY <1>1, <1>5, <1>11, <1>12, <2>2 DEF OneToEach
  <2>3. QED
    BY <2>1, <2>2
<1>13. ASSUME NEW f \in Hops, NEW g \in Hops, copies'[f] > 0, copies'[g] > 0, f[2] = g[2]
       PROVE  f = g
  <2>1. CASE f[1] = n /\ f[2] \in R
    BY <1>9, <1>11, <1>13, <2>1, HopIs
  <2>2. CASE ~(f[1] = n /\ f[2] \in R)
    BY <1>1, <1>9, <1>11, <1>13, <2>2 DEF OneToEach
  <2>3. QED
    BY <2>1, <2>2
<1>14. OneToEach'
  BY <1>12, <1>13 DEF OneToEach
<1>15. QED
  BY <1>6, <1>7, <1>14 DEF SpreadsAsTree

LEMMA TreeStays ==
    ASSUME SpreadsAsTree, links' = links, origin' = origin, received' = received,
           \A h \in Hops : copies'[h] = copies[h] \/ copies'[h] = 0
                           \/ ~(copies'[h] > 0)
    PROVE  SpreadsAsTree'
<1>1. Touched' = Touched /\ (Forest' <=> Forest) /\ (HeardOnce' <=> HeardOnce)
  BY DEF Touched, Forest, HeardOnce
<1>2. \A h \in Hops : copies'[h] > 0 => copies'[h] = copies[h]
  OBVIOUS
<1>3. OneToEach => OneToEach'
  BY <1>1, <1>2 DEF OneToEach
<1>4. (\E E : Spans(E, Touched)) => \E E : Spans(E, Touched)'
  BY <1>1 DEF Spans
<1>5. QED
  BY <1>1, <1>3, <1>4 DEF SpreadsAsTree

LEMMA HandleRouteAnnounceKeeps ==
    ASSUME GossipIInv, NEW h \in Hops, HandleRouteAnnounce(h)
    PROVE  GossipIInv'
<1> DEFINE n == h[2]
           R == Receivers(n, h[1])
<1>1. /\ valid /\ copies[h] > 0 /\ received[n] < MaxHeard
      /\ received' = [received EXCEPT ![n] = @ + 1]
      /\ routes' = [routes EXCEPT ![n] = @ \cup {origin}]
      /\ copies' = Sent(n, R, h)
      /\ links' = links /\ origin' = origin /\ valid' = valid
      /\ announced' = announced /\ lost' = lost /\ queries' = queries
  BY DEF HandleRouteAnnounce
<1>2. /\ GossipTypeOK /\ h[1] \in RouteNodes /\ n \in RouteNodes /\ h[1] # n
      /\ origin \in RouteNodes
  BY HopIs DEF GossipIInv, GossipTypeOK
<1>3. R \in SUBSET RouteNodes /\ R \in SUBSET (Neighbours(n) \ {h[1]})
  BY DEF Receivers, Neighbours
<1>4. /\ copies' \in [Hops -> Nat]
      /\ \A g \in Hops :
            /\ g # h /\ ~(g[1] = n /\ g[2] \in R) => copies'[g] = copies[g]
            /\ g[1] = n /\ g[2] \in R => copies'[g] = copies[g] + 1
            /\ g = h => copies'[g] = copies[g] - 1
  BY <1>1, <1>2, <1>3, SentChanges
<1>5. /\ received'[n] = received[n] + 1 /\ received'[n] > 0
      /\ \A m \in RouteNodes : m # n => received'[m] = received[m]
      /\ \A m \in RouteNodes : received[m] > 0 => received'[m] > 0
  BY <1>1, <1>2, TakenTouches
<1>6. GossipTypeOK'
  <2>1. received[n] \in 0..MaxHeard
    BY <1>2 DEF GossipTypeOK
  <2>2. received[n] + 1 \in 0..MaxHeard
    BY <1>1, <2>1, GossipAssumption
  <2>3. received' \in [RouteNodes -> 0..MaxHeard]
    BY <1>1, <1>2, <2>2 DEF GossipTypeOK
  <2>4. routes' \in [RouteNodes -> SUBSET RouteNodes]
    BY <1>1, <1>2 DEF GossipTypeOK
  <2>5. QED
    BY <1>1, <1>2, <1>4, <2>3, <2>4, GossipTypeKeeps DEF GossipTypeOK
<1>7. SpreadsAsTree'
  <2>1. CASE Forest
    BY <1>1, <1>2, <1>3, <2>1, TakenKeepsTree DEF GossipIInv
  <2>2. CASE ~Forest
    BY <1>1, <2>2 DEF SpreadsAsTree, Forest
  <2>3. QED
    BY <2>1, <2>2
<1>8. \A g \in Hops : copies[g] \in Nat
  BY <1>2 DEF GossipTypeOK
<1>9. SendersHave'
  <2> SUFFICES ASSUME NEW g \in Hops, copies'[g] > 0
               PROVE  g[1] = origin \/ received'[g[1]] > 0
    BY <1>1 DEF SendersHave
  <2>1. CASE g[1] = n
    BY <1>5, <2>1
  <2>2. CASE g[1] # n
    <3>1. copies[g] > 0
      BY <1>1, <1>4, <1>8, <2>2
    <3>2. g[1] = origin \/ received[g[1]] > 0
      BY <1>1, <3>1 DEF GossipIInv, SendersHave
    <3>3. QED
      BY <1>5, <3>2, HopIs
  <2>3. QED
    BY <2>1, <2>2
<1>10. SentArrives'
  <2> SUFFICES ASSUME lost = 0, NEW g \in Hops, {g[1], g[2]} \in links, g[2] # origin,
                      HasSent(g[1])'
               PROVE  received'[g[2]] > 0 \/ copies'[g] > 0
    BY <1>1 DEF SentArrives, HasSent
  <2>1. CASE g[1] = n /\ g[2] = h[1]
    <3>1. received[h[1]] > 0
      BY <1>1, <2>1 DEF GossipIInv, SendersHave
    <3>2. QED
      BY <1>2, <1>5, <2>1, <3>1
  <2>2. CASE g[1] = n /\ g[2] # h[1]
    <3>1. g[2] \in R
      BY <2>2, HopIs DEF Receivers, Neighbours
    <3>2. QED
      BY <1>4, <1>8, <2>2, <3>1
  <2>3. CASE g[1] # n
    <3>1. HasSent(g[1])
      BY <1>1, <1>5, <2>3, HopIs DEF HasSent
    <3>2. received[g[2]] > 0 \/ copies[g] > 0
      BY <1>1, <3>1 DEF GossipIInv, SentArrives
    <3>3. CASE g = h
      BY <1>5, <3>3
    <3>4. CASE g # h
      BY <1>4, <1>5, <2>3, <3>2, <3>4, HopIs
    <3>5. QED
      BY <3>3, <3>4
  <2>4. QED
    BY <2>1, <2>2, <2>3
<1>11. HeardIsNoted'
  <2>1. \A m \in RouteNodes : received[m] > 0 => origin \in routes[m]
    BY <1>1 DEF GossipIInv, HeardIsNoted
  <2>2. \A m \in RouteNodes : /\ m # n => routes'[m] = routes[m]
                              /\ m = n => origin \in routes'[m]
    BY <1>1, <1>2 DEF GossipTypeOK
  <2>3. QED
    BY <1>1, <1>5, <2>1, <2>2 DEF HeardIsNoted
<1>12. Unannounced'
  <2>1. announced
    BY <1>1 DEF GossipIInv, Unannounced
  <2>2. QED
    BY <1>1, <2>1 DEF Unannounced
<1>13. QED
  BY <1>6, <1>7, <1>9, <1>10, <1>11, <1>12 DEF GossipIInv

LEMMA RejectRouteAnnounceKeeps ==
    ASSUME GossipIInv, NEW h \in Hops, RejectRouteAnnounce(h)
    PROVE  GossipIInv'
<1> DEFINE n == h[2]
<1>1. /\ ~valid /\ copies[h] > 0 /\ received[n] < MaxHeard
      /\ received' = [received EXCEPT ![n] = @ + 1]
      /\ copies' = Sent(n, {}, h)
      /\ links' = links /\ origin' = origin /\ valid' = valid /\ routes' = routes
      /\ announced' = announced /\ lost' = lost /\ queries' = queries
  BY DEF RejectRouteAnnounce
<1>2. GossipTypeOK /\ n \in RouteNodes
  BY HopIs DEF GossipIInv
<1>3. copies' \in [Hops -> Nat]
  BY <1>1, <1>2, SentChanges
<1>4. GossipTypeOK'
  <2>1. received[n] \in 0..MaxHeard
    BY <1>2 DEF GossipTypeOK
  <2>2. received[n] + 1 \in 0..MaxHeard
    BY <1>1, <2>1, GossipAssumption
  <2>3. received' \in [RouteNodes -> 0..MaxHeard]
    BY <1>1, <1>2, <2>2 DEF GossipTypeOK
  <2>4. QED
    BY <1>1, <1>2, <1>3, <2>3, GossipTypeKeeps DEF GossipTypeOK
<1>5. SpreadsAsTree'
  <2>1. CASE Forest
    BY <1>1, <1>2, <2>1, TakenKeepsTree DEF GossipIInv
  <2>2. CASE ~Forest
    BY <1>1, <2>2 DEF SpreadsAsTree, Forest
  <2>3. QED
    BY <2>1, <2>2
<1>6. Unannounced'
  <2>1. announced
    BY <1>1 DEF GossipIInv, Unannounced
  <2>2. QED
    BY <1>1, <2>1 DEF Unannounced
<1>7. SendersHave' /\ SentArrives' /\ HeardIsNoted'
  BY <1>1 DEF SendersHave, SentArrives, HeardIsNoted
<1>8. QED
  BY <1>4, <1>5, <1>6, <1>7 DEF GossipIInv

LEMMA LoseKeeps ==
    ASSUME GossipIInv, NEW h \in Hops, Lose(h)
    PROVE  GossipIInv'
<1>1. /\ copies[h] > 0 /\ lost < MaxLost /\ lost' = lost + 1
      /\ copies' = Sent(h[1], {}, h)
      /\ links' = links /\ origin' = origin /\ valid' = valid /\ routes' = routes
      /\ announced' = announced /\ received' = received /\ queries' = queries
  BY DEF Lose
<1>2. GossipTypeOK /\ h[1] \in RouteNodes
  BY HopIs DEF GossipIInv
<1>3. /\ copies' \in [Hops -> Nat]
      /\ \A g \in Hops : /\ g # h => copies'[g] = copies[g]
                         /\ g = h => copies'[g] = copies[g] - 1
  <2> DEFINE R == {}
             n == h[1]
  <2>1. /\ R \in SUBSET RouteNodes /\ \A m : m \notin R
        /\ n \in RouteNodes /\ copies' = Sent(n, R, h)
    BY <1>1, <1>2
  <2> HIDE DEF R, n
  <2>2. /\ copies' \in [Hops -> Nat]
        /\ \A g \in Hops :
            /\ g # h /\ ~(g[1] = n /\ g[2] \in R) => copies'[g] = copies[g]
            /\ g[1] = n /\ g[2] \in R => copies'[g] = copies[g] + 1
            /\ g = h => copies'[g] = copies[g] - 1
    BY <1>1, <1>2, <2>1, SentChanges
  <2>3. QED
    BY <2>1, <2>2
<1>4. lost \in Nat /\ lost' \in 0..MaxLost /\ lost' # 0
  <2>1. lost \in 0..MaxLost
    BY <1>2 DEF GossipTypeOK
  <2>2. QED
    BY <1>1, <2>1, GossipAssumption
<1>5. GossipTypeOK'
  BY <1>1, <1>2, <1>3, <1>4, GossipTypeKeeps DEF GossipTypeOK
<1>6. \A g \in Hops : copies[g] \in Nat
  BY <1>2 DEF GossipTypeOK
<1>7. SpreadsAsTree'
  <2>1. CASE Forest
    <3>1. copies[h] = 1
      BY <1>1, <2>1 DEF GossipIInv, SpreadsAsTree, OneToEach
    <3>2. copies'[h] = 0
      BY <1>3, <3>1
    <3>3. QED
      BY <1>1, <1>3, <3>2, TreeStays DEF GossipIInv
  <2>2. CASE ~Forest
    BY <1>1, <2>2 DEF SpreadsAsTree, Forest
  <2>3. QED
    BY <2>1, <2>2
<1>8. SendersHave'
  <2>1. \A g \in Hops : copies'[g] > 0 => copies[g] > 0
    BY <1>1, <1>3, <1>6
  <2>2. QED
    BY <1>1, <2>1 DEF GossipIInv, SendersHave
<1>9. SentArrives' /\ HeardIsNoted'
  BY <1>1, <1>4 DEF GossipIInv, SentArrives, HeardIsNoted
<1>10. Unannounced'
  <2>1. announced
    BY <1>1 DEF GossipIInv, Unannounced
  <2>2. QED
    BY <1>1, <2>1 DEF Unannounced
<1>11. QED
  BY <1>5, <1>7, <1>8, <1>9, <1>10 DEF GossipIInv

LEMMA QueryKeeps ==
    ASSUME GossipIInv, NEW n \in RouteNodes, QueryRoute(n)
    PROVE  GossipIInv'
<1>1. /\ queries < MaxQueries /\ queries' = queries + 1
      /\ routes' = [routes EXCEPT ![n] = @ \cup {n}]
      /\ links' = links /\ origin' = origin /\ valid' = valid /\ copies' = copies
      /\ announced' = announced /\ received' = received /\ lost' = lost
  BY DEF QueryRoute
<1>2. GossipTypeOK
  BY DEF GossipIInv
<1>3. queries' \in 0..MaxQueries
  <2>1. queries \in 0..MaxQueries
    BY <1>2 DEF GossipTypeOK
  <2>2. QED
    BY <1>1, <2>1, GossipAssumption
<1>4. /\ routes' \in [RouteNodes -> SUBSET RouteNodes]
      /\ \A m \in RouteNodes : routes[m] \subseteq routes'[m]
  BY <1>1, <1>2 DEF GossipTypeOK
<1>5. GossipTypeOK'
  BY <1>1, <1>2, <1>3, <1>4, GossipTypeKeeps DEF GossipTypeOK
<1>6. SpreadsAsTree'
  BY <1>1, TreeStays DEF GossipIInv
<1>7. SendersHave' /\ SentArrives' /\ Unannounced'
  BY <1>1 DEF GossipIInv, SendersHave, SentArrives, HasSent, Unannounced
<1>8. HeardIsNoted'
  BY <1>1, <1>4 DEF GossipIInv, HeardIsNoted
<1>9. QED
  BY <1>5, <1>6, <1>7, <1>8 DEF GossipIInv

LEMMA GossipStepKeeps == GossipIInv /\ [GossipNext]_gossipVars => GossipIInv'
<1> SUFFICES ASSUME GossipIInv, [GossipNext]_gossipVars PROVE GossipIInv'
  OBVIOUS
<1>1. CASE UNCHANGED gossipVars
  <2>1. /\ links' = links /\ origin' = origin /\ valid' = valid /\ copies' = copies
        /\ announced' = announced /\ received' = received /\ lost' = lost
        /\ routes' = routes /\ queries' = queries
    BY <1>1 DEF gossipVars
  <2>2. GossipTypeOK'
    BY <2>1 DEF GossipIInv, GossipTypeOK
  <2>3. SpreadsAsTree'
    BY <2>1, TreeStays DEF GossipIInv
  <2>4. SendersHave' /\ SentArrives' /\ Unannounced' /\ HeardIsNoted'
    BY <2>1 DEF GossipIInv, SendersHave, SentArrives, HasSent, Unannounced, HeardIsNoted
  <2>5. QED
    BY <2>2, <2>3, <2>4 DEF GossipIInv
<1>2. CASE GossipNext
  BY <1>2, AnnounceKeeps, HandleRouteAnnounceKeeps, RejectRouteAnnounceKeeps,
     LoseKeeps, QueryKeeps DEF GossipNext
<1>3. QED
  BY <1>1, <1>2

(* On every forest, however many nodes it has, each node hears an          *)
(* announcement at most once, and one that is not lost reaches the         *)
(* neighbours of all that have it, though protocols/route.ts keeps no      *)
(* record of announcements.                                                *)
THEOREM GossipCorrect == GossipSpec => []HeardOnceOnForest
<1>1. GossipIInv => HeardOnceOnForest
  <2> SUFFICES ASSUME GossipIInv PROVE HeardOnceOnForest
    OBVIOUS
  <2>1. Forest => received[origin] = 0 /\ \A n \in RouteNodes : received[n] <= 1
    BY DEF GossipIInv, SpreadsAsTree, HeardOnce
  <2>2. ASSUME announced, valid, ~OnItsWay, lost = 0, NEW n \in RouteNodes,
               NEW m \in Neighbours(n) \ {origin}, n = origin \/ received[n] > 0
        PROVE  received[m] > 0 /\ origin \in routes[m]
    <3>1. <<n, m>> \in Hops /\ {n, m} \in links /\ m # origin /\ m \in RouteNodes
      BY DEF Hops, Neighbours
    <3>2. HasSent(n)
      BY <2>2 DEF HasSent
    <3>3. ~(copies[<<n, m>>] > 0)
      BY <2>2, <3>1 DEF OnItsWay
    <3>4. <<n, m>>[1] = n /\ <<n, m>>[2] = m
      OBVIOUS
    <3>5. received[m] > 0
      BY <2>2, <3>1, <3>2, <3>3, <3>4 DEF GossipIInv, SentArrives
    <3>6. QED
      BY <2>2, <3>1, <3>5 DEF GossipIInv, HeardIsNoted
  <2>3. QED
    BY <2>1, <2>2 DEF HeardOnceOnForest
<1>2. QED
  BY InitGossipIInv, GossipStepKeeps, <1>1, PTL DEF GossipSpec

-----------------------------------------------------------------------------
(* Sync: what the peer has been told of lies at or before the timestamp it *)
(* asks from, what a response tells of lies behind it.                     *)

(* The history is not empty once a delta was applied.                      *)
HistoryIsKept ==
    /\ \A d \in Applied : stamp[d] <= clock
    /\ oldest <= Len(stamp) \/ (Len(stamp) = 0 /\ oldest = 1)

(* d would be told of by now, were it older than t.                        *)
AccountedFor(d, t, more) ==
    stamp[d] < t => d \in told \cup untold \cup more \/ stamp[d] \in edges

PeerIsTold ==
    /\ since = Never => told = {}
    /\ since # Never => since <= clock /\ since \in edges
    /\ \A d \in told : stamp[d] <= since
    /\ since # Never => \A d \in Applied : AccountedFor(d, since, {})

ResponseTells ==
    response # NoMessage =>
        /\ response.at <= clock /\ response.told \subseteq Applied
        /\ since # Never => since <= response.at
        /\ \A d \in response.told :
            stamp[d] <= response.at /\ (since # Never => stamp[d] > since)
        /\ \A d \in Applied : AccountedFor(d, response.at, response.told)

SyncIInv == SyncTypeOK /\ HistoryIsKept /\ PeerIsTold /\ ResponseTells

LEMMA ElementOfSeq ==
    ASSUME NEW S, NEW s \in Seq(S), NEW i \in 1..Len(s)
    PROVE  s[i] \in S
OBVIOUS

(* The numbers the proofs below compare.                                   *)
LEMMA SyncNumbers ==
    ASSUME SyncTypeOK
    PROVE  /\ Len(stamp) \in Nat /\ clock \in Nat /\ oldest \in Nat /\ oldest >= 1
           /\ since \in Nat /\ response.at \in Nat /\ Never \in Nat
           /\ clock < Never /\ clock <= MaxClock /\ Len(stamp) <= MaxDeltas
           /\ \A d \in Applied : d \in Nat /\ stamp[d] \in Nat /\ stamp[d] < Never
<1>1. /\ Len(stamp) \in Nat /\ clock \in Nat /\ oldest \in Nat /\ oldest >= 1
      /\ clock <= MaxClock /\ Len(stamp) <= MaxDeltas
  BY SyncAssumption DEF SyncTypeOK
<1>2. Never \in Nat /\ clock < Never
  BY <1>1, SyncAssumption DEF Never
<1>3. since \in Nat /\ response.at \in Nat
  BY <1>2 DEF SyncTypeOK
<1>4. ASSUME NEW d \in Applied PROVE d \in Nat /\ stamp[d] \in Nat /\ stamp[d] < Never
  <2>1. d \in 1..Len(stamp) /\ stamp \in Seq(0..MaxClock)
    BY DEF Applied, SyncTypeOK
  <2>2. stamp[d] \in 0..MaxClock
    BY <2>1, ElementOfSeq
  <2>3. QED
    BY <1>1, <2>1, <2>2, SyncAssumption DEF Never
<1>5. QED
  BY <1>1, <1>2, <1>3, <1>4

LEMMA InitSyncIInv == SyncInit => SyncIInv
<1> SUFFICES ASSUME SyncInit PROVE SyncIInv
  OBVIOUS
<1>1. /\ clock = 0 /\ stamp = <<>> /\ oldest = 1 /\ since = Never /\ asking = FALSE
      /\ response = NoMessage /\ told = {} /\ untold = {} /\ edges = {}
  BY DEF SyncInit
<1>2. Len(stamp) = 0 /\ stamp \in Seq(0..MaxClock)
  BY <1>1
<1>3. Applied = {} /\ History = {}
  BY <1>1, <1>2 DEF Applied, History
<1>4. Never \in 0..Never
  BY SyncAssumption DEF Never
<1>5. response \in [at : 0..Never, told : SUBSET Deltas]
  BY <1>1, <1>4 DEF NoMessage
<1>6. Cardinality(History) <= HistoryLimit
  BY <1>3, FS_EmptySet, SyncAssumption
<1>7. clock \in 0..MaxClock /\ Len(stamp) <= MaxDeltas /\ oldest \in 1..MaxDeltas
  BY <1>1, <1>2, SyncAssumption
<1>8. SyncTypeOK
  BY <1>1, <1>2, <1>4, <1>5, <1>6, <1>7 DEF SyncTypeOK
<1>9. HistoryIsKept /\ PeerIsTold /\ ResponseTells
  BY <1>1, <1>2, <1>3 DEF HistoryIsKept, PeerIsTold, ResponseTells
<1>10. QED
  BY <1>8, <1>9 DEF SyncIInv

LEMMA SyncTickKeeps == ASSUME SyncIInv, SyncTick PROVE SyncIInv'
<1>1. /\ clock < MaxClock /\ clock' = clock + 1
      /\ stamp' = stamp /\ oldest' = oldest /\ since' = since /\ asking' = asking
      /\ response' = response /\ told' = told /\ untold' = untold /\ edges' = edges
  BY DEF SyncTick
<1>2. SyncTypeOK /\ clock \in Nat
  BY SyncNumbers DEF SyncIInv
<1>3. Applied' = Applied /\ History' = History
  BY <1>1 DEF Applied, History
<1>4. clock' \in 0..MaxClock
  BY <1>1, <1>2, SyncAssumption
<1>5. SyncTypeOK'
  BY <1>1, <1>2, <1>3, <1>4 DEF SyncTypeOK
<1>6. HistoryIsKept'
  BY <1>1, <1>2, <1>3, SyncNumbers DEF SyncIInv, HistoryIsKept
<1>7. \A d, t, more : AccountedFor(d, t, more)' = AccountedFor(d, t, more)
  BY <1>1 DEF AccountedFor
<1>8. PeerIsTold'
  BY <1>1, <1>2, <1>3, SyncNumbers DEF SyncIInv, PeerIsTold, AccountedFor
<1>9. ResponseTells'
  BY <1>1, <1>2, <1>3, SyncNumbers DEF SyncIInv, ResponseTells, AccountedFor
<1>10. QED
  BY <1>5, <1>6, <1>8, <1>9 DEF SyncIInv

(* ApplyDelta: the new delta bears the time, and no response is later.     *)
LEMMA ApplyDeltaKeeps == ASSUME SyncIInv, ApplyDelta PROVE SyncIInv'
<1> DEFINE n == Len(stamp)
<1>1. /\ n < MaxDeltas /\ stamp' = Append(stamp, clock)
      /\ clock' = clock /\ since' = since /\ asking' = asking
      /\ response' = response /\ told' = told /\ untold' = untold /\ edges' = edges
      /\ oldest' = IF Cardinality(History) = HistoryLimit THEN oldest + 1 ELSE oldest
  BY DEF ApplyDelta
<1>2. SyncTypeOK
  BY DEF SyncIInv
<1>3. /\ n \in Nat /\ clock \in Nat /\ oldest \in Nat /\ oldest >= 1
      /\ since \in Nat /\ response.at \in Nat /\ Never \in Nat
      /\ clock < Never /\ clock <= MaxClock
  BY <1>2, SyncNumbers
<1>4. /\ Len(stamp') = n + 1 /\ stamp'[n + 1] = clock
      /\ \A d \in 1..n : stamp'[d] = stamp[d]
      /\ stamp' \in Seq(0..MaxClock)
  <2>1. stamp \in Seq(0..MaxClock) /\ clock \in 0..MaxClock
    BY <1>2 DEF SyncTypeOK
  <2>2. Len(stamp') = n + 1 /\ stamp'[n + 1] = clock
    BY <1>1, <2>1
  <2>3. \A d \in 1..n : stamp'[d] = stamp[d]
    BY <1>1, <2>1
  <2>4. stamp' \in Seq(0..MaxClock)
    BY <1>1, <2>1
  <2>5. QED
    BY <2>2, <2>3, <2>4
<1>5. /\ Applied = 1..n /\ Applied' = 1..n + 1 /\ Applied' = Applied \cup {n + 1}
      /\ History = oldest..n /\ History' = oldest'..n + 1
  <2>1. 1..n + 1 = (1..n) \cup {n + 1}
    BY <1>3
  <2>2. QED
    BY <1>4, <2>1 DEF Applied, History
<1>6. oldest <= n \/ (n = 0 /\ oldest = 1)
  BY DEF SyncIInv, HistoryIsKept
<1>7. /\ oldest' \in 1..MaxDeltas /\ oldest' <= n + 1
      /\ Cardinality(History') <= HistoryLimit
  <2>1. Cardinality(History) <= HistoryLimit
    BY <1>2 DEF SyncTypeOK
  <2>2. Cardinality(History) = IF oldest > n THEN 0 ELSE n - oldest + 1
    <3>1. oldest \in Int /\ n \in Int
      BY <1>3
    <3>2. Cardinality(oldest..n) = IF oldest > n THEN 0 ELSE n - oldest + 1
      BY <3>1, FS_Interval
    <3>3. QED
      BY <1>5, <3>2
  <2>3. oldest' \in Nat
    BY <1>1, <1>3
  <2>4. Cardinality(History') = IF oldest' > n + 1 THEN 0 ELSE n + 1 - oldest' + 1
    <3> DEFINE a == oldest'
               b == n + 1
    <3>1. a \in Int /\ b \in Int /\ History' = a..b
      BY <1>3, <1>5, <2>3
    <3> HIDE DEF a, b
    <3>2. Cardinality(a..b) = IF a > b THEN 0 ELSE b - a + 1
      BY <3>1, FS_Interval
    <3>3. QED
      BY <3>1, <3>2 DEF a, b
  <2>5. CASE Cardinality(History) = HistoryLimit
    <3>1. oldest' = oldest + 1 /\ oldest <= n
      BY <1>1, <1>3, <1>6, <2>2, <2>5, SyncAssumption
    <3>2. QED
      BY <1>1, <1>3, <2>2, <2>4, <2>5, <3>1, SyncAssumption
  <2>6. CASE Cardinality(History) # HistoryLimit
    <3>1. oldest' = oldest /\ oldest <= n + 1
      BY <1>1, <1>3, <1>6, <2>6
    <3>2. QED
      BY <1>1, <1>3, <1>6, <2>1, <2>2, <2>4, <2>6, <3>1, SyncAssumption
  <2>7. QED
    BY <2>5, <2>6
<1>8. SyncTypeOK'
  <2>1. Len(stamp') <= MaxDeltas
    BY <1>1, <1>3, <1>4, SyncAssumption
  <2>2. told' \subseteq Applied' /\ untold' \subseteq Applied'
    BY <1>1, <1>2, <1>5 DEF SyncTypeOK
  <2>3. QED
    BY <1>1, <1>2, <1>4, <1>7, <2>1, <2>2 DEF SyncTypeOK
<1>9. HistoryIsKept'
  <2>1. \A d \in 1..n : stamp[d] <= clock
    BY <1>5 DEF SyncIInv, HistoryIsKept
  <2>2. clock <= clock
    BY <1>3
  <2>3. \A d \in Applied' : stamp'[d] <= clock'
    BY <1>1, <1>4, <1>5, <2>1, <2>2
  <2>4. oldest' <= Len(stamp')
    BY <1>4, <1>7
  <2>5. QED
    BY <2>3, <2>4 DEF HistoryIsKept
<1>10. ASSUME NEW t \in Nat, t <= clock, NEW more,
              \A d \in Applied :
                stamp[d] < t => d \in told \cup untold \cup more \/ stamp[d] \in edges
       PROVE  \A d \in Applied' :
                stamp'[d] < t => d \in told \cup untold \cup more \/ stamp'[d] \in edges
  <2> SUFFICES ASSUME NEW d \in Applied', stamp'[d] < t
               PROVE  d \in told \cup untold \cup more \/ stamp'[d] \in edges
    OBVIOUS
  <2>1. CASE d \in Applied
    <3>1. stamp'[d] = stamp[d]
      BY <1>4, <1>5, <2>1
    <3>2. QED
      BY <1>10, <2>1, <3>1
  <2>2. CASE d = n + 1
    BY <1>3, <1>4, <1>10, <2>2
  <2>3. QED
    BY <1>5, <2>1, <2>2
<1>11. told \subseteq 1..n
  BY <1>2, <1>5 DEF SyncTypeOK
<1>12. PeerIsTold'
  <2>1. \A d \in told' : stamp'[d] <= since'
    <3>1. \A d \in told : stamp[d] <= since
      BY DEF SyncIInv, PeerIsTold
    <3>2. \A d \in told : stamp'[d] = stamp[d]
      BY <1>4, <1>11
    <3>3. QED
      BY <1>1, <3>1, <3>2
  <2>2. since # Never =>
            \A d \in Applied' :
                stamp'[d] < since => d \in told \cup untold \cup {} \/ stamp'[d] \in edges
    BY <1>3, <1>10 DEF SyncIInv, PeerIsTold, AccountedFor
  <2>3. since' # Never => \A d \in Applied' : AccountedFor(d, since, {})'
    BY <1>1, <2>2 DEF AccountedFor
  <2>4. QED
    BY <1>1, <2>1, <2>3 DEF SyncIInv, PeerIsTold
<1>13. ResponseTells'
  <2> SUFFICES ASSUME response # NoMessage
               PROVE  /\ response.at <= clock /\ response.told \subseteq Applied'
                      /\ since # Never => since <= response.at
                      /\ \A d \in response.told :
                          /\ stamp'[d] <= response.at
                          /\ since # Never => stamp'[d] > since
                      /\ \A d \in Applied' :
                          stamp'[d] < response.at =>
                              \/ d \in told \cup untold \cup response.told
                              \/ stamp'[d] \in edges
    BY <1>1 DEF ResponseTells, AccountedFor
  <2>1. /\ response.at <= clock /\ response.told \subseteq Applied
        /\ since # Never => since <= response.at
        /\ \A d \in response.told :
            stamp[d] <= response.at /\ (since # Never => stamp[d] > since)
        /\ \A d \in Applied : AccountedFor(d, response.at, response.told)
    BY DEF SyncIInv, ResponseTells
  <2>2. \A d \in response.told : stamp'[d] = stamp[d]
    BY <1>4, <1>5, <2>1
  <2>3. \A d \in Applied' :
            stamp'[d] < response.at =>
                d \in told \cup untold \cup response.told \/ stamp'[d] \in edges
    BY <1>3, <1>10, <2>1 DEF AccountedFor
  <2>4. QED
    BY <1>5, <2>1, <2>2, <2>3
<1>14. QED
  BY <1>8, <1>9, <1>12, <1>13 DEF SyncIInv

(* HandleSyncRequest: a delta older than the response is told of with it,  *)
(* is gone, or is of the time the peer asks from.                          *)
LEMMA HandleSyncRequestKeeps == ASSUME SyncIInv, HandleSyncRequest PROVE SyncIInv'
<1> DEFINE tells == IF since = Never THEN GetRecentDeltas ELSE GetDeltasSince(since)
           gone == (1..oldest - 1) \cup (IF since = Never THEN Applied \ GetRecentDeltas ELSE {})
<1>1. /\ asking' = FALSE /\ response' = [at |-> clock, told |-> tells]
      /\ untold' = untold \cup gone
      /\ clock' = clock /\ stamp' = stamp /\ oldest' = oldest /\ since' = since
      /\ told' = told /\ edges' = edges
  BY DEF HandleSyncRequest
<1>2. SyncTypeOK
  BY DEF SyncIInv
<1>3. /\ Len(stamp) \in Nat /\ clock \in Nat /\ oldest \in Nat /\ oldest >= 1
      /\ since \in Nat /\ Never \in Nat /\ clock < Never /\ Len(stamp) <= MaxDeltas
      /\ \A d \in Applied : d \in Nat /\ stamp[d] \in Nat
  BY <1>2, SyncNumbers
<1>4. oldest <= Len(stamp) \/ (Len(stamp) = 0 /\ oldest = 1)
  BY DEF SyncIInv, HistoryIsKept
<1>5. Applied' = Applied /\ History' = History
  BY <1>1 DEF Applied, History
<1>6. /\ History \subseteq Applied /\ Applied \subseteq Deltas
      /\ \A d \in Applied : d \in History \/ d \in 1..oldest - 1
      /\ 1..oldest - 1 \subseteq Applied
  BY <1>3, <1>4, SyncAssumption DEF History, Applied, Deltas
<1>7. tells \subseteq History /\ gone \subseteq Applied
  <2>1. GetRecentDeltas \subseteq History
    BY DEF GetRecentDeltas
  <2>2. GetDeltasSince(since) \subseteq History
    BY DEF GetDeltasSince
  <2>3. QED
    BY <1>6, <2>1, <2>2
<1>8. since # Never => \A d \in tells : stamp[d] > since
  BY DEF GetDeltasSince
<1>9. ASSUME NEW d \in Applied, stamp[d] < clock
      PROVE  d \in told \cup untold \cup gone \cup tells \/ stamp[d] \in edges
  <2>1. CASE since = Never
    BY <1>9, <2>1
  <2>2. CASE since # Never /\ d \notin History
    BY <1>6, <2>2
  <2>3. CASE since # Never /\ d \in History
    <3>1. since \in edges /\ AccountedFor(d, since, {})
      BY <2>3 DEF SyncIInv, PeerIsTold
    <3>2. stamp[d] > since => d \in tells
      BY <2>3 DEF GetDeltasSince
    <3>3. stamp[d] > since \/ stamp[d] = since \/ stamp[d] < since
      BY <1>3
    <3> HIDE DEF tells, gone
    <3>4. QED
      BY <3>1, <3>2, <3>3 DEF AccountedFor
  <2>4. QED
    BY <2>1, <2>2, <2>3
<1> HIDE DEF tells, gone
<1>10. SyncTypeOK'
  <2>1. clock \in 0..Never
    BY <1>3
  <2>2. response' \in [at : 0..Never, told : SUBSET Deltas]
    BY <1>1, <1>6, <1>7, <2>1
  <2>3. untold' \subseteq Applied'
    BY <1>1, <1>2, <1>5, <1>7 DEF SyncTypeOK
  <2>4. QED
    BY <1>1, <1>2, <1>5, <2>2, <2>3 DEF SyncTypeOK
<1>11. HistoryIsKept'
  BY <1>1, <1>5 DEF SyncIInv, HistoryIsKept
<1>12. PeerIsTold'
  BY <1>1, <1>5 DEF SyncIInv, PeerIsTold, AccountedFor
<1>13. ResponseTells'
  <2>1. response'.at = clock /\ response'.told = tells
    BY <1>1
  <2>2. \A d \in tells : stamp[d] <= clock
    BY <1>6, <1>7 DEF SyncIInv, HistoryIsKept
  <2>3. since # Never => since <= clock
    BY DEF SyncIInv, PeerIsTold
  <2>5. \A d \in Applied' : AccountedFor(d, response.at, response.told)'
    BY <1>1, <1>5, <1>9, <2>1 DEF AccountedFor
  <2>6. clock \in Nat
    BY <1>3
  <2>7. QED
    BY <1>1, <1>5, <1>6, <1>7, <1>8, <2>1, <2>2, <2>3, <2>5, <2>6 DEF ResponseTells
<1>14. QED
  BY <1>10, <1>11, <1>12, <1>13 DEF SyncIInv

LEMMA HandleSyncResponseKeeps == ASSUME SyncIInv, HandleSyncResponse PROVE SyncIInv'
<1>1. /\ response # NoMessage /\ told' = told \cup response.told
      /\ since' = response.at /\ edges' = edges \cup {response.at}
      /\ response' = NoMessage
      /\ clock' = clock /\ stamp' = stamp /\ oldest' = oldest /\ asking' = asking
      /\ untold' = untold
  BY DEF HandleSyncResponse
<1>2. SyncTypeOK
  BY DEF SyncIInv
<1>3. /\ clock \in Nat /\ clock < Never /\ clock <= MaxClock /\ Never \in Nat
      /\ since \in Nat /\ response.at \in Nat
      /\ \A d \in Applied : stamp[d] \in Nat
  BY <1>2, SyncNumbers
<1>4. /\ response.at <= clock /\ response.told \subseteq Applied
      /\ since # Never => since <= response.at
      /\ \A d \in response.told : stamp[d] <= response.at
      /\ \A d \in Applied : AccountedFor(d, response.at, response.told)
  BY <1>1 DEF SyncIInv, ResponseTells
<1>5. Applied' = Applied /\ History' = History
  BY <1>1 DEF Applied, History
<1>6. response.at \in 0..MaxClock /\ response.at \in 0..Never
  BY <1>3, <1>4, SyncAssumption
<1>7. NoMessage \in [at : 0..Never, told : SUBSET Deltas]
  BY <1>3 DEF NoMessage
<1>8. SyncTypeOK'
  BY <1>1, <1>2, <1>4, <1>5, <1>6, <1>7 DEF SyncTypeOK
<1>9. HistoryIsKept'
  BY <1>1, <1>5 DEF SyncIInv, HistoryIsKept
<1>10. \A d \in told' : stamp[d] <= response.at
  <2>1. told \subseteq Applied
    BY <1>2 DEF SyncTypeOK
  <2>2. since # Never \/ told = {}
    BY DEF SyncIInv, PeerIsTold
  <2>3. \A d \in told : stamp[d] <= since
    BY DEF SyncIInv, PeerIsTold
  <2>4. \A d \in told : stamp[d] <= response.at
    BY <1>3, <1>4, <2>1, <2>2, <2>3
  <2>5. QED
    BY <1>1, <1>4, <2>4
<1>11. \A d \in Applied' : AccountedFor(d, since, {})'
  BY <1>1, <1>4, <1>5 DEF AccountedFor
<1>12. response.at # Never
  BY <1>3, <1>4
<1>13. PeerIsTold'
  BY <1>1, <1>4, <1>10, <1>11, <1>12 DEF PeerIsTold
<1>14. ResponseTells'
  BY <1>1 DEF ResponseTells
<1>15. QED
  BY <1>8, <1>9, <1>13, <1>14 DEF SyncIInv

LEMMA AskOrLossKeeps ==
    ASSUME SyncIInv, Ask \/ Lost \/ UNCHANGED syncVars
    PROVE  SyncIInv'
<1>1. /\ clock' = clock /\ stamp' = stamp /\ oldest' = oldest /\ since' = since
      /\ told' = told /\ untold' = untold /\ edges' = edges
      /\ asking' \in {TRUE, FALSE, asking} /\ response' \in {response, NoMessage}
  BY DEF Ask, Lost, syncVars
<1>2. Applied' = Applied /\ History' = History
  BY <1>1 DEF Applied, History
<1>3. NoMessage \in [at : 0..Never, told : SUBSET Deltas]
  BY SyncAssumption DEF NoMessage, Never
<1>4. asking' \in BOOLEAN
  BY <1>1 DEF SyncIInv, SyncTypeOK
<1>5. SyncTypeOK'
  BY <1>1, <1>2, <1>3, <1>4 DEF SyncIInv, SyncTypeOK
<1>6. HistoryIsKept' /\ PeerIsTold'
  BY <1>1, <1>2 DEF SyncIInv, HistoryIsKept, PeerIsTold, AccountedFor
<1>7. ResponseTells'
  BY <1>1, <1>2 DEF SyncIInv, ResponseTells, AccountedFor
<1>8. QED
  BY <1>5, <1>6, <1>7 DEF SyncIInv

LEMMA SyncStepKeeps == SyncIInv /\ [SyncNext]_syncVars => SyncIInv'
BY SyncTickKeeps, ApplyDeltaKeeps, HandleSyncRequestKeeps, HandleSyncResponseKeeps,
   AskOrLossKeeps DEF SyncNext

(* A peer that asks NodeState for what is newer than the last response is  *)
(* told of no delta twice, and of every older one but those that had left  *)
(* the history or bear the very time of a response, whatever is lost       *)
(* (protocols/sync.ts).                                                    *)
THEOREM SyncCorrect == SyncSpec => []ToldOnceAndInFull
<1>1. SyncIInv => ToldOnceAndInFull
  <2> SUFFICES ASSUME SyncIInv PROVE ToldOnceAndInFull
    OBVIOUS
  <2>1. response.told \cap told = {}
    <3>1. CASE response = NoMessage
      BY <3>1 DEF NoMessage
    <3>2. CASE response # NoMessage /\ since # Never
      <4>1. SyncTypeOK /\ since \in Nat /\ told \subseteq Applied
        BY SyncNumbers DEF SyncIInv, SyncTypeOK
      <4>2. \A d \in told : stamp[d] \in Nat /\ stamp[d] <= since
        BY <4>1, SyncNumbers DEF SyncIInv, PeerIsTold
      <4>3. \A d \in response.told : stamp[d] > since
        BY <3>2 DEF SyncIInv, ResponseTells
      <4>4. QED
        BY <4>1, <4>2, <4>3
    <3>3. CASE since = Never
      BY <3>3 DEF SyncIInv, PeerIsTold
    <3>4. QED
      BY <3>1, <3>2, <3>3
  <2>2. QED
    BY <2>1 DEF SyncIInv, PeerIsTold, AccountedFor, ToldOnceAndInFull
<1>2. QED
  BY InitSyncIInv, SyncStepKeeps, <1>1, PTL DEF SyncSpec

=============================================================================
