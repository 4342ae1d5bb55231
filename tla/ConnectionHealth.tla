-------------------------- MODULE ConnectionHealth --------------------------
(***************************************************************************)
(* ConnectionHealthMonitor (network/NetworkModule.ts) over the connections *)
(* of one node: a timer starts checkAllConnections, which takes the        *)
(* connections and the time once and then goes from peer to peer, awaiting *)
(* a ping of each suspect and the hang-up of each that fails it.  The      *)
(* timer does not wait for the check before, so checks overlap, and the    *)
(* transmissions to a peer, which await the sending of their message       *)
(* between the health they read and the activity they report, overlap with *)
(* checks and with each other.                                             *)
(*                                                                         *)
(* Time is what a check makes of it: a record is idle once                 *)
(* connectionIdleTimeoutMs have passed since its last activity, and a      *)
(* check sees as idle what was idle when it began and has stayed so until  *)
(* it came to it; checks in progress at once have begun within that time   *)
(* of each other.  A peer answers a ping unless it was silent at some time *)
(* while the ping was awaited.  A peer has one connection at most.         *)
(***************************************************************************)
EXTENDS Naturals, FiniteSets

CONSTANTS
    Remotes,        \* peers with a connection at some time
    Fickle,         \* those that may stop answering
    Checks,         \* checkAllConnections() calls in progress at once
    Transmissions,  \* transmit() calls in progress at once
    NoRemote,       \* a check awaits no peer, a transmission is for none
    StalledLimit,   \* stalledThresholdCount
    MaxDeaths       \* bound: times a peer stops answering

ASSUME HealthAssumption ==
    /\ NoRemote \notin Remotes /\ Fickle \subseteq Remotes
    /\ StalledLimit \in Nat /\ MaxDeaths \in Nat

VARIABLES
    running,    \* the timer is set
    open,       \* peers with an open connection
    alive,      \* peers that answer
    known,      \* peers with an entry in connectionStates
    healthy,    \* isHealthy of the entry
    stalled,    \* stalledCount of the entry; what is above the limit is it
    idle,       \* entries whose lastActivityMs is too long ago
    goal,       \* the peer a transmission has dialled, NoRemote if none
    left,       \* the connections a check has not come to
    saw,        \* the peers a check sees as idle; isIdle of the one it awaits
    at,         \* the peer it awaits, NoRemote if none
    awaits,     \* "ping" or "hangUp"; "none" while no check runs
    orphaned,   \* checks that ping for an entry no longer in the map
    unsure,     \* checks whose ping may go unanswered
    deaths,
    hangingUp,  \* peers hangUpUnhealthyPeer is at work on
    failed,     \* history: peers with a failed ping as the latest record
                \* in their entry
    silent      \* history: peers that have not answered at some time

entryVars  == <<known, healthy, stalled, idle>>
checkVars  == <<left, saw, at, awaits, orphaned, unsure>>
worldVars  == <<open, alive, deaths, hangingUp>>
pastVars   == <<failed, silent>>
healthVars == <<running, entryVars, goal, checkVars, worldVars, pastVars>>

HealthTypeOK ==
    /\ running \in BOOLEAN
    /\ open \subseteq Remotes /\ alive \subseteq Remotes
    /\ known \subseteq Remotes /\ idle \subseteq known
    /\ healthy \subseteq known
    /\ stalled \in [Remotes -> 0..StalledLimit]
    /\ goal \in [Transmissions -> Remotes \cup {NoRemote}]
    /\ left \in [Checks -> SUBSET Remotes]
    /\ saw \in [Checks -> SUBSET Remotes]
    /\ at \in [Checks -> Remotes \cup {NoRemote}]
    /\ awaits \in [Checks -> {"none", "ping", "hangUp"}]
    /\ \A c \in Checks : at[c] = NoRemote <=> awaits[c] = "none"
    /\ orphaned \subseteq Checks /\ unsure \subseteq Checks
    /\ deaths \in 0..MaxDeaths
    /\ hangingUp \subseteq Remotes
    /\ failed \subseteq Remotes /\ silent \subseteq Remotes

HealthInit ==
    /\ running = TRUE
    /\ open = {} /\ alive = Remotes
    /\ known = {} /\ healthy = {} /\ idle = {}
    /\ stalled = [p \in Remotes |-> 0]
    /\ goal = [t \in Transmissions |-> NoRemote]
    /\ left = [c \in Checks |-> {}]
    /\ saw = [c \in Checks |-> {}]
    /\ at = [c \in Checks |-> NoRemote]
    /\ awaits = [c \in Checks |-> "none"]
    /\ orphaned = {} /\ unsure = {}
    /\ deaths = 0 /\ hangingUp = {}
    /\ failed = {} /\ silent = {}

-----------------------------------------------------------------------------
(* The world.                                                              *)

ConnectionOpens(p) ==
    /\ running
    /\ p \notin open /\ p \in alive
    /\ open' = open \cup {p}
    /\ UNCHANGED <<running, entryVars, goal, checkVars, alive, deaths,
                   hangingUp, pastVars>>

(* The connection is half-open from now on: nothing comes back, and a ping *)
(* under way may go unanswered though the peer recovers.                   *)
RemoteDies(p) ==
    /\ p \in alive \cap Fickle
    /\ deaths < MaxDeaths
    /\ alive' = alive \ {p}
    /\ deaths' = deaths + 1
    /\ unsure' = unsure \cup {c \in Checks : at[c] = p /\ awaits[c] = "ping"}
    /\ silent' = silent \cup {p}
    /\ UNCHANGED <<running, entryVars, goal, left, saw, at, awaits,
                   orphaned, open, hangingUp, failed>>

RemoteRecovers(p) ==
    /\ p \notin alive
    /\ alive' = alive \cup {p}
    /\ UNCHANGED <<running, entryVars, goal, checkVars, open, deaths,
                   hangingUp, pastVars>>

(* An entry with a connection, for a check reads no other.                 *)
BecomesIdle(p) ==
    /\ p \in (known \cap open) \ idle
    /\ idle' = idle \cup {p}
    /\ UNCHANGED <<running, known, healthy, stalled, goal, checkVars,
                   worldVars, pastVars>>

-----------------------------------------------------------------------------
(* The entries.                                                            *)

(* lastActivityMs is set: no check that has yet to come to the peer will   *)
(* see it as idle.  One that awaits it has computed isIdle before.         *)
Stirred(p) == [c \in Checks |-> IF at[c] = p THEN saw[c] ELSE saw[c] \ {p}]

Stir(p) == idle' = idle \ {p} /\ saw' = Stirred(p)

(* updateActivity.                                                         *)
Refresh(p) ==
    /\ Stir(p)
    /\ healthy' = healthy \cup {p}
    /\ stalled' = [stalled EXCEPT ![p] = 0]

(* transmit() has dialled the peer.  It awaits the sending of the message, *)
(* and before it, where isConnectionHealthy says no, as it does of a peer  *)
(* without an entry too, a hang-up; the message then fails with the        *)
(* connection, or the hang-up does and the message is sent for all that.   *)
TransmitStarts(t, p) ==
    /\ running
    /\ goal[t] = NoRemote
    /\ p \in alive
    /\ open' = open \cup {p}
    /\ goal' = [goal EXCEPT ![t] = p]
    /\ UNCHANGED <<running, entryVars, checkVars, alive, deaths, hangingUp,
                   pastVars>>

(* The dial times out: the connection, if it was open, is hung up.         *)
TransmitDialsInVain(p) ==
    /\ running
    /\ p \in open \ alive
    /\ open' = open \ {p}
    /\ UNCHANGED <<running, entryVars, goal, checkVars, alive, deaths,
                   hangingUp, pastVars>>

(* The message is out, which a half-open connection does not prevent, and  *)
(* the stream closed: updateActivity marks the entry of the peer healthy,  *)
(* if there is one, whatever it has come to say.                           *)
TransmitEnds(t) ==
    /\ goal[t] # NoRemote
    /\ LET p == goal[t] IN
       \/ p \in known /\ Refresh(p) /\ failed' = failed \ {p}
       \/ p \notin known /\ UNCHANGED <<healthy, stalled, idle, saw, failed>>
    /\ goal' = [goal EXCEPT ![t] = NoRemote]
    /\ UNCHANGED <<running, known, left, at, awaits, orphaned, unsure,
                   worldVars, silent>>

(* The message failed, and transmit() has hung up, or tried to.            *)
TransmitFails(t, closed) ==
    /\ goal[t] # NoRemote
    /\ open' = IF closed THEN open \ {goal[t]} ELSE open
    /\ goal' = [goal EXCEPT ![t] = NoRemote]
    /\ UNCHANGED <<running, entryVars, checkVars, alive, deaths, hangingUp,
                   pastVars>>

(* Mutant: an idle peer that is healthy is not pinged. *)
SuspectsUnhealthy(k, h, seen) == k \ h

(* The peers a check must ping: k and h are the entries and the healthy    *)
(* ones, seen the peers the check sees as idle.                            *)
Suspects(k, h, seen) == {p \in k : p \in seen \/ p \notin h}

(* The loop of check c goes on over the connections in rest: every one it  *)
(* passes on the way to the next suspect gets an entry if it had none.     *)
(* What the checks see as idle is sees.                                    *)
(* The order of getConnections() is arbitrary.                             *)
Proceed(c, rest, sees, k, h) ==
    LET suspects == rest \cap Suspects(k, h, sees[c])
        Pass(some, next, what) ==
            /\ known' = k \cup some
            /\ healthy' = h \cup (some \ k)
            /\ left' = [left EXCEPT ![c] = rest \ (some \cup {next})]
            /\ saw' = [sees EXCEPT ![c] = @ \cap (rest \ some)]
            /\ at' = [at EXCEPT ![c] = next]
            /\ awaits' = [awaits EXCEPT ![c] = what]
            /\ unsure' = IF next \in Remotes \ alive THEN unsure \cup {c}
                       ELSE unsure \ {c}
    IN  \/ /\ suspects = {}
           /\ Pass(rest, NoRemote, "none")
        \/ \E p \in suspects, passed \in SUBSET (rest \ suspects) :
            Pass(passed, p, "ping")

(* The timer fires.                                                        *)
CheckStarts(c) ==
    /\ running
    /\ awaits[c] = "none"
    /\ Proceed(c, open, [saw EXCEPT ![c] = idle], known, healthy)
    /\ UNCHANGED <<running, stalled, idle, goal, orphaned, worldVars,
                   pastVars>>

(* Mutant: an unhealthy peer that answers stays unhealthy. *)
RevivedNot(p) == healthy

(* What an answered ping makes of the healthy entries.                     *)
Revived(p) == healthy \cup {p}

PingAnswered(c) ==
    /\ awaits[c] = "ping"
    /\ at[c] \in alive
    /\ LET p == at[c] IN
       IF c \in orphaned
       THEN /\ Proceed(c, left[c], saw, known, healthy)
            /\ UNCHANGED <<stalled, idle, failed>>
       ELSE /\ Proceed(c, left[c], Stirred(p), known, Revived(p))
            /\ idle' = idle \ {p}
            /\ stalled' = [stalled EXCEPT ![p] = 0]
            /\ failed' = failed \ {p}
    /\ orphaned' = orphaned \ {c}
    /\ UNCHANGED <<running, goal, worldVars, silent>>

Counted(p) == IF stalled[p] < StalledLimit THEN stalled[p] + 1
              ELSE StalledLimit

(* A failed ping that does not yet make the peer unhealthy, for it was not *)
(* idle when the check came to it, whatever has happened since ...         *)
PingFails(c) ==
    /\ awaits[c] = "ping"
    /\ c \in unsure \/ ~running
    /\ LET p == at[c] IN
       IF c \in orphaned
       THEN UNCHANGED <<stalled, failed>>
       ELSE /\ Counted(p) < StalledLimit /\ p \notin saw[c]
            /\ stalled' = [stalled EXCEPT ![p] = Counted(p)]
            /\ failed' = failed \cup {p}
    /\ Proceed(c, left[c], saw, known, healthy)
    /\ orphaned' = orphaned \ {c}
    /\ UNCHANGED <<running, idle, goal, worldVars, silent>>

(* ... and one that does: onUnhealthyPeer hangs up.                        *)
PingCondemns(c) ==
    /\ awaits[c] = "ping"
    /\ c \in unsure \/ ~running
    /\ LET p == at[c] IN
       IF c \in orphaned
       THEN UNCHANGED <<healthy, stalled, failed>>
       ELSE /\ Counted(p) = StalledLimit \/ p \in saw[c]
            /\ stalled' = [stalled EXCEPT ![p] = Counted(p)]
            /\ healthy' = healthy \ {p}
            /\ failed' = failed \cup {p}
    /\ awaits' = [awaits EXCEPT ![c] = "hangUp"]
    /\ saw' = [saw EXCEPT ![c] = @ \cap left[c]]
    /\ unsure' = unsure \ {c} /\ orphaned' = orphaned \ {c}
    /\ UNCHANGED <<running, known, idle, goal, left, at, worldVars, silent>>

(* hangUp closed the connection, or failed and was ignored.                *)
HangUpEnds(c, closed) ==
    /\ awaits[c] = "hangUp"
    /\ open' = IF closed THEN open \ {at[c]} ELSE open
    /\ Proceed(c, left[c], saw, known, healthy)
    /\ UNCHANGED <<running, stalled, idle, goal, orphaned, alive, deaths,
                   hangingUp, pastVars>>

(* hangUpUnhealthyPeer(p): if the peer is unhealthy, its connection is     *)
(* closed and then its entry deleted, whatever it says by then.            *)
HangUpUnhealthyPeer(p) ==
    /\ running
    /\ p \in known \ healthy
    /\ hangingUp' = hangingUp \cup {p}
    /\ UNCHANGED <<running, entryVars, goal, checkVars, open, alive,
                   deaths, pastVars>>

Forget(p) ==
    /\ known' = known \ {p} /\ healthy' = healthy \ {p}
    /\ stalled' = [stalled EXCEPT ![p] = 0]
    /\ Stir(p)
    /\ orphaned' = orphaned \cup
                    {c \in Checks : at[c] = p /\ awaits[c] = "ping"}
    /\ failed' = failed \ {p}

HungUp(p, closed) ==
    /\ p \in hangingUp
    /\ hangingUp' = hangingUp \ {p}
    /\ \/ closed /\ open' = open \ {p} /\ Forget(p)
       \/ ~closed /\ UNCHANGED <<open, entryVars, saw, orphaned, failed>>
    /\ UNCHANGED <<running, goal, left, at, awaits, unsure, alive, deaths,
                   silent>>

(* NetworkModule.stop: the timer and the entries go, then libp2p.  A check *)
(* in progress goes on, with an entry of its peer that is no longer in the *)
(* map: it is written to no more, and its count may be anything.           *)
Stop ==
    /\ running
    /\ running' = FALSE
    /\ known' = {} /\ healthy' = {} /\ idle' = {}
    /\ stalled' = [p \in Remotes |-> 0]
    /\ saw' = [c \in Checks |-> {}]
    /\ orphaned' = {c \in Checks : awaits[c] = "ping"}
    /\ open' = {} /\ failed' = {}
    /\ UNCHANGED <<goal, left, at, awaits, unsure, alive, deaths,
                   hangingUp, silent>>

Timer == \E c \in Checks : CheckStarts(c)

Goes(c) == PingAnswered(c) \/ PingFails(c) \/ PingCondemns(c)

Closes(c) == HangUpEnds(c, TRUE)

HealthNext ==
    \/ \E p \in Remotes :
        ConnectionOpens(p) \/ RemoteDies(p) \/ RemoteRecovers(p)
            \/ BecomesIdle(p) \/ HangUpUnhealthyPeer(p)
            \/ TransmitDialsInVain(p)
    \/ \E p \in Remotes, closed \in BOOLEAN : HungUp(p, closed)
    \/ \E t \in Transmissions :
        \/ \E p \in Remotes : TransmitStarts(t, p)
        \/ TransmitEnds(t) \/ \E closed \in BOOLEAN : TransmitFails(t, closed)
    \/ Timer
    \/ \E c \in Checks : Goes(c)
    \/ \E c \in Checks, closed \in BOOLEAN : HangUpEnds(c, closed)
    \/ Stop

(* The timer fires, time passes, pings end by their timeout, and hang-ups  *)
(* end; that one of many hang-ups of a peer closes its connection is what  *)
(* the monitor itself counts on.                                           *)
HealthFairness ==
    /\ \A p \in Remotes : WF_healthVars(BecomesIdle(p))
    /\ \A c \in Checks : /\ WF_healthVars(CheckStarts(c))
                         /\ WF_healthVars(Goes(c))
                         /\ SF_healthVars(Closes(c))

HealthSpec == HealthInit /\ [][HealthNext]_healthVars /\ HealthFairness

-----------------------------------------------------------------------------
(* An entry is unhealthy only if the latest that was recorded in it is a   *)
(* ping that failed, and neither it nor a hang-up by a check comes upon a  *)
(* peer that has answered all along, however the checks, the hang-ups and  *)
(* the transmissions at work overlap, and whatever activity went by while  *)
(* the ping was awaited.                                                   *)
UnhealthyFailedLast ==
    running =>
        /\ known \ healthy \subseteq failed \cap silent
        /\ \A c \in Checks : awaits[c] = "hangUp" => at[c] \in silent

(* A connection whose peer never answers again is closed, however often    *)
(* hang-ups fail and checks overlap, while the monitor runs.               *)
DeadIsHungUp ==
    \A p \in Remotes : (<>[](running /\ p \notin alive)) => []<>(p \notin open)

=============================================================================
