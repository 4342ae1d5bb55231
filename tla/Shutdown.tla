------------------------------- MODULE Shutdown -------------------------------
(***************************************************************************)
(* The end of the process of `start` (cli/index.ts), and what it takes     *)
(* down: ApiModule (api/index.ts), MessageRouter, libp2p and the database. *)
(* The ways out may run at once: a handler for SIGINT, the same for        *)
(* SIGTERM, both installed once the first bootstrap dials are over, and    *)
(* one for each POST /api/node/stop, since nothing keeps a second request  *)
(* from starting it all again.                                             *)
(*                                                                         *)
(* A request is served from when the server has it to when its handler     *)
(* ends; its client may leave meanwhile, which the handler does not        *)
(* notice.  What retry passes and receive() do is theirs; here they are    *)
(* work that uses the database at some of its awaits.                      *)
(***************************************************************************)
EXTENDS Naturals

CONSTANTS
    Requests,
    MaxRetries      \* of startApiServer

Signals == {"SIGINT", "SIGTERM"}

(* A request that stops the node is the name of its way out.               *)
Ways == Signals \cup Requests

ASSUME ShutdownAssumption ==
    MaxRetries \in Nat /\ Signals \cap Requests = {}

VARIABLES
    process,    \* where the process is
    tries,      \* times startApiServer failed to listen
    listening,  \* apiServer accepts connections
    request,    \* the state of each request
    way,        \* how far each way out is
    timerSet,   \* the retry timer is set
    libp2p,     \* "up", "stopping" or "down"
    routerUp,   \* MessageRouter has its nodeContext
    dbOpen,
    working     \* whether a retry pass and a receive() are in progress

shutdownVars == <<process, tries, listening, request, way, timerSet,
                  libp2p, routerUp, dbOpen, working>>

ShutdownTypeOK ==
    /\ process \in {"starting", "dialling", "running", "exited"}
    /\ tries \in 0..MaxRetries
    /\ listening \in BOOLEAN
    /\ request \in [Requests -> {"none", "served", "abandoned", "over"}]
    /\ way \in [Ways -> {"none", "asked", "api", "libp2p", "close", "event"}]
    /\ timerSet \in BOOLEAN /\ libp2p \in {"up", "stopping", "down"}
    /\ routerUp \in BOOLEAN /\ dbOpen \in BOOLEAN
    /\ working \subseteq {"retry", "receive"}

(* YapYapNode.init has returned.                                           *)
ShutdownInit ==
    /\ process = "starting" /\ tries = 0
    /\ listening = FALSE
    /\ request = [r \in Requests |-> "none"]
    /\ way = [w \in Ways |-> "none"]
    /\ timerSet = TRUE /\ libp2p = "up" /\ routerUp = TRUE /\ dbOpen = TRUE
    /\ working = {}

Alive == process # "exited"

-----------------------------------------------------------------------------
(* The start.                                                              *)

Listens ==
    /\ process = "starting"
    /\ process' = "dialling"
    /\ listening' = TRUE
    /\ UNCHANGED <<tries, request, way, timerSet, libp2p, routerUp, dbOpen,
                   working>>

(* A port in use is tried again with another; any other error, and one     *)
(* failure too many, ends the process.                                     *)
ListenFails(inUse) ==
    /\ process = "starting"
    /\ \/ /\ inUse /\ tries < MaxRetries
          /\ tries' = tries + 1 /\ UNCHANGED process
       \/ /\ ~(inUse /\ tries < MaxRetries)
          /\ process' = "exited" /\ UNCHANGED tries
    /\ UNCHANGED <<listening, request, way, timerSet, libp2p, routerUp,
                   dbOpen, working>>

(* The first connectBootstrapPeers is over; the signals get their          *)
(* handlers.                                                               *)
BootstrapDialled ==
    /\ process = "dialling"
    /\ process' = "running"
    /\ UNCHANGED <<tries, listening, request, way, timerSet, libp2p,
                   routerUp, dbOpen, working>>

-----------------------------------------------------------------------------
(* The work.                                                               *)

Becomes(r, s) ==
    /\ Alive
    /\ request' = [request EXCEPT ![r] = s]
    /\ UNCHANGED <<process, tries, listening, timerSet, libp2p, routerUp,
                   dbOpen, working>>

RequestArrives(r) ==
    /\ listening
    /\ request[r] = "none"
    /\ Becomes(r, "served")
    /\ UNCHANGED way

ClientLeaves(r) ==
    /\ request[r] = "served"
    /\ Becomes(r, "abandoned")
    /\ UNCHANGED way

HandlerEnds(r) ==
    /\ request[r] \in {"served", "abandoned"}
    /\ Becomes(r, "over")
    /\ UNCHANGED way

(* POST /api/node/stop: answered, and setImmediate does the rest.          *)
PostStop(r) ==
    /\ request[r] = "served"
    /\ Becomes(r, "over")
    /\ way' = [way EXCEPT ![r] = "asked"]

(* The retry timer fires; a message comes in on a stream.  Without its     *)
(* nodeContext, receive() throws at its first line.                        *)
WorkBegins(w) ==
    /\ Alive
    /\ \/ w = "retry" /\ timerSet
       \/ w = "receive" /\ libp2p # "down" /\ routerUp
    /\ working' = working \cup {w}
    /\ UNCHANGED <<process, tries, listening, request, way, timerSet,
                   libp2p, routerUp, dbOpen>>

WorkEnds(w) ==
    /\ Alive
    /\ w \in working
    /\ working' = working \ {w}
    /\ UNCHANGED <<process, tries, listening, request, way, timerSet,
                   libp2p, routerUp, dbOpen>>

-----------------------------------------------------------------------------
(* The ways out.                                                           *)

(* ApiModule.stop: the server closes, and calls back when the last         *)
(* connection has ended.                                                   *)
StopsApi(w) ==
    /\ way' = [way EXCEPT ![w] = "api"]
    /\ listening' = FALSE
    /\ UNCHANGED <<process, tries, request, timerSet, libp2p, routerUp,
                   dbOpen, working>>

Signal(w) ==
    /\ process = "running"
    /\ way[w] = "none"
    /\ StopsApi(w)

PostStopGoes(r) ==
    /\ Alive
    /\ way[r] = "asked"
    /\ StopsApi(r)

(* A signal without a handler: before there is one, or the second of its   *)
(* kind, since the handler is installed once.  Its clients lose their      *)
(* connection.                                                             *)
Killed(w) ==
    /\ Alive
    /\ process # "running" \/ way[w] # "none"
    /\ process' = "exited"
    /\ request' = [r \in Requests |->
                    IF request[r] = "served" THEN "abandoned" ELSE request[r]]
    /\ UNCHANGED <<tries, listening, way, timerSet, libp2p, routerUp, dbOpen,
                   working>>

(* Mutant: stop() does not wait for the connections. *)
DrainedAtOnce == TRUE

(* Every connection has ended: its request is over or its client has left. *)
Drained == \A r \in Requests : request[r] # "served"

(* The API is down: shutdown() of the node and of the router, up to the    *)
(* await of its event.                                                     *)
SignalShutsRouter(w) ==
    /\ Alive
    /\ way[w] = "api"
    /\ Drained
    /\ way' = [way EXCEPT ![w] = "event"]
    /\ timerSet' = FALSE /\ routerUp' = FALSE
    /\ UNCHANGED <<process, tries, listening, request, libp2p, dbOpen,
                   working>>

(* The database is closed and the process ends, in one go.                 *)
SignalExits(w) ==
    /\ Alive
    /\ way[w] = "event"
    /\ dbOpen' = FALSE
    /\ process' = "exited"
    /\ UNCHANGED <<tries, listening, request, way, timerSet, libp2p,
                   routerUp, working>>

(* The same after POST: stop() of the node, up to the await of             *)
(* libp2p.stop, which has nothing to wait for if libp2p is stopping or     *)
(* down already ...                                                        *)
PostStopsRetries(r) ==
    /\ Alive
    /\ way[r] = "api"
    /\ Drained
    /\ timerSet' = FALSE
    /\ libp2p' = IF libp2p = "up" THEN "stopping" ELSE libp2p
    /\ way' = [way EXCEPT ![r] = IF libp2p = "up" THEN "libp2p" ELSE "close"]
    /\ UNCHANGED <<process, tries, listening, request, routerUp, dbOpen,
                   working>>

(* ... which may fail, and ends the process then ...                       *)
Libp2pStops(r, ok) ==
    /\ Alive
    /\ way[r] = "libp2p"
    /\ \/ /\ ok
          /\ way' = [way EXCEPT ![r] = "close"]
          /\ libp2p' = "down"
          /\ UNCHANGED process
       \/ ~ok /\ process' = "exited" /\ UNCHANGED <<way, libp2p>>
    /\ UNCHANGED <<tries, listening, request, timerSet, routerUp, dbOpen,
                   working>>

(* ... and then the database is closed, and an event emitted before the    *)
(* process ends: what is at work may find it closed.                       *)
PostCloses(r) ==
    /\ Alive
    /\ way[r] = "close"
    /\ way' = [way EXCEPT ![r] = "event"]
    /\ dbOpen' = FALSE
    /\ UNCHANGED <<process, tries, listening, request, timerSet, libp2p,
                   routerUp, working>>

PostExits(r) ==
    /\ Alive
    /\ way[r] = "event"
    /\ process' = "exited"
    /\ UNCHANGED <<tries, listening, request, way, timerSet, libp2p,
                   routerUp, dbOpen, working>>

ShutdownNext ==
    \/ Listens \/ BootstrapDialled
    \/ \E inUse \in BOOLEAN : ListenFails(inUse)
    \/ \E r \in Requests : RequestArrives(r) \/ ClientLeaves(r)
                            \/ HandlerEnds(r) \/ PostStop(r)
                            \/ PostStopGoes(r) \/ PostStopsRetries(r)
                            \/ PostCloses(r) \/ PostExits(r)
    \/ \E r \in Requests, ok \in BOOLEAN : Libp2pStops(r, ok)
    \/ \E w \in {"retry", "receive"} : WorkBegins(w) \/ WorkEnds(w)
    \/ \E w \in Signals : Signal(w) \/ Killed(w) \/ SignalShutsRouter(w)
                            \/ SignalExits(w)

ShutdownSpec == ShutdownInit /\ [][ShutdownNext]_shutdownVars

-----------------------------------------------------------------------------
(* However the ways out overlap, a request whose client waits for the      *)
(* answer is served by a live process on an open database; and on a closed *)
(* one no retry pass begins, nor a receive() unless the database was       *)
(* closed by one POST /api/node/stop while libp2p is stopping for another  *)
(* (node.ts:443).                                                          *)
ServedUntilTheEnd ==
    /\ \A r \in Requests : request[r] = "served" => Alive /\ dbOpen
    /\ Alive /\ ~dbOpen =>
        /\ ~timerSet
        /\ \/ libp2p = "down"
           \/ \E r, other \in Requests :
                way[r] = "event" /\ way[other] = "libp2p"

=============================================================================
