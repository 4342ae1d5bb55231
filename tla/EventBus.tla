------------------------------- MODULE EventBus -------------------------------
(***************************************************************************)
(* EventBus (events/event-bus.ts), for the listeners of one event type:    *)
(* types share nothing.  emit() calls the listeners registered when it     *)
(* begins, all at once, awaits them together and then records the event.   *)
(* Emits overlap, and listeners come and go while handlers run.            *)
(*                                                                         *)
(* A listener in Once is the wrapper once() registers, of which each call  *)
(* makes a new one.  Events are numbered; only which events the history    *)
(* holds is told apart, not when.                                          *)
(***************************************************************************)
EXTENDS Naturals, Sequences

CONSTANTS
    Listeners,
    Once,           \* those registered by once()
    Emits,          \* bound: events emitted, 1..Emits
    MaxHistorySize

ASSUME BusAssumption ==
    Once \subseteq Listeners /\ Emits \in Nat /\ MaxHistorySize \in Nat

VARIABLES
    registry,   \* the registered listeners
    added,      \* wrappers of once() that have been registered
    shut,       \* isShuttingDown
    phase,      \* of each emit: "new", "running" or "over"
    calls,      \* the listeners an emit awaits
    history,    \* recorded events
    ranWell     \* ghost: listeners of which a run has ended well

busVars == <<registry, added, shut, phase, calls, history, ranWell>>

BusTypeOK ==
    /\ registry \subseteq Listeners
    /\ added \subseteq Once
    /\ shut \in BOOLEAN
    /\ phase \in [1..Emits -> {"new", "running", "over"}]
    /\ calls \in [1..Emits -> SUBSET Listeners]
    /\ history \in Seq(1..Emits)
    /\ ranWell \subseteq Listeners

BusInit ==
    /\ registry = {} /\ added = {}
    /\ shut = FALSE
    /\ phase = [e \in 1..Emits |-> "new"]
    /\ calls = [e \in 1..Emits |-> {}]
    /\ history = <<>>
    /\ ranWell = {}

-----------------------------------------------------------------------------
(* addListener, which throws after shutdown, and once, which adds a new    *)
(* wrapper.                                                                *)
AddListener(l) ==
    /\ ~shut
    /\ l \notin added
    /\ registry' = registry \cup {l}
    /\ added' = added \cup ({l} \cap Once)
    /\ UNCHANGED <<shut, phase, calls, history, ranWell>>

(* removeListener, and the function addListener returns.                   *)
RemoveListener(l) ==
    /\ l \in registry
    /\ registry' = registry \ {l}
    /\ UNCHANGED <<added, shut, phase, calls, history, ranWell>>

RemoveAllListeners ==
    /\ registry # {}
    /\ registry' = {}
    /\ UNCHANGED <<added, shut, phase, calls, history, ranWell>>

(* The events kept of a history that has become too long.                  *)
Keep(h) ==
    IF Len(h) > MaxHistorySize
    THEN SubSeq(h, Len(h) - MaxHistorySize + 1, Len(h))
    ELSE h

UpdateHistory(e) == history' = Keep(Append(history, e))

(* emit() up to its await.  Without a listener there is none.  Events are  *)
(* alike, so they are taken in their order.                                *)
EmitBegins(e) ==
    /\ phase[e] = "new"
    /\ \A f \in 1..e - 1 : phase[f] # "new"
    /\ \/ /\ shut
          /\ phase' = [phase EXCEPT ![e] = "over"]
          /\ UNCHANGED <<calls, history>>
       \/ /\ ~shut /\ registry = {}
          /\ phase' = [phase EXCEPT ![e] = "over"]
          /\ UpdateHistory(e)
          /\ UNCHANGED calls
       \/ /\ ~shut /\ registry # {}
          /\ phase' = [phase EXCEPT ![e] = "running"]
          /\ calls' = [calls EXCEPT ![e] = registry]
          /\ UNCHANGED <<history>>
    /\ UNCHANGED <<registry, added, shut, ranWell>>

(* Mutant: the wrapper of once() stays registered. *)
AfterOnceKept(l) == registry

(* What the wrapper of once() leaves registered when its handler has       *)
(* returned.                                                               *)
AfterOnce(l) == IF l \in Once THEN registry \ {l} ELSE registry

HandlerReturns(e, l) ==
    /\ l \in calls[e]
    /\ calls' = [calls EXCEPT ![e] = @ \ {l}]
    /\ registry' = AfterOnce(l)
    /\ ranWell' = ranWell \cup {l}
    /\ UNCHANGED <<added, shut, phase, history>>

(* The error is logged; a wrapper of once() stays registered.              *)
HandlerThrows(e, l) ==
    /\ l \in calls[e]
    /\ calls' = [calls EXCEPT ![e] = @ \ {l}]
    /\ UNCHANGED <<registry, added, shut, phase, history, ranWell>>

(* Every handler has settled.  The event is recorded even if the bus was   *)
(* shut down or the history cleared meanwhile.                             *)
EmitEnds(e) ==
    /\ phase[e] = "running"
    /\ calls[e] = {}
    /\ phase' = [phase EXCEPT ![e] = "over"]
    /\ UpdateHistory(e)
    /\ UNCHANGED <<registry, added, shut, calls, ranWell>>

ClearHistory ==
    /\ history # <<>>
    /\ history' = <<>>
    /\ UNCHANGED <<registry, added, shut, phase, calls, ranWell>>

Shutdown ==
    /\ ~shut
    /\ shut' = TRUE
    /\ registry' = {}
    /\ history' = <<>>
    /\ UNCHANGED <<added, phase, calls, ranWell>>

BusNext ==
    \/ \E l \in Listeners : AddListener(l) \/ RemoveListener(l)
    \/ RemoveAllListeners
    \/ \E e \in 1..Emits :
        \/ EmitBegins(e)
        \/ \E l \in Listeners : HandlerReturns(e, l) \/ HandlerThrows(e, l)
        \/ EmitEnds(e)
    \/ ClearHistory
    \/ Shutdown

BusSpec == BusInit /\ [][BusNext]_busVars

-----------------------------------------------------------------------------
(* Once its handler has succeeded, the wrapper of once() is never again    *)
(* registered, whatever emits, removals and shutdowns overlap: only emits  *)
(* that had begun by then run it again.                                    *)
OnceIsGone == ranWell \cap Once \cap registry = {}

=============================================================================
