------------------------------- MODULE Streams -------------------------------
(***************************************************************************)
(* One inbound stream of framed messages: handleFramedStream and           *)
(* processFrames, of YapYapNode (core/node.ts) and of NetworkModule        *)
(* (network/NetworkModule.ts), which differ in what a failure costs.       *)
(*                                                                         *)
(* The peer sends the frames 1..Frames.  A frame is its header and its     *)
(* body, a chunk any run of them, so the bytes that have arrived are a     *)
(* prefix of 2 * Frames halves, and the buffer is what lies between        *)
(* `arrived` and the last frame taken.  `huge` is the frame whose header   *)
(* announces more than MAX_FRAME_SIZE_BYTES, 0 if none does.  What         *)
(* decoding, handling and answering a frame do is whether they succeed.    *)
(***************************************************************************)
EXTENDS Naturals

CONSTANTS
    Frames,         \* bound: frames the peer sends
    MaxBuffer,      \* MAX_RECEIVE_BUFFER_BYTES, in halves of a frame
    Threshold       \* BUFFER_THRESHOLD_BYTES, likewise

ASSUME StreamsAssumption ==
    Frames \in Nat /\ MaxBuffer \in Nat /\ Threshold \in Nat

VARIABLES
    handler,    \* whose handler serves the stream: "node" or "network"
    huge,       \* the frame that is too large, 0 if none
    arrived,    \* halves that have arrived
    taken,      \* frames taken out of the buffer
    last,       \* "network": the last frame this chunk completed
    reader,     \* where handleFramedStream stands
    idleClosed, \* the idle watchdog has closed the stream
    tried,      \* frames that were handed to the handler
    stopped     \* the last frame tried failed and ended its pass

streamVars == <<handler, huge, arrived, taken, last, reader, idleClosed,
                tried, stopped>>

StreamStage == {"reading",    \* for await (const chunk of stream)
          "waiting",    \* applyBackpressure
          "handling",   \* awaiting the handler or the response
          "closed"}

StreamsTypeOK ==
    /\ handler \in {"node", "network"}
    /\ huge \in 0..Frames
    /\ arrived \in 0..2 * Frames
    /\ taken \in 0..Frames
    /\ last \in 0..Frames
    /\ reader \in StreamStage
    /\ idleClosed \in BOOLEAN
    /\ tried \subseteq 1..Frames
    /\ stopped \in BOOLEAN

StreamsInit ==
    /\ handler \in {"node", "network"}
    /\ huge \in 0..Frames
    /\ arrived = 0 /\ taken = 0 /\ last = 0
    /\ reader = "reading"
    /\ idleClosed = FALSE
    /\ tried = {}
    /\ stopped = FALSE

-----------------------------------------------------------------------------
(* The buffer, when the halves up to g have arrived and t frames are taken *)

Complete(f, g) == g >= 2 * f

(* A header that announces too much throws, out of the loop of the stream. *)
Throws(f, g) == f = huge /\ g + 1 >= 2 * f

-----------------------------------------------------------------------------
(* Hand the frame that follows t to the handler, or turn to s.             *)
Handle(t) ==
    /\ reader' = "handling"
    /\ tried' = tried \cup {t + 1}

Rest(s) == reader' = s /\ UNCHANGED tried

(* YapYapNode.processFrames looks at the head of the buffer after each     *)
(* frame.                                                                  *)
NodeContinues(t, g) ==
    /\ UNCHANGED last
    /\ \/ /\ Throws(t + 1, g)
          /\ Rest("closed")
       \/ /\ ~Throws(t + 1, g)
          /\ Complete(t + 1, g)
          /\ Handle(t)
       \/ /\ ~Throws(t + 1, g)
          /\ ~Complete(t + 1, g)
          /\ Rest("reading")

(* NetworkModule.processFrames decodes the whole buffer first: a header    *)
(* that throws there keeps the complete frames before it from the handler. *)
NetworkBegins(g) ==
    \/ /\ Throws(huge, g)
       /\ huge > taken
       /\ Rest("closed")
       /\ UNCHANGED last
    \/ /\ ~(Throws(huge, g) /\ huge > taken)
       /\ last' = g \div 2
       /\ \/ g \div 2 > taken /\ Handle(taken)
          \/ g \div 2 <= taken /\ Rest("reading")

NetworkContinues(t) ==
    /\ UNCHANGED last
    /\ \/ t < last /\ Handle(t)
       \/ t >= last /\ Rest("reading")

(* A pass over the buffer begins.                                          *)
Scan(g) ==
    \/ handler = "node" /\ NodeContinues(taken, g)
    \/ handler = "network" /\ NetworkBegins(g)

(* A chunk arrives and is put behind the buffer.  The check of the limit   *)
(* comes before any frame is taken out.                                    *)
ChunkArrives ==
    /\ reader = "reading"
    /\ \E g \in arrived + 1..2 * Frames :
        /\ arrived' = g
        /\ stopped' = FALSE
        /\ LET size == g - 2 * taken IN
           \/ size > MaxBuffer /\ Rest("closed") /\ UNCHANGED last
           \/ /\ size \in Threshold + 1..MaxBuffer
              /\ Rest("waiting")
              /\ UNCHANGED last
           \/ size <= Threshold /\ size <= MaxBuffer /\ Scan(g)
    /\ UNCHANGED <<handler, huge, taken, idleClosed>>

(* The 50 ms of applyBackpressure are over.                                *)
Resume ==
    /\ reader = "waiting"
    /\ Scan(arrived)
    /\ UNCHANGED <<handler, huge, arrived, taken, idleClosed, stopped>>

(* The frame was decoded and handled, and its answer sent, if it had one.  *)
HandlerSucceeds ==
    /\ reader = "handling"
    /\ taken' = taken + 1
    /\ \/ handler = "node" /\ NodeContinues(taken + 1, arrived)
       \/ handler = "network" /\ NetworkContinues(taken + 1)
    /\ UNCHANGED <<handler, huge, arrived, idleClosed, stopped>>

(* Mutant: a failure takes every complete frame out of the buffer. *)
AfterFailureAll == IF handler = "node" THEN arrived \div 2 ELSE last

(* What a failure takes out of the buffer: the node takes the frame that   *)
(* failed, NetworkModule every frame this chunk had completed.             *)
AfterFailure == IF handler = "node" THEN taken + 1 ELSE last

(* Decoding, handling or answering failed: the error is logged and the     *)
(* loop over the frames ends; the stream goes on.                          *)
HandlerFails ==
    /\ reader = "handling"
    /\ taken' = AfterFailure
    /\ reader' = "reading"
    /\ stopped' = TRUE
    /\ UNCHANGED <<handler, huge, arrived, last, idleClosed, tried>>

(* No chunk for STREAM_IDLE_TIMEOUT_MS, however long the handler has been  *)
(* at work: the node's watchdog closes the stream.  What has been sent may *)
(* still arrive.                                                           *)
IdleTimeout ==
    /\ handler = "node"
    /\ reader # "closed"
    /\ ~idleClosed
    /\ idleClosed' = TRUE
    /\ UNCHANGED <<handler, huge, arrived, taken, last, reader, tried,
                   stopped>>

(* The stream ends, by its peer, by the watchdog or with the connection.   *)
StreamEnds ==
    /\ reader = "reading"
    /\ reader' = "closed"
    /\ UNCHANGED <<handler, huge, arrived, taken, last, idleClosed, tried,
                   stopped>>

StreamsNext ==
    \/ ChunkArrives \/ Resume
    \/ HandlerSucceeds \/ HandlerFails
    \/ IdleTimeout \/ StreamEnds

StreamsSpec == StreamsInit /\ [][StreamsNext]_streamVars

-----------------------------------------------------------------------------
(* Frames reach the handler once each and in the order they were sent:     *)
(* whatever has been tried is taken or at work, and the node's handler     *)
(* passes over no frame that came before one it was given.  While the      *)
(* stream is read, a complete frame is left in the buffer only behind one  *)
(* that failed, and only by the node: it waits for the next chunk          *)
(* (node.ts:725).                                                          *)
FramesInOrder ==
    /\ \A f \in tried : f <= taken + 1
    /\ taken + 1 \in tried => reader = "handling"
    /\ handler = "node" => tried = 1..taken \/ tried = 1..taken + 1
    /\ reader = "reading" /\ Complete(taken + 1, arrived) =>
        handler = "node" /\ stopped

=============================================================================
