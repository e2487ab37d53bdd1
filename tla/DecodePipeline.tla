---------------------------- MODULE DecodePipeline ----------------------------
(***************************************************************************)
(* Object classification of one clip: a thread decodes the clip once,      *)
(* forwards, and puts the frames that are wanted into a bounded queue; the *)
(* worker takes them out, tracks them and keeps the detections of those    *)
(* with motion. Either may fail in the middle.                             *)
(***************************************************************************)
EXTENDS Integers, FiniteSetsExt, SequencesExt

CONSTANTS
    MaxFrames,    \* bound: frames of the clip
    BufferSize,   \* capacity of the queue
    MaxSpan       \* oc_track_max_span; 0 is no limit

ASSUME DecodeAssumption ==
    MaxFrames \in Nat \ {0} /\ BufferSize \in Nat \ {0} /\ MaxSpan \in Nat

Frames == 0..MaxFrames - 1
DONE == -1

VARIABLES
    motion,     \* the frames in which the md-worker saw motion
    contiguous, \* oc_track_contiguous
    readable,   \* how many frames of the clip can be read
    decoder,    \* the thread: its step and the frame it is at
    frameQueue, \* frame_q
    worker,     \* the consuming loop
    fed,        \* the frames that the tracker has seen, in order
    kept        \* the frames whose detections are kept

decodeVars == <<motion, contiguous, readable, decoder, frameQueue, worker, fed, kept>>

(* Every frame of the span from the first motion to the last, so that the  *)
(* tracker sees them in sequence, unless that is too many of them.         *)
Span == Max(motion) - Min(motion) + 1
Contiguous ==
    contiguous /\ Span > Cardinality(motion) /\ (MaxSpan = 0 \/ Span <= MaxSpan)
Wanted == IF Contiguous THEN Min(motion)..Max(motion) ELSE motion

-------------------------------------------------------------------------------
(* The decoder thread. Reading past the end, or an error of the codec, ends *)
(* its loop like the last frame does.                                      *)
ReadFrame ==
    /\ decoder.pc = "read"
    /\ decoder' =
         IF decoder.at > Max(Wanted) \/ decoder.at >= readable
         THEN [decoder EXCEPT !.pc = "finish"]
         ELSE IF decoder.at \in Wanted THEN [decoder EXCEPT !.pc = "put"]
                                       ELSE [decoder EXCEPT !.at = @ + 1]
    /\ UNCHANGED <<motion, contiguous, readable, frameQueue, worker, fed, kept>>

(* Mutant: a full queue drops the frame.                                   *)
PutOrDrop ==
    /\ decoder.pc = "put"
    /\ frameQueue' = IF Len(frameQueue) < BufferSize THEN Append(frameQueue, decoder.at)
                                                     ELSE frameQueue
    /\ decoder' = [pc |-> "read", at |-> decoder.at + 1]
    /\ UNCHANGED <<motion, contiguous, readable, worker, fed, kept>>

(* Mutant: the queue has no bound.                                         *)
PutUnbounded ==
    /\ decoder.pc = "put"
    /\ frameQueue' = Append(frameQueue, decoder.at)
    /\ decoder' = [pc |-> "read", at |-> decoder.at + 1]
    /\ UNCHANGED <<motion, contiguous, readable, worker, fed, kept>>

(* It waits while the queue is full.                                       *)
PutFrame ==
    /\ decoder.pc = "put"
    /\ Len(frameQueue) < BufferSize
    /\ frameQueue' = Append(frameQueue, decoder.at)
    /\ decoder' = [pc |-> "read", at |-> decoder.at + 1]
    /\ UNCHANGED <<motion, contiguous, readable, worker, fed, kept>>

(* Mutant: no finally, so that an error ends the thread without a word.    *)
ResizeKills ==
    /\ decoder.pc = "put"
    /\ decoder' = [decoder EXCEPT !.pc = "ended"]
    /\ UNCHANGED <<motion, contiguous, readable, frameQueue, worker, fed, kept>>

(* A frame cannot be resized: the exception ends the thread, by way of the *)
(* finally clause.                                                         *)
ResizeFails ==
    /\ decoder.pc = "put"
    /\ decoder' = [decoder EXCEPT !.pc = "finish"]
    /\ UNCHANGED <<motion, contiguous, readable, frameQueue, worker, fed, kept>>

PutDone ==
    /\ decoder.pc = "finish"
    /\ Len(frameQueue) < BufferSize
    /\ frameQueue' = Append(frameQueue, DONE)
    /\ decoder' = [decoder EXCEPT !.pc = "ended"]
    /\ UNCHANGED <<motion, contiguous, readable, worker, fed, kept>>

-------------------------------------------------------------------------------
(* The worker.                                                             *)

(* The thread is joined after its last word.                               *)
GetItem ==
    /\ worker = "get"
    /\ frameQueue # <<>>
    /\ frameQueue' = Tail(frameQueue)
    /\ IF Head(frameQueue) = DONE
       THEN worker' = "join" /\ UNCHANGED fed
       ELSE worker' = "track" /\ fed' = Append(fed, Head(frameQueue))
    /\ UNCHANGED <<motion, contiguous, readable, decoder, kept>>

(* Frames without motion advance the tracker and are not kept.             *)
TrackFrame ==
    /\ worker = "track"
    /\ kept' = kept \cup ({Last(fed)} \cap motion)
    /\ worker' = "get"
    /\ UNCHANGED <<motion, contiguous, readable, decoder, frameQueue, fed>>

(* The tracker raises: the job fails, the queue is left as it is.          *)
TrackerRaises ==
    /\ worker = "track"
    /\ worker' = "failed"
    /\ UNCHANGED <<motion, contiguous, readable, decoder, frameQueue, fed, kept>>

JoinDecoder ==
    /\ worker = "join"
    /\ decoder.pc = "ended"
    /\ worker' = "returned"
    /\ UNCHANGED <<motion, contiguous, readable, decoder, frameQueue, fed, kept>>

-------------------------------------------------------------------------------
DecodeInit ==
    /\ motion \in (SUBSET Frames) \ {{}}
    /\ contiguous \in BOOLEAN
    /\ readable \in 0..MaxFrames
    /\ decoder = [pc |-> "read", at |-> 0]
    /\ frameQueue = <<>>
    /\ worker = "get"
    /\ fed = <<>>
    /\ kept = {}

DecoderStep == ReadFrame \/ PutFrame \/ PutDone
ConsumeStep == GetItem \/ TrackFrame \/ JoinDecoder
DecodeNext == DecoderStep \/ ResizeFails \/ ConsumeStep \/ TrackerRaises

DecodeSpec == DecodeInit /\ [][DecodeNext]_decodeVars
DecodeFairness == WF_decodeVars(DecoderStep) /\ WF_decodeVars(ConsumeStep)

-------------------------------------------------------------------------------
DecodeTypeOK ==
    /\ motion \in (SUBSET Frames) \ {{}} /\ contiguous \in BOOLEAN /\ readable \in 0..MaxFrames
    /\ decoder \in [pc : {"read", "put", "finish", "ended"}, at : 0..MaxFrames]
    /\ frameQueue \in Seq(Frames \cup {DONE}) /\ Len(frameQueue) <= BufferSize
    /\ worker \in {"get", "track", "join", "returned", "failed"}
    /\ fed \in Seq(Frames)
    /\ kept \subseteq Frames

(* The tracker sees the wanted frames in order and misses none before the  *)
(* last it sees, whatever the two threads' speeds; what the job returns is *)
(* made of frames with motion, of all of them that come before the point   *)
(* where decoding ended.                                                   *)
FramesInOrder ==
    /\ \A i, j \in 1..Len(fed) : i < j => fed[i] < fed[j]
    /\ ToSet(fed) \subseteq Wanted
    /\ \A f \in Wanted : (\E g \in ToSet(fed) : f <= g) => f \in ToSet(fed)
    /\ worker = "returned" => kept = {f \in motion : f < decoder.at}

(* The job always comes to an end: a decoder that stops early, for the end *)
(* of the file or an error, does not leave the worker waiting for a frame. *)
JobReturns == <>(worker \in {"returned", "failed"})

(* The decoder thread ends as well. It is left behind, waiting at a full   *)
(* queue with the clip open, only by a tracker that raised.                *)
LeftBehind == worker = "failed" /\ Len(frameQueue) = BufferSize
DecoderEnds == <>[](decoder.pc = "ended" \/ LeftBehind)
BothThreadsEnd == JobReturns /\ DecoderEnds
===============================================================================
