------------------------------- MODULE Playback -------------------------------
(***************************************************************************)
(* Playback of one job: a client polls for a rendition of the height it    *)
(* can decode, the orchestrator orders it once, a transcode worker makes   *)
(* it. What the orchestrator knows of an order is a set in memory; the     *)
(* order itself is a message that names the clip as the table had it, and  *)
(* the clip is renamed when the job is done.                               *)
(***************************************************************************)
EXTENDS Naturals

CONSTANTS
    Heights,          \* the heights that clients ask for
    Polls,            \* handlers of get_playback that run at a time
    Transcoders,
    MaxPlaybackFaults \* bound: errors, crashes, restarts, deletes in a behaviour

ASSUME PlaybackAssumption ==
    MaxPlaybackFaults \in Nat /\ Heights \subseteq Nat /\ Heights # {}

Ladder == {360, 480, 720, 1080, 1440}
Rung(h) == IF \E r \in Ladder : r <= h
           THEN CHOOSE r \in Ladder : r <= h /\ \A s \in Ladder : s <= h => s <= r
           ELSE CHOOSE r \in Ladder : \A s \in Ladder : r <= s
Rungs == {Rung(h) : h \in Heights}
Paths == {"clip", "processed_clip"}
Orders == [rung : Rungs, path : Paths]

VARIABLES
    row,           \* jobs.file_path, or that the job has been deleted
    clip,          \* the name of the clip on the mount, or that it is gone
    renditions,    \* objects under renditions/ in MinIO
    inflight,      \* _inflight
    orders,        \* the transcode queue: copies of each order
    poll,          \* what each handler is doing
    transcoder,    \* what each transcode worker is doing
    twice,         \* history: rungs ordered or encoded again after an error
    dropped,       \* history: rungs of which a worker gave an order up
    encodes,       \* history: how often each rung has been encoded
    playbackFaults

clipVars == <<row, clip>>
playbackVars == <<clipVars, renditions, inflight, orders, poll, transcoder,
                  twice, dropped, encodes, playbackFaults>>

SomeOrder == CHOOSE o \in Orders : TRUE
NoPoll == [pc |-> "none", order |-> SomeOrder]
NoWork == [pc |-> "idle", order |-> SomeOrder]

PlaybackFault ==
    /\ playbackFaults < MaxPlaybackFaults
    /\ playbackFaults' = playbackFaults + 1

(* The work on a rung that still leads to its rendition.                   *)
Queued(r) == \E o \in Orders : o.rung = r /\ orders[o] > 0
Publishing(r) == \E q \in Polls : poll[q].pc \in {"publish", "release"} /\ poll[q].order.rung = r
InWork(r) == \E w \in Transcoders : transcoder[w].pc # "idle" /\ transcoder[w].order.rung = r

-------------------------------------------------------------------------------
(* get_playback.                                                           *)

(* A deleted job is a 404, which ends the request.                         *)
Poll(q, h) ==
    /\ poll[q] = NoPoll
    /\ row # "deleted"
    /\ poll' = [poll EXCEPT ![q] = [pc |-> "stat", order |-> [rung |-> Rung(h), path |-> row]]]
    /\ UNCHANGED <<clipVars, renditions, inflight, orders, transcoder, twice, dropped, encodes,
                   playbackFaults>>

(* An error of MinIO reads as not ready.                                   *)
StatMissing(q) ==
    /\ poll[q].pc = "stat"
    /\ \/ poll[q].order.rung \notin renditions /\ UNCHANGED playbackFaults
       \/ PlaybackFault
    /\ poll' = [poll EXCEPT ![q].pc = "claim"]
    /\ UNCHANGED <<clipVars, renditions, inflight, orders, transcoder, twice, dropped, encodes>>

(* Ready: the rung may be ordered again, should it ever be purged.         *)
StatReady(q) ==
    /\ poll[q].pc = "stat"
    /\ poll[q].order.rung \in renditions
    /\ inflight' = inflight \ {poll[q].order.rung}
    /\ poll' = [poll EXCEPT ![q] = NoPoll]
    /\ UNCHANGED <<clipVars, renditions, orders, transcoder, twice, dropped, encodes,
                   playbackFaults>>

(* _enqueue_transcode looks the rung up and adds it under one lock.        *)
Claim(q) ==
    /\ poll[q].pc = "claim"
    /\ inflight' = inflight \cup {poll[q].order.rung}
    /\ poll' = [poll EXCEPT ![q] = IF @.order.rung \in inflight THEN NoPoll
                                                               ELSE [@ EXCEPT !.pc = "publish"]]
    /\ UNCHANGED <<clipVars, renditions, orders, transcoder, twice, dropped, encodes,
                   playbackFaults>>

Enqueue(o, copies) == orders' = [orders EXCEPT ![o] = @ + copies]

PublishOrder(q) ==
    /\ poll[q].pc = "publish"
    /\ Enqueue(poll[q].order, 1)
    /\ poll' = [poll EXCEPT ![q] = NoPoll]
    /\ UNCHANGED <<clipVars, renditions, inflight, transcoder, twice, dropped, encodes,
                   playbackFaults>>

(* An attempt raises that has reached the broker: the retry sends a second *)
(* copy, or the last retry fails as well.                                  *)
PublishRepeats(q) ==
    /\ poll[q].pc = "publish"
    /\ PlaybackFault
    /\ twice' = twice \cup {poll[q].order.rung}
    /\ \/ Enqueue(poll[q].order, 2) /\ poll' = [poll EXCEPT ![q] = NoPoll]
       \/ Enqueue(poll[q].order, 1) /\ poll' = [poll EXCEPT ![q].pc = "release"]
    /\ UNCHANGED <<clipVars, renditions, inflight, transcoder, dropped, encodes>>

PublishOrderFails(q) ==
    /\ poll[q].pc = "publish"
    /\ PlaybackFault
    /\ poll' = [poll EXCEPT ![q].pc = "release"]
    /\ UNCHANGED <<clipVars, renditions, inflight, orders, transcoder, twice, dropped, encodes>>

(* Mutant: the rung stays held after a 503.                                *)
ReleaseNothing(q) ==
    /\ poll[q].pc = "release"
    /\ poll' = [poll EXCEPT ![q] = NoPoll]
    /\ UNCHANGED <<clipVars, renditions, inflight, orders, transcoder, twice, dropped, encodes,
                   playbackFaults>>

(* A 503; the next poll may order again.                                   *)
Release(q) ==
    /\ poll[q].pc = "release"
    /\ inflight' = inflight \ {poll[q].order.rung}
    /\ poll' = [poll EXCEPT ![q] = NoPoll]
    /\ UNCHANGED <<clipVars, renditions, orders, transcoder, twice, dropped, encodes,
                   playbackFaults>>

-------------------------------------------------------------------------------
(* The transcode worker.                                                   *)

Progress(w, step) == transcoder' = [transcoder EXCEPT ![w].pc = step]
Finish(w) == transcoder' = [transcoder EXCEPT ![w] = NoWork]

TakeOrder(w, o) ==
    /\ transcoder[w] = NoWork
    /\ orders[o] > 0
    /\ orders' = [orders EXCEPT ![o] = @ - 1]
    /\ transcoder' = [transcoder EXCEPT ![w] = [pc |-> "check", order |-> o]]
    /\ UNCHANGED <<clipVars, renditions, inflight, poll, twice, dropped, encodes, playbackFaults>>

(* Mutant: the worker does not look whether the rendition is there.        *)
EncodeAlways(w) ==
    /\ transcoder[w].pc = "check"
    /\ Progress(w, "encode")
    /\ UNCHANGED <<clipVars, renditions, inflight, orders, poll, twice, dropped, encodes,
                   playbackFaults>>

(* A rendition that is there is done with; an error of MinIO reads as not  *)
(* there.                                                                  *)
CheckStored(w) ==
    /\ transcoder[w].pc = "check"
    /\ \/ /\ Progress(w, IF transcoder[w].order.rung \in renditions THEN "ack" ELSE "encode")
          /\ UNCHANGED <<twice, playbackFaults>>
       \/ /\ PlaybackFault
          /\ Progress(w, "encode")
          /\ twice' = twice \cup {transcoder[w].order.rung}
    /\ UNCHANGED <<clipVars, renditions, inflight, orders, poll, dropped, encodes>>

(* The clip has another name now, or is gone: acknowledged, like a success. *)
SourceMissing(w) ==
    /\ transcoder[w].pc = "encode"
    /\ clip # transcoder[w].order.path
    /\ dropped' = dropped \cup {transcoder[w].order.rung}
    /\ Progress(w, "ack")
    /\ UNCHANGED <<clipVars, renditions, inflight, orders, poll, twice, encodes, playbackFaults>>

Encode(w) ==
    /\ transcoder[w].pc = "encode"
    /\ clip = transcoder[w].order.path
    /\ encodes' = [encodes EXCEPT ![transcoder[w].order.rung] = @ + 1]
    /\ Progress(w, "upload")
    /\ UNCHANGED <<clipVars, renditions, inflight, orders, poll, twice, dropped, playbackFaults>>

Upload(w) ==
    /\ transcoder[w].pc = "upload"
    /\ renditions' = renditions \cup {transcoder[w].order.rung}
    /\ Progress(w, "ack")
    /\ UNCHANGED <<clipVars, inflight, orders, poll, twice, dropped, encodes, playbackFaults>>

(* ffmpeg or the upload fails: rejected without requeue.                   *)
TranscodeFails(w) ==
    /\ transcoder[w].pc \in {"encode", "upload"}
    /\ PlaybackFault
    /\ dropped' = dropped \cup {transcoder[w].order.rung}
    /\ Finish(w)
    /\ UNCHANGED <<clipVars, renditions, inflight, orders, poll, twice, encodes>>

AckOrder(w) ==
    /\ transcoder[w].pc = "ack"
    /\ Finish(w)
    /\ UNCHANGED <<clipVars, renditions, inflight, orders, poll, twice, dropped, encodes,
                   playbackFaults>>

(* Mutant: an order is acknowledged as it is delivered.                    *)
DiesWithOrder(w) ==
    /\ transcoder[w] # NoWork
    /\ PlaybackFault
    /\ Finish(w)
    /\ UNCHANGED <<clipVars, renditions, inflight, orders, poll, twice, dropped, encodes>>

(* It dies, or loses its connection, before the ack: the order comes again. *)
TranscoderDies(w) ==
    /\ transcoder[w] # NoWork
    /\ PlaybackFault
    /\ Enqueue(transcoder[w].order, 1)
    /\ twice' = twice \cup {transcoder[w].order.rung}
    /\ Finish(w)
    /\ UNCHANGED <<clipVars, renditions, inflight, poll, dropped, encodes>>

-------------------------------------------------------------------------------
(* Around them.                                                            *)

(* The orchestrator restarts with an empty set; the queue is durable.      *)
PlaybackRestarts ==
    /\ PlaybackFault
    /\ inflight' = {}
    /\ poll' = [q \in Polls |-> NoPoll]
    /\ twice' = Rungs
    /\ UNCHANGED <<clipVars, renditions, orders, transcoder, dropped, encodes>>

(* The result of the job is recorded: the clip is renamed, the row follows. *)
RenameClip ==
    /\ clip = "clip" /\ row # "deleted"
    /\ clip' = "processed_clip"
    /\ UNCHANGED <<row, renditions, inflight, orders, poll, transcoder, twice, dropped, encodes,
                   playbackFaults>>
CommitName ==
    /\ clip = "processed_clip" /\ row = "clip"
    /\ row' = "processed_clip"
    /\ UNCHANGED <<clip, renditions, inflight, orders, poll, transcoder, twice, dropped, encodes,
                   playbackFaults>>

(* The user deletes the job, or somebody removes the clip.                 *)
DeleteJobRow ==
    /\ PlaybackFault
    /\ row' = "deleted"
    /\ UNCHANGED <<clip, renditions, inflight, orders, poll, transcoder, twice, dropped, encodes>>
RemoveClip ==
    /\ PlaybackFault
    /\ clip' = "gone"
    /\ UNCHANGED <<row, renditions, inflight, orders, poll, transcoder, twice, dropped, encodes>>

-------------------------------------------------------------------------------
PlaybackInit ==
    /\ row = "clip" /\ clip = "clip"
    /\ renditions = {} /\ inflight = {}
    /\ orders = [o \in Orders |-> 0]
    /\ poll = [q \in Polls |-> NoPoll]
    /\ transcoder = [w \in Transcoders |-> NoWork]
    /\ twice = {} /\ dropped = {}
    /\ encodes = [r \in Rungs |-> 0]
    /\ playbackFaults = 0

PollStep(q) ==
    \/ StatMissing(q) \/ StatReady(q) \/ Claim(q)
    \/ PublishOrder(q) \/ PublishRepeats(q) \/ PublishOrderFails(q) \/ Release(q)
TranscoderStep(w) ==
    \/ \E o \in Orders : TakeOrder(w, o)
    \/ CheckStored(w) \/ SourceMissing(w) \/ Encode(w) \/ Upload(w) \/ AckOrder(w)

PlaybackNext ==
    \/ \E q \in Polls : PollStep(q) \/ \E h \in Heights : Poll(q, h)
    \/ \E w \in Transcoders : TranscoderStep(w) \/ TranscodeFails(w) \/ TranscoderDies(w)
    \/ PlaybackRestarts \/ RenameClip \/ CommitName \/ DeleteJobRow \/ RemoveClip

PlaybackSpec == PlaybackInit /\ [][PlaybackNext]_playbackVars

(* A handler that has begun goes on, and a worker works through its queue. *)
PlaybackFairness ==
    /\ \A q \in Polls : WF_playbackVars(PollStep(q))
    /\ \A w \in Transcoders : WF_playbackVars(TranscoderStep(w))

-------------------------------------------------------------------------------
PlaybackTypeOK ==
    /\ row \in Paths \cup {"deleted"} /\ clip \in Paths \cup {"gone"}
    /\ renditions \subseteq Rungs /\ inflight \subseteq Rungs
    /\ orders \in [Orders -> Nat]
    /\ poll \in [Polls -> [pc : {"none", "stat", "claim", "publish", "release"}, order : Orders]]
    /\ transcoder \in [Transcoders -> [pc : {"idle", "check", "encode", "upload", "ack"},
                                       order : Orders]]
    /\ twice \subseteq Rungs /\ dropped \subseteq Rungs
    /\ encodes \in [Rungs -> Nat]
    /\ playbackFaults \in Nat

(* A rung that _inflight holds, so that no poll orders it, is being        *)
(* ordered, queued, in work or stored, unless a worker gave an order up.   *)
InflightIsTracked ==
    \A r \in inflight \ dropped :
        r \in renditions \/ Publishing(r) \/ Queued(r) \/ InWork(r)

(* However many clients ask for a rung at once, it is encoded once. Twice  *)
(* only after a repeated publish, a redelivery, a restart or a check that  *)
(* failed: what _inflight and the check of the worker are for.             *)
EncodedOnce == \A r \in Rungs : encodes[r] > 1 => r \in twice

(* Nobody has to poll again: a rung that is held in _inflight is ready one *)
(* day, or a worker has given it up, or it is let go.                      *)
HeldIsSettled ==
    \A r \in Rungs : r \in inflight ~> (r \in renditions \cup dropped \/ r \notin inflight)

===============================================================================
