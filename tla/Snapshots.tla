------------------------------- MODULE Snapshots ------------------------------
(***************************************************************************)
(* The images of one clip: an oc-worker uploads the best shot of each      *)
(* track, or a scene when there is none, and sends their names with its    *)
(* result; the result consumer stores the names, chooses one image for the *)
(* clip and, when nothing moves, removes the others from MinIO before the  *)
(* transaction that forgets their names is committed. A job may be worked  *)
(* on twice.                                                               *)
(***************************************************************************)
EXTENDS Naturals, Sequences, FiniteSets

CONSTANTS
    Tracks,             \* the tracks that may be found in the clip
    Runs,          \* the times that the job may be worked on
    MaxSnapshotFaults   \* bound: failing calls, lost commits, redeliveries

ASSUME SnapshotsAssumption == MaxSnapshotFaults \in Nat

Scene == "scene"
NoImage == "no image"
Images == Tracks \cup {Scene}

ASSUME ImagesAssumption == Tracks \cap {Scene, NoImage} = {}

VARIABLES
    found,     \* the tracks in the clip
    moving,    \* those that move
    longest,   \* those that last longest
    attempt,   \* each attempt: its step, what it has still to upload, the scene's name
    objects,   \* the images of the job in MinIO
    ocResults, \* final results in oc_results, in order: the scene each names
    txn,       \* the consumer's transaction on the first of them
    stored,    \* the committed tracks: the image of each
    image,     \* jobs.snapshot_path; NoImage before the job is completed
    missing,   \* history: images that an attempt could not read or upload
    chosen,    \* history: the tracks chosen to stand for a clip without motion
    snapshotFaults

seen == <<found, moving, longest>>
snapshotVars == <<seen, attempt, objects, ocResults, txn, stored, image, missing, chosen,
                  snapshotFaults>>

SnapshotFault == snapshotFaults < MaxSnapshotFaults /\ snapshotFaults' = snapshotFaults + 1

NoTxn == [pc |-> "idle", rows |-> [t \in Tracks |-> NoImage], rep |-> NoImage, left |-> {}]

-------------------------------------------------------------------------------
(* The worker. One detector finds the same tracks each time.               *)

(* A second attempt is a redelivery, a resumed or a recovered job; it may  *)
(* run beside the first. The frame of the scene may not be readable.       *)
StartAttempt(a) ==
    /\ attempt[a].pc = "none"
    /\ IF \A b \in Runs : attempt[b].pc = "none" THEN UNCHANGED snapshotFaults ELSE SnapshotFault
    /\ \E scene \in IF found = {} THEN {Scene, NoImage} ELSE {NoImage} :
        attempt' = [attempt EXCEPT ![a] =
            [pc |-> "upload", left |-> found \cup ({scene} \ {NoImage}), scene |-> scene]]
    /\ UNCHANGED <<seen, objects, ocResults, txn, stored, image, missing, chosen>>

UploadImage(a, m) ==
    /\ m \in attempt[a].left
    /\ objects' = objects \cup {m}
    /\ attempt' = [attempt EXCEPT ![a].left = @ \ {m}]
    /\ UNCHANGED <<seen, ocResults, txn, stored, image, missing, chosen, snapshotFaults>>

(* The frame cannot be read or encoded, or the upload fails or takes over  *)
(* a minute: logged, and the name is sent all the same.                    *)
UploadFails(a, m) ==
    /\ m \in attempt[a].left
    /\ SnapshotFault
    /\ missing' = missing \cup {m}
    /\ attempt' = [attempt EXCEPT ![a].left = @ \ {m}]
    /\ UNCHANGED <<seen, objects, ocResults, txn, stored, image, chosen>>

(* Mutant: the result does not wait for the uploads.                       *)
PublishEarly(a) ==
    /\ attempt[a].pc = "upload"
    /\ ocResults' = Append(ocResults, attempt[a].scene)
    /\ attempt' = [attempt EXCEPT ![a].pc = "over"]
    /\ UNCHANGED <<seen, objects, txn, stored, image, missing, chosen, snapshotFaults>>

(* Every upload has ended before the result is published.                  *)
PublishResult(a) ==
    /\ attempt[a].pc = "upload" /\ attempt[a].left = {}
    /\ ocResults' = Append(ocResults, attempt[a].scene)
    /\ attempt' = [attempt EXCEPT ![a].pc = "over"]
    /\ UNCHANGED <<seen, objects, txn, stored, image, missing, chosen, snapshotFaults>>

AttemptDies(a) ==
    /\ attempt[a].pc = "upload"
    /\ SnapshotFault
    /\ attempt' = [attempt EXCEPT ![a] = [@ EXCEPT !.pc = "over", !.left = {}]]
    /\ UNCHANGED <<seen, objects, ocResults, txn, stored, image, missing, chosen>>

-------------------------------------------------------------------------------
(* The result consumer.                                                    *)

RowsNow == [t \in Tracks |-> IF t \in found THEN t ELSE stored[t]]
Transact(pc, rep, left) == txn' = [pc |-> pc, rows |-> RowsNow, rep |-> rep, left |-> left]

(* Every track has the name of its best shot again; the clip without       *)
(* tracks gets the scene, the clip with motion the image of a moving track, *)
(* and both keep all images.                                               *)
ApplyResult ==
    /\ txn.pc = "idle" /\ ocResults # <<>>
    /\ \/ found = {} /\ Transact("commit", Head(ocResults), {})
       \/ \E t \in moving : Transact("commit", t, {})
    /\ UNCHANGED <<seen, attempt, objects, ocResults, stored, image, missing, chosen,
                   snapshotFaults>>

(* Nothing moves: one of the tracks that last longest stands for all, and  *)
(* the images of the others go. The query has no order.                    *)
CollapseResult ==
    /\ txn.pc = "idle" /\ ocResults # <<>>
    /\ found # {} /\ moving = {}
    /\ \E rep \in longest :
        /\ Transact("collapse", rep, found \ {rep})
        /\ chosen' = chosen \cup {rep}
    /\ UNCHANGED <<seen, attempt, objects, ocResults, stored, image, missing, snapshotFaults>>

(* An error of MinIO is ignored: the image stays, its name goes.           *)
RemoveImage(t) ==
    /\ txn.pc = "collapse" /\ t \in txn.left
    /\ \/ objects' = objects \ {t} /\ UNCHANGED snapshotFaults
       \/ SnapshotFault /\ UNCHANGED objects
    /\ txn' = [txn EXCEPT !.rows[t] = txn.rep, !.left = @ \ {t}]
    /\ UNCHANGED <<seen, attempt, ocResults, stored, image, missing, chosen>>

CommitResult ==
    /\ txn.pc \in {"commit", "collapse"} /\ txn.left = {}
    /\ stored' = txn.rows
    /\ image' = txn.rep
    /\ txn' = NoTxn
    /\ ocResults' = Tail(ocResults)
    /\ UNCHANGED <<seen, attempt, objects, missing, chosen, snapshotFaults>>

(* The commit or a query before it fails: rolled back, and the message     *)
(* acknowledged. The images that were removed stay removed.                *)
ResultLost ==
    /\ txn.pc # "idle"
    /\ SnapshotFault
    /\ txn' = NoTxn
    /\ ocResults' = Tail(ocResults)
    /\ UNCHANGED <<seen, attempt, objects, stored, image, missing, chosen>>

(* The process or the connection dies: the message comes again.            *)
ConsumerDies ==
    /\ txn.pc # "idle"
    /\ SnapshotFault
    /\ txn' = NoTxn
    /\ UNCHANGED <<seen, attempt, objects, ocResults, stored, image, missing, chosen>>

-------------------------------------------------------------------------------
SnapshotInit ==
    /\ found \in SUBSET Tracks
    /\ moving \in SUBSET found
    /\ longest \in SUBSET found /\ (longest = {} <=> found = {})
    /\ attempt = [a \in Runs |-> [pc |-> "none", left |-> {}, scene |-> NoImage]]
    /\ objects = {} /\ ocResults = <<>>
    /\ txn = NoTxn
    /\ stored = [t \in Tracks |-> NoImage] /\ image = NoImage
    /\ missing = {} /\ chosen = {}
    /\ snapshotFaults = 0

SnapshotNext ==
    \/ \E a \in Runs :
        \/ StartAttempt(a) \/ PublishResult(a) \/ AttemptDies(a)
        \/ \E m \in Images : UploadImage(a, m) \/ UploadFails(a, m)
    \/ ApplyResult \/ CollapseResult \/ CommitResult \/ ResultLost \/ ConsumerDies
    \/ \E t \in Tracks : RemoveImage(t)

SnapshotSpec == SnapshotInit /\ [][SnapshotNext]_snapshotVars

-------------------------------------------------------------------------------
SnapshotTypeOK ==
    /\ found \subseteq Tracks /\ moving \subseteq found /\ longest \subseteq found
    /\ attempt \in [Runs -> [pc : {"none", "upload", "over"}, left : SUBSET Images,
                             scene : {Scene, NoImage}]]
    /\ objects \subseteq Images /\ missing \subseteq Images /\ chosen \subseteq Tracks
    /\ ocResults \in Seq({Scene, NoImage})
    /\ txn \in [pc : {"idle", "commit", "collapse"}, rows : [Tracks -> Tracks \cup {NoImage}],
                rep : Images \cup {NoImage}, left : SUBSET Tracks]
    /\ stored \in [Tracks -> Tracks \cup {NoImage}]
    /\ image \in Images \cup {NoImage}
    /\ snapshotFaults \in Nat

(* What the tables name is in MinIO, though images are removed before the  *)
(* commit and a job may be worked on twice at a time. It is not only if it *)
(* could not be uploaded, or if tracks that last equally long were chosen  *)
(* to stand for the clip one after the other.                              *)
Named == ({stored[t] : t \in Tracks} \cup {image}) \ {NoImage}
NamedImagesExist == Named \subseteq objects \cup missing \/ Cardinality(chosen) > 1
===============================================================================
