------------------------------ MODULE MCServices ------------------------------
(***************************************************************************)
(* The components beside the job pipeline, for TLC. They share no state    *)
(* with one another, so one run checks them all: a behaviour is one of the *)
(* component in focus, while the others stay as they begin.                *)
(***************************************************************************)
EXTENDS WatcherControl, Ingest, WorkerRegistry, Playback, Download, DecodePipeline,
        TrackMerge, MotionBoxes, Snapshots

VARIABLE focus

(* A pipeline that is well, one that is flooded, a probe that cannot ask,  *)
(* and trouble of which the probe reports no part.                         *)
MCConditions == {{}, {"flooded"}, {"database_down"},
                 {"mount_gone", "dead_letters", "broker_down"}}

MCMotionBoxes == [x : 0..3, y : {0}, w : {1, 2}, h : {1}] \cup [x : {0, 2}, y : {2}, w : {1}, h : {1, 2}]
MCMotionSize == [w |-> 5, h |-> 4]
MCClipSize == [w |-> 24, h |-> 20]

servicesVars == <<watcherVars, ingestVars, registryVars, playbackVars, downloadVars,
                  decodeVars, mergeVars, boxVars, snapshotVars, focus>>

Components == {"watcher", "ingest", "registry", "playback", "download",
               "decode", "merge", "boxes", "snapshots"}
Unless(p, q) == IF p THEN TRUE ELSE q
Others(c) ==
    /\ Unless(c = "watcher", UNCHANGED watcherVars)
    /\ Unless(c = "ingest", UNCHANGED ingestVars)
    /\ Unless(c = "registry", UNCHANGED registryVars)
    /\ Unless(c = "playback", UNCHANGED playbackVars)
    /\ Unless(c = "download", UNCHANGED downloadVars)
    /\ Unless(c = "decode", UNCHANGED decodeVars)
    /\ Unless(c = "merge", UNCHANGED mergeVars)
    /\ Unless(c = "boxes", UNCHANGED boxVars)
    /\ Unless(c = "snapshots", UNCHANGED snapshotVars)
    /\ UNCHANGED focus

(* The inputs of a component that is not in focus.                         *)
InFocus(c) == focus = c
Pinned ==
    /\ Unless(InFocus("watcher"), condition = {})
    /\ Unless(InFocus("ingest"), content = [c \in Clips |-> CHOOSE x \in Contents : TRUE])
    /\ Unless(InFocus("registry"), kind = [w \in Workers |-> "md"])
    /\ Unless(InFocus("download"), asked = [first |-> 0, last |-> 0] /\ bytes = 1)
    /\ Unless(InFocus("decode"), motion = {0} /\ contiguous = FALSE /\ readable = 1)
    /\ Unless(InFocus("merge"), /\ tracks = [i \in Positions |-> [first |-> 0, last |-> 0]]
                            /\ class = [i \in Positions |-> CHOOSE k \in Classes : TRUE]
                            /\ tid = Increasing
                            /\ overlap = [p \in Pairs |-> MinOverlap])
    /\ Unless(InFocus("boxes"), raw = <<CHOOSE b \in MCMotionBoxes : TRUE>>)
    /\ Unless(InFocus("snapshots"), found = {} /\ moving = {} /\ longest = {})

ServicesInit ==
    /\ focus \in Components
    /\ Pinned
    /\ WatcherInit /\ IngestInit /\ RegistryInit /\ PlaybackInit /\ DownloadInit
    /\ SnapshotInit /\ DecodeInit /\ BoxInit /\ MergeInit
    /\ class[1] = CHOOSE k \in Classes : TRUE    \* the others up to renaming

ServicesNext ==
    \/ InFocus("watcher") /\ WatcherNext /\ Others("watcher")
    \/ InFocus("ingest") /\ IngestNext /\ Others("ingest")
    \/ InFocus("registry") /\ RegistryNext /\ Others("registry")
    \/ InFocus("playback") /\ PlaybackNext /\ Others("playback")
    \/ InFocus("download") /\ DownloadNext /\ Others("download")
    \/ InFocus("decode") /\ DecodeNext /\ Others("decode")
    \/ InFocus("merge") /\ MergeNext /\ Others("merge")
    \/ InFocus("boxes") /\ BoxNext /\ Others("boxes")
    \/ InFocus("snapshots") /\ SnapshotNext /\ Others("snapshots")

(* The fairness of the component in focus.                                 *)
ServicesFairness ==
    /\ WF_watcherVars(InFocus("watcher") /\ MonitorStep)
    /\ \A t \in WatchRequests : WF_watcherVars(InFocus("watcher") /\ ControllerStep(t))
    /\ \A w \in Workers :
        /\ WF_registryVars(InFocus("registry") /\ HeartbeatStep(w))
        /\ WF_registryVars(InFocus("registry") /\ HandleEvent(w))
        /\ WF_registryVars(InFocus("registry") /\ HandleReport(w))
    /\ WF_registryVars(InFocus("registry") /\ CheckLiveness)
    /\ \A q \in Polls : WF_playbackVars(InFocus("playback") /\ PollStep(q))
    /\ \A w \in Transcoders : WF_playbackVars(InFocus("playback") /\ TranscoderStep(w))
    /\ WF_decodeVars(InFocus("decode") /\ DecoderStep)
    /\ WF_decodeVars(InFocus("decode") /\ ConsumeStep)

ServicesSpec == ServicesInit /\ [][ServicesNext]_servicesVars /\ ServicesFairness

-------------------------------------------------------------------------------
(* Every component keeps its types.                                        *)
ServicesTypeOK ==
    /\ WatcherTypeOK /\ IngestTypeOK /\ RegistryTypeOK /\ PlaybackTypeOK /\ DownloadTypeOK
    /\ DecodeTypeOK /\ MergeTypeOK /\ BoxTypeOK /\ SnapshotTypeOK

(* The liveness properties are about the component that runs.              *)
WatcherLiveness == InFocus("watcher") => WatcherFollowsHealth
RegistryLiveness == InFocus("registry") => RegistryFollowsWorkers
DecodeLiveness == InFocus("decode") => BothThreadsEnd
===============================================================================
