-------------------------------- MODULE Ingest --------------------------------
(***************************************************************************)
(* How a clip on the ingest mount becomes a job: observer threads and the  *)
(* scan find clips beside each other, hash them, look the hash up, insert  *)
(* a row and publish its message, one step of one finder at a time. A clip *)
(* may still be growing when it is hashed, and a publish may have reached  *)
(* the broker although it raised.                                          *)
(***************************************************************************)
EXTENDS Naturals

CONSTANTS
    Clips,           \* the paths on the ingest mount
    Contents,        \* what clips contain, once complete
    Watchers,        \* observer threads
    Scans,           \* scan threads
    MaxRows,         \* bound: rows inserted in a behaviour
    MaxIngestFaults  \* bound: errors, crashes and deletes in a behaviour

Finders == Watchers \cup Scans
Hashes == [content : Contents, whole : BOOLEAN]
Rows == [id : 1..MaxRows, clip : Clips, hash : Hashes]
Attempts == 3

ASSUME IngestAssumption ==
    /\ Clips # {} /\ Contents # {} /\ Watchers \cap Scans = {}
    /\ MaxRows \in Nat /\ MaxIngestFaults \in Nat

VARIABLES
    content,       \* what each clip contains
    file,          \* absent, growing, complete or processed (renamed)
    tracked,       \* the rows of the jobs table
    lastId,        \* the id given last
    messages,      \* copies of each job's message that reached the broker
    finder,        \* what each finder is doing
    passed,        \* history: clips that a finder has looked up or inserted
    resent,        \* history: jobs published again after an error or by recovery
    ingestFaults   \* faults so far

ingestTable == <<tracked, lastId>>
ingestVars == <<content, file, ingestTable, messages, finder, passed, resent, ingestFaults>>

(* The clips a finder still has before it: events of an observer, the list *)
(* of candidates of a scan. The hash and the id mean something from the    *)
(* step on that sets them.                                                 *)
NoHash == [content |-> CHOOSE x \in Contents : TRUE, whole |-> FALSE]
NoClip == CHOOSE c \in Clips : TRUE
FinderStates == [pc : {"idle", "look", "insert", "publish"}, todo : SUBSET Clips,
                 clip : Clips, hash : Hashes, id : 0..MaxRows, tries : 0..Attempts]
Resting == [pc |-> "idle", todo |-> {}, clip |-> NoClip, hash |-> NoHash, id |-> 0, tries |-> 0]

Hash(c) == [content |-> content[c], whole |-> file[c] = "complete"]
Known(h) == \E r \in tracked : r.hash = h

IngestFault ==
    /\ ingestFaults < MaxIngestFaults
    /\ ingestFaults' = ingestFaults + 1

(* The finder is done with its clip and looks at the next one.             *)
NextClip(f) == finder' = [finder EXCEPT ![f] =
                             [Resting EXCEPT !.todo = finder[f].todo \ {finder[f].clip}]]
(* An exception ends the handler of one event but the whole scan.          *)
Abort(f) == finder' = [finder EXCEPT ![f] =
                          [Resting EXCEPT !.todo = IF f \in Scans THEN {}
                                                   ELSE finder[f].todo \ {finder[f].clip}]]
Pass(f) == passed' = passed \cup {[clip |-> finder[f].clip, hash |-> finder[f].hash]}

-------------------------------------------------------------------------------
(* The ingest mount.                                                       *)

(* A camera starts a file, or an FTP server renames a complete one to its  *)
(* name: the observers that run see it. Any number of them may run.        *)
ClipAppears(c) ==
    /\ file[c] = "absent"
    /\ \E state \in {"growing", "complete"}, running \in SUBSET Watchers :
        /\ file' = [file EXCEPT ![c] = state]
        /\ finder' = [f \in Finders |->
                        IF f \in running THEN [finder[f] EXCEPT !.todo = @ \cup {c}] ELSE finder[f]]
    /\ UNCHANGED <<content, ingestTable, messages, passed, resent, ingestFaults>>

(* Nobody is told that a file has been written to the end.                 *)
ClipCompletes(c) ==
    /\ file[c] = "growing"
    /\ file' = [file EXCEPT ![c] = "complete"]
    /\ UNCHANGED <<content, ingestTable, messages, finder, passed, resent, ingestFaults>>

(* The job is done and its clip renamed, which the finders ignore.         *)
ClipProcessed(c) ==
    /\ file[c] = "complete"
    /\ \E r \in tracked : r.clip = c /\ messages[r.id] > 0
    /\ file' = [file EXCEPT ![c] = "processed"]
    /\ UNCHANGED <<content, ingestTable, messages, finder, passed, resent, ingestFaults>>

-------------------------------------------------------------------------------
(* The finders.                                                            *)

(* scan_ingest_missed lists the candidates once, at its start.             *)
StartScan(f) ==
    LET candidates == {c \in Clips : file[c] \in {"growing", "complete"}}
    IN  /\ finder[f] = Resting
        /\ candidates # {}
        /\ finder' = [finder EXCEPT ![f].todo = candidates]
        /\ UNCHANGED <<content, file, ingestTable, messages, passed, resent, ingestFaults>>

(* _hash_file. A clip that has been renamed meanwhile is skipped.          *)
HashClip(f, c) ==
    /\ finder[f].pc = "idle" /\ c \in finder[f].todo
    /\ finder' = [finder EXCEPT ![f] =
                    IF file[c] \in {"growing", "complete"}
                    THEN [finder[f] EXCEPT !.pc = "look", !.clip = c, !.hash = Hash(c)]
                    ELSE [finder[f] EXCEPT !.todo = finder[f].todo \ {c}]]
    /\ UNCHANGED <<content, file, ingestTable, messages, passed, resent, ingestFaults>>

(* Mutant: any row with the same content will do.                          *)
LookUpLoosely(f) ==
    /\ finder[f].pc = "look"
    /\ IF \E r \in tracked : r.clip = finder[f].clip
       THEN NextClip(f) /\ Pass(f)
       ELSE finder' = [finder EXCEPT ![f].pc = "insert"] /\ UNCHANGED passed
    /\ UNCHANGED <<content, file, ingestTable, messages, resent, ingestFaults>>

LookUp(f) ==
    /\ finder[f].pc = "look"
    /\ IF Known(finder[f].hash)
       THEN NextClip(f) /\ Pass(f)
       ELSE finder' = [finder EXCEPT ![f].pc = "insert"] /\ UNCHANGED passed
    /\ UNCHANGED <<content, file, ingestTable, messages, resent, ingestFaults>>

NewRow(f) == [id |-> lastId + 1, clip |-> finder[f].clip, hash |-> finder[f].hash]

(* Mutant: no unique constraint.                                           *)
InsertAnyway(f) ==
    /\ finder[f].pc = "insert"
    /\ lastId < MaxRows
    /\ tracked' = tracked \cup {NewRow(f)}
    /\ lastId' = lastId + 1
    /\ finder' = [finder EXCEPT ![f].pc = "publish", ![f].id = lastId + 1]
    /\ Pass(f)
    /\ UNCHANGED <<content, file, messages, resent, ingestFaults>>

(* Mutant: the finder whose insert is refused publishes the row it meets.  *)
InsertOrShare(f) ==
    /\ finder[f].pc = "insert"
    /\ \/ \E r \in tracked :
            /\ r.hash = finder[f].hash
            /\ finder' = [finder EXCEPT ![f].pc = "publish", ![f].id = r.id]
            /\ UNCHANGED ingestTable
       \/ /\ ~Known(finder[f].hash)
          /\ lastId < MaxRows
          /\ tracked' = tracked \cup {NewRow(f)}
          /\ lastId' = lastId + 1
          /\ finder' = [finder EXCEPT ![f].pc = "publish", ![f].id = lastId + 1]
    /\ Pass(f)
    /\ UNCHANGED <<content, file, messages, resent, ingestFaults>>

(* The row is committed; the unique constraint refuses a hash that another *)
(* finder has inserted since the lookup, which is no error.                *)
Insert(f) ==
    /\ finder[f].pc = "insert"
    /\ \/ /\ Known(finder[f].hash)
          /\ NextClip(f)
          /\ UNCHANGED ingestTable
       \/ /\ ~Known(finder[f].hash)
          /\ lastId < MaxRows
          /\ tracked' = tracked \cup {NewRow(f)}
          /\ lastId' = lastId + 1
          /\ finder' = [finder EXCEPT ![f].pc = "publish", ![f].id = lastId + 1]
    /\ Pass(f)
    /\ UNCHANGED <<content, file, messages, resent, ingestFaults>>

(* The lookup or the insert fails with another error.                      *)
TableFails(f) ==
    /\ finder[f].pc \in {"look", "insert"}
    /\ IngestFault
    /\ Abort(f)
    /\ UNCHANGED <<content, file, ingestTable, messages, passed, resent>>

(* One publisher, one lock: attempts of two publishes do not mix.          *)
HasPublisher(f) ==
    /\ finder[f].pc = "publish"
    /\ \A g \in Finders \ {f} : finder[g].tries = 0

Deliver(id) == messages' = [messages EXCEPT ![id] = @ + 1]

PublishJob(f) ==
    /\ HasPublisher(f)
    /\ Deliver(finder[f].id)
    /\ NextClip(f)
    /\ UNCHANGED <<content, file, ingestTable, passed, resent, ingestFaults>>

(* An attempt raises, and may have reached the broker all the same; after  *)
(* the third the error reaches the finder. The row stays.                  *)
PublishRaises(f) ==
    /\ HasPublisher(f)
    /\ IngestFault
    /\ \/ UNCHANGED messages
       \/ Deliver(finder[f].id)
    /\ IF finder[f].tries + 1 < Attempts
       THEN /\ finder' = [finder EXCEPT ![f].tries = @ + 1]
            /\ resent' = resent \cup {finder[f].id}
       ELSE Abort(f) /\ UNCHANGED resent
    /\ UNCHANGED <<content, file, ingestTable, passed>>

-------------------------------------------------------------------------------
(* Around the finders.                                                     *)

(* The user removes a job: its clip may be found again.                    *)
RemoveJob(r) ==
    /\ r \in tracked
    /\ IngestFault
    /\ tracked' = tracked \ {r}
    /\ passed' = {p \in passed : p.hash # r.hash}
    /\ UNCHANGED <<content, file, lastId, messages, finder, resent>>

(* The process dies with its finders; as it starts again, recovery         *)
(* publishes the jobs that are not done.                                   *)
RestartIngest ==
    LET owed == {r.id : r \in {x \in tracked : file[x.clip] # "processed"}}
    IN  /\ IngestFault
        /\ finder' = [f \in Finders |-> Resting]
        /\ messages' = [i \in 1..MaxRows |-> IF i \in owed THEN messages[i] + 1 ELSE messages[i]]
        /\ resent' = resent \cup owed
        /\ UNCHANGED <<content, file, ingestTable, passed>>

-------------------------------------------------------------------------------
IngestInit ==
    /\ content \in [Clips -> Contents]
    /\ file = [c \in Clips |-> "absent"]
    /\ tracked = {}
    /\ lastId = 0
    /\ messages = [i \in 1..MaxRows |-> 0]
    /\ finder = [f \in Finders |-> Resting]
    /\ passed = {}
    /\ resent = {}
    /\ ingestFaults = 0

FinderStep(f) ==
    \/ \E c \in Clips : HashClip(f, c)
    \/ LookUp(f) \/ Insert(f) \/ TableFails(f) \/ PublishJob(f) \/ PublishRaises(f)

IngestNext ==
    \/ \E c \in Clips : ClipAppears(c) \/ ClipCompletes(c) \/ ClipProcessed(c)
    \/ \E f \in Scans : StartScan(f)
    \/ \E f \in Finders : FinderStep(f)
    \/ \E r \in tracked : RemoveJob(r)
    \/ RestartIngest

IngestSpec == IngestInit /\ [][IngestNext]_ingestVars

-------------------------------------------------------------------------------
IngestTypeOK ==
    /\ content \in [Clips -> Contents]
    /\ file \in [Clips -> {"absent", "growing", "complete", "processed"}]
    /\ tracked \subseteq Rows
    /\ lastId \in 0..MaxRows
    /\ messages \in [1..MaxRows -> Nat]
    /\ finder \in [Finders -> FinderStates]
    /\ passed \subseteq [clip : Clips, hash : Hashes]
    /\ resent \subseteq 1..MaxRows
    /\ ingestFaults \in Nat

(* However many observers and scans find a clip at once, a path has one    *)
(* job; a second one only if it was hashed while it was still growing.     *)
OneJobPerClip ==
    \A r, s \in tracked :
        r.clip = s.clip /\ r.id # s.id => ~(r.hash.whole /\ s.hash.whole)

(* A job is submitted by the finder that inserted it and by no other: its  *)
(* message is there twice only after a retried publish or recovery.        *)
SubmittedOnce ==
    \A i \in 1..MaxRows : messages[i] > 1 => i \in resent

(* A clip that a finder has passed without an error of the table is tracked *)
(* under the hash it had, by this finder or by another, until the user     *)
(* removes the job.                                                        *)
PassedIsTracked == \A p \in passed : Known(p.hash)

===============================================================================
