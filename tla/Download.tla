------------------------------- MODULE Download -------------------------------
(***************************************************************************)
(* The byte ranges of the download and playback endpoints: the range is    *)
(* parsed by hand, and the download opens the clip by its name only after  *)
(* the headers, with the length of what follows, have been sent.           *)
(***************************************************************************)
EXTENDS Integers, SequencesExt

CONSTANTS
    MaxBytes,   \* bound: size of the object
    ChunkSize   \* bytes that one read of the clip asks for

ASSUME DownloadAssumption == MaxBytes \in Nat /\ ChunkSize \in Nat \ {0}

Blank == -1                      \* a bound that the Range header leaves out
Bounds == {Blank} \cup 0..MaxBytes + 1

VARIABLES
    asked,      \* the Range header
    bytes,      \* the clip: the bytes 0, 1, ... of that many
    response,   \* what the handler is doing, the range it serves, the chunks sent
    renamed     \* whether the clip has another name now

downloadVars == <<asked, bytes, response, renamed>>

Smaller(a, b) == IF a <= b THEN a ELSE b
Start(r) == IF r.first = Blank THEN 0 ELSE r.first

LastByte(r, size) == Smaller(IF r.last = Blank THEN size - 1 ELSE r.last, size - 1)
Satisfiable(r, size) == Start(r) <= LastByte(r, size) /\ Start(r) < size

(* The clip is looked at, by its name, and its size taken: a 404 or a 416  *)
(* ends the request, a 206 promises the length.                            *)
Answer ==
    /\ response.pc = "ask"
    /\ response' =
         CASE renamed -> [response EXCEPT !.pc = "not_found"]
           [] ~renamed /\ Satisfiable(asked, bytes) ->
                [response EXCEPT !.pc = "open", !.size = bytes,
                                 !.start = Start(asked),
                                 !.length = LastByte(asked, bytes) - Start(asked) + 1]
           [] OTHER -> [response EXCEPT !.pc = "unsatisfiable", !.size = bytes]
    /\ UNCHANGED <<asked, bytes, renamed>>

OpenClip ==
    /\ response.pc = "open"
    /\ response' = [response EXCEPT !.pc = IF renamed THEN "broken" ELSE "read"]
    /\ UNCHANGED <<asked, bytes, renamed>>

(* Mutant: every read asks for a whole chunk.                              *)
SendWholeChunk ==
    LET done == Len(response.sent)
        n == Smaller(ChunkSize, bytes - response.start - done)
    IN  /\ response.pc = "read"
        /\ response' =
             IF done >= response.length \/ n <= 0 THEN [response EXCEPT !.pc = "done"]
             ELSE [response EXCEPT !.sent = @ \o [i \in 1..n |-> response.start + done + i - 1]]
        /\ UNCHANGED <<asked, bytes, renamed>>

(* One read: never more than remains of the range, nor than the clip has.  *)
SendChunk ==
    LET done == Len(response.sent)
        n == Smaller(Smaller(ChunkSize, response.length - done), bytes - response.start - done)
    IN  /\ response.pc = "read"
        /\ response' =
             IF n <= 0 THEN [response EXCEPT !.pc = "done"]
             ELSE [response EXCEPT !.sent = @ \o [i \in 1..n |-> response.start + done + i - 1]]
        /\ UNCHANGED <<asked, bytes, renamed>>

(* The job completes: the name that the handler has is no more.            *)
ClipRenamed ==
    /\ ~renamed
    /\ renamed' = TRUE
    /\ UNCHANGED <<asked, bytes, response>>
(* The clip is downloaded while it is still being written.                 *)
ClipGrows ==
    /\ bytes < MaxBytes
    /\ bytes' = bytes + 1
    /\ UNCHANGED <<asked, response, renamed>>

DownloadInit ==
    /\ asked \in [first : Bounds, last : Bounds]
    /\ bytes \in 0..MaxBytes
    /\ response = [pc |-> "ask", size |-> 0, start |-> 0, length |-> 0, sent |-> <<>>]
    /\ renamed = FALSE

DownloadNext == Answer \/ OpenClip \/ SendChunk \/ ClipRenamed \/ ClipGrows
DownloadSpec == DownloadInit /\ [][DownloadNext]_downloadVars

DownloadTypeOK ==
    /\ asked \in [first : Bounds, last : Bounds]
    /\ bytes \in 0..MaxBytes
    /\ response \in [pc : {"ask", "not_found", "unsatisfiable", "open", "broken", "read", "done"},
                     size : 0..MaxBytes, start : 0..MaxBytes, length : 0..MaxBytes, sent : Seq(0..MaxBytes)]
    /\ renamed \in BOOLEAN

(* What RFC 9110 makes of first-last and first-: the bytes between them    *)
(* that the object has. A suffix range, -last, is served as 0-last.        *)
RangeOf(r, size) ==
    {i \in 0..size - 1 : i >= r.first /\ (r.last = Blank \/ i <= r.last)}

(* A complete answer is the range that was asked for, byte by byte and in  *)
(* order, of the clip as it was when its length was promised; a 416 is     *)
(* given only for an empty one; and the body falls short of the promise    *)
(* only when the clip is renamed between the headers and the first byte.   *)
RangeIsServed ==
    LET range == RangeOf(asked, response.size)
    IN  asked.first # Blank =>
            CASE response.pc = "done" ->
                    /\ ToSet(response.sent) = range
                    /\ \A i, j \in 1..Len(response.sent) :
                          i < j => response.sent[i] < response.sent[j]
                    /\ Len(response.sent) = response.length
              [] response.pc = "unsatisfiable" -> range = {}
              [] response.pc = "broken" -> renamed
              [] OTHER -> TRUE
===============================================================================
