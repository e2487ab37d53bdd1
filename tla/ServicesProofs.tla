---------------------------- MODULE ServicesProofs -----------------------------
(***************************************************************************)
(* Proofs about what is done with one clip: its frames, its motion boxes,  *)
(* the fragments of its tracks, its images and its bytes; and that the     *)
(* components beside the job pipeline keep in the composed run what was    *)
(* proved of each of them.                                                 *)
(***************************************************************************)
EXTENDS MCServices, WatchFolderProofs, RegistryProofs, PlaybackProofs, FiniteSetsExt,
        FiniteSetTheorems, SequenceTheorems, TLAPS

-------------------------------------------------------------------------------
(* The elements of a sequence.                                             *)

LEMMA SeqSet ==
    ASSUME NEW S, NEW s \in Seq(S)
    PROVE  /\ Len(s) \in Nat /\ \A k \in 1..Len(s) : s[k] \in S
           /\ ToSet(s) = {s[k] : k \in 1..Len(s)} /\ ToSet(s) \subseteq S
<1>1. Len(s) \in Nat /\ DOMAIN s = 1..Len(s) /\ \A k \in 1..Len(s) : s[k] \in S
  BY LenProperties, ElementOfSeq
<1>2. ToSet(s) = {s[k] : k \in 1..Len(s)}
  BY <1>1 DEF ToSet
<1> QED
  BY <1>1, <1>2

LEMMA AppendSet ==
    ASSUME NEW S, NEW s \in Seq(S), NEW e \in S
    PROVE  /\ Append(s, e) \in Seq(S) /\ Len(Append(s, e)) = Len(s) + 1
           /\ ToSet(Append(s, e)) = ToSet(s) \cup {e}
           /\ \A k \in 1..Len(s) : Append(s, e)[k] = s[k]
           /\ Append(s, e)[Len(s) + 1] = e
           /\ Append(s, e) # <<>> /\ Last(Append(s, e)) = e
<1>1. /\ Append(s, e) \in Seq(S)
      /\ Len(Append(s, e)) = Len(s) + 1 /\ Len(s) \in Nat
      /\ \A i \in 1..Len(s) : Append(s, e)[i] = s[i]
      /\ Append(s, e)[Len(s) + 1] = e /\ Append(s, e) # <<>>
  BY AppendProperties, LenProperties
<1> DEFINE t == Append(s, e)
           n == Len(s)
<1> HIDE DEF t, n
<1>2. ToSet(t) = {t[k] : k \in 1..Len(t)} /\ ToSet(s) = {s[k] : k \in 1..n}
  BY <1>1, SeqSet DEF t, n
<1>3. /\ Len(t) = n + 1 /\ n \in Nat /\ \A i \in 1..n : t[i] = s[i]
      /\ t[n + 1] = e
  BY <1>1 DEF t, n
<1>4. 1..n + 1 = 1..n \cup {n + 1}
  BY <1>3
<1>5. ToSet(t) = {t[k] : k \in 1..n} \cup {t[n + 1]}
  BY <1>2, <1>3, <1>4
<1>6. {t[k] : k \in 1..n} = {s[k] : k \in 1..n}
  BY <1>3
<1>7. ToSet(t) = ToSet(s) \cup {e}
  BY <1>2, <1>3, <1>5, <1>6
<1>8. t # <<>> /\ Last(t) = e
  BY <1>1 DEF Last, t, n
<1> QED
  BY <1>1, <1>7, <1>8 DEF t, n

LEMMA TailSet ==
    ASSUME NEW S, NEW s \in Seq(S), s # <<>>
    PROVE  ToSet(s) = {Head(s)} \cup ToSet(Tail(s))
<1>1. /\ Tail(s) \in Seq(S) /\ Len(Tail(s)) = Len(s) - 1 /\ Len(s) \in Nat
      /\ \A i \in 1..Len(Tail(s)) : Tail(s)[i] = s[i + 1]
      /\ Head(s) = s[1] /\ Len(s) # 0
  BY HeadTailProperties, LenProperties, EmptySeq
<1>2. DOMAIN s = 1..Len(s) /\ DOMAIN Tail(s) = 1..Len(s) - 1
  BY <1>1, LenProperties
<1>3. ASSUME NEW i \in 1..Len(s) PROVE s[i] \in {Head(s)} \cup ToSet(Tail(s))
  <2>1. CASE i = 1
    BY <1>1, <2>1
  <2>2. CASE i # 1
    <3>1. i - 1 \in 1..Len(s) - 1 /\ Tail(s)[i - 1] = s[i]
      BY <1>1, <2>2
    <3> QED
      BY <1>2, <3>1 DEF ToSet
  <2> QED
    BY <2>1, <2>2
<1>4. Head(s) \in ToSet(s)
  BY <1>1, <1>2 DEF ToSet
<1>5. ASSUME NEW i \in 1..Len(s) - 1 PROVE Tail(s)[i] \in ToSet(s)
  <2>1. i + 1 \in 1..Len(s) /\ Tail(s)[i] = s[i + 1]
    BY <1>1
  <2> QED
    BY <1>2, <2>1 DEF ToSet
<1>6. ToSet(s) \subseteq {Head(s)} \cup ToSet(Tail(s))
  BY <1>2, <1>3 DEF ToSet
<1>7. ToSet(Tail(s)) \subseteq ToSet(s)
  BY <1>2, <1>5 DEF ToSet
<1> QED
  BY <1>4, <1>6, <1>7

(* The least and the greatest element of a set of numbers.                 *)

LEMMA LeastOf ==
    ASSUME NEW S \in SUBSET Nat, S # {}
    PROVE  Min(S) \in S /\ \A y \in S : Min(S) <= y
<1> DEFINE R == OpToRel(<, Nat)
<1>1. IsWellFoundedOn(R, Nat)
  BY NatLessThanWellFounded
<1>2. R = {ss \in Nat \X Nat : ss[1] < ss[2]}
  BY Zenon DEF OpToRel
<1> HIDE DEF R
<1>3. PICK x \in S : \A y \in S : ~(<<y, x>> \in R)
  BY <1>1, WFMin
<1>4. ASSUME NEW y \in S PROVE x <= y
  <2>1. x \in Nat /\ y \in Nat
    OBVIOUS
  <2>2. y < x => <<y, x>> \in R
    BY <1>2, <2>1
  <2> QED
    BY <1>3, <2>1, <2>2
<1> QED
  BY <1>4 DEF Min

LEMMA GreatestOf ==
    ASSUME NEW S \in SUBSET Nat, S # {}, NEW n \in Nat, \A y \in S : y <= n
    PROVE  Max(S) \in S /\ \A y \in S : y <= Max(S)
<1> DEFINE U == {u \in Nat : \A y \in S : y <= u}
           u == Min(U)
<1>1. n \in U
  OBVIOUS
<1>2. u \in U /\ \A v \in U : u <= v
  BY <1>1, LeastOf
<1> HIDE DEF u
<1>3. u \in S
  <2> SUFFICES ASSUME u \notin S PROVE FALSE
    OBVIOUS
  <2>1. \A y \in S : y < u
    BY <1>2
  <2>2. PICK y \in S : y < u
    BY <2>1
  <2>3. y \in Nat /\ u - 1 \in Nat /\ \A z \in S : z \in Nat /\ z <= u - 1
    BY <1>2, <2>1, <2>2
  <2>4. u - 1 \in U
    BY <2>3
  <2> QED
    BY <1>2, <2>3, <2>4
<1>4. u \in S /\ \A y \in S : u >= y
  BY <1>2, <1>3
<1> QED
  BY <1>4 DEF Max

-------------------------------------------------------------------------------
(* Decoding. The tracker has seen, and the queue holds, the wanted frames  *)
(* before the one that the decoder is at.                                  *)

FramesQueued == ToSet(frameQueue) \ {DONE}

FrameOrderInv ==
    /\ \A i, j \in 1..Len(fed) : i < j => fed[i] < fed[j]
    /\ \A i, j \in 1..Len(frameQueue) :
          i < j /\ frameQueue[j] # DONE => frameQueue[i] < frameQueue[j]
    /\ \A f \in ToSet(fed), g \in FramesQueued : f < g
    /\ ToSet(fed) \cup FramesQueued = {f \in Wanted : f < decoder.at}

(* The decoder's last word is the last item, and nothing follows it.       *)
LastWordInv ==
    /\ \A i \in 1..Len(frameQueue) :
          frameQueue[i] = DONE => i = Len(frameQueue) /\ decoder.pc = "ended"
    /\ worker \in {"join", "returned"} => frameQueue = <<>> /\ decoder.pc = "ended"
    /\ decoder.at <= readable
    /\ decoder.pc = "put" => decoder.at < readable /\ decoder.at \in Wanted

KeptInv ==
    /\ worker = "track" => fed # <<>>
    /\ worker \in {"get", "join", "returned"} => kept = ToSet(fed) \cap motion
    /\ worker = "track" => kept \cup ({Last(fed)} \cap motion) = ToSet(fed) \cap motion

DecodeInv == DecodeTypeOK /\ FrameOrderInv /\ LastWordInv /\ KeptInv

(* The wanted frames are frames, and those with motion are among them.     *)
LEMMA WantedFrames ==
    ASSUME DecodeTypeOK
    PROVE  motion \subseteq Wanted /\ Wanted \subseteq Nat
<1>1. motion \in SUBSET Nat /\ motion # {} /\ \A f \in motion : f <= MaxFrames
  BY DecodeAssumption DEF DecodeTypeOK, Frames
<1>2. /\ Min(motion) \in motion /\ Max(motion) \in motion
      /\ \A f \in motion : Min(motion) <= f /\ f <= Max(motion)
  BY <1>1, LeastOf, GreatestOf, DecodeAssumption
<1>3. Min(motion) \in Nat /\ Max(motion) \in Nat
  BY <1>1, <1>2
<1>4. motion \subseteq Min(motion)..Max(motion)
  BY <1>1, <1>2, <1>3
<1>5. CASE Contiguous
  <2>1. Wanted = Min(motion)..Max(motion)
    BY <1>5 DEF Wanted
  <2>2. Min(motion)..Max(motion) \subseteq Nat
    BY <1>3
  <2> QED
    BY <1>4, <2>1, <2>2
<1>6. CASE ~Contiguous
  BY <1>1, <1>6 DEF Wanted
<1> QED
  BY <1>5, <1>6

LEMMA DecodeInitInv == DecodeInit => DecodeInv
<1> SUFFICES ASSUME DecodeInit PROVE DecodeInv
  OBVIOUS
<1>1. DecodeTypeOK
  BY DecodeAssumption DEF DecodeInit, DecodeTypeOK, Frames
<1>2. ToSet(fed) = {} /\ FramesQueued = {} /\ Len(fed) = 0 /\ Len(frameQueue) = 0
  BY DEF DecodeInit, ToSet, FramesQueued
<1>3. FrameOrderInv
  BY <1>1, <1>2, WantedFrames DEF DecodeInit, FrameOrderInv
<1>4. LastWordInv /\ KeptInv
  BY <1>1, <1>2 DEF DecodeInit, LastWordInv, KeptInv, DecodeTypeOK
<1> QED
  BY <1>1, <1>3, <1>4 DEF DecodeInv

LEMMA DecoderKeepsOrder ==
    ASSUME DecodeInv, ReadFrame \/ ResizeFails
    PROVE  DecodeInv'
<1>0. /\ DecodeTypeOK /\ FrameOrderInv /\ LastWordInv /\ KeptInv
      /\ Wanted \subseteq Nat /\ Wanted' = Wanted
      /\ decoder \in [pc : {"read", "put", "finish", "ended"}, at : 0..MaxFrames]
      /\ MaxFrames \in Nat /\ readable \in 0..MaxFrames
  BY WantedFrames, DecodeAssumption DEF DecodeInv, DecodeTypeOK, ReadFrame, ResizeFails, Wanted,
     Contiguous, Span
<1>1. /\ UNCHANGED <<motion, contiguous, readable, frameQueue, worker, fed, kept>>
      /\ decoder.pc \in {"read", "put"}
      /\ \/ decoder'.at = decoder.at /\ decoder'.pc = "finish"
         \/ decoder'.at = decoder.at /\ decoder'.pc = "put" /\ decoder.at < readable
            /\ decoder.at \in Wanted
         \/ decoder'.at = decoder.at + 1 /\ decoder'.pc = "read" /\ decoder.at < readable
            /\ decoder.at \notin Wanted
  BY <1>0 DEF ReadFrame, ResizeFails
<1>2. decoder' = [pc |-> decoder'.pc, at |-> decoder'.at]
  BY <1>0 DEF ReadFrame, ResizeFails
<1>3. DecodeTypeOK'
  BY <1>0, <1>1, <1>2 DEF DecodeTypeOK
<1>4. {f \in Wanted : f < decoder'.at} = {f \in Wanted : f < decoder.at}
  <2>1. decoder.at \in Nat /\ \A f \in Wanted : f \in Nat
    BY <1>0
  <2>2. \A f \in Wanted : f < decoder'.at <=> f < decoder.at
    BY <1>1, <2>1
  <2> QED
    BY <2>2
<1>5. FrameOrderInv'
  BY <1>0, <1>1, <1>4 DEF FrameOrderInv, FramesQueued
<1>6. LastWordInv'
  BY <1>0, <1>1 DEF LastWordInv
<1>7. KeptInv'
  BY <1>0, <1>1 DEF KeptInv
<1> QED
  BY <1>3, <1>5, <1>6, <1>7 DEF DecodeInv

LEMMA PutKeepsOrder ==
    ASSUME DecodeInv, PutFrame \/ PutDone
    PROVE  DecodeInv'
<1> DEFINE item == IF decoder.pc = "put" THEN decoder.at ELSE DONE
<1>0. /\ DecodeTypeOK /\ FrameOrderInv /\ LastWordInv /\ KeptInv
      /\ Wanted \subseteq Nat /\ Wanted' = Wanted
      /\ decoder \in [pc : {"read", "put", "finish", "ended"}, at : 0..MaxFrames]
      /\ MaxFrames \in Nat /\ readable \in 0..MaxFrames
      /\ frameQueue \in Seq(Frames \cup {DONE}) /\ Len(frameQueue) \in Nat
  BY WantedFrames, DecodeAssumption DEF DecodeInv, DecodeTypeOK, PutFrame, PutDone, Wanted,
     Contiguous, Span
<1>1. /\ UNCHANGED <<motion, contiguous, readable, worker, fed, kept>>
      /\ frameQueue' = Append(frameQueue, item) /\ Len(frameQueue) < BufferSize
      /\ \/ decoder.pc = "put" /\ decoder' = [pc |-> "read", at |-> decoder.at + 1]
         \/ decoder.pc = "finish" /\ decoder' = [pc |-> "ended", at |-> decoder.at]
  BY <1>0 DEF PutFrame, PutDone
<1>2. item \in Frames \cup {DONE}
  BY <1>0, <1>1, DecodeAssumption DEF LastWordInv, Frames
<1>3. /\ frameQueue' \in Seq(Frames \cup {DONE})
      /\ Len(frameQueue') = Len(frameQueue) + 1
      /\ \A i \in 1..Len(frameQueue) : frameQueue'[i] = frameQueue[i]
      /\ frameQueue'[Len(frameQueue) + 1] = item
      /\ ToSet(frameQueue') = ToSet(frameQueue) \cup {item}
      /\ frameQueue' # <<>>
  BY <1>0, <1>1, <1>2, AppendProperties, AppendSet
<1>4. DecodeTypeOK'
  <2>1. decoder' \in [pc : {"read", "put", "finish", "ended"}, at : 0..MaxFrames]
    BY <1>0, <1>1 DEF LastWordInv
  <2> QED
    BY <1>0, <1>1, <1>3, <2>1, DecodeAssumption DEF DecodeTypeOK
<1>5. /\ \A i \in 1..Len(frameQueue) : frameQueue[i] # DONE /\ frameQueue[i] \in FramesQueued
      /\ \A i \in 1..Len(frameQueue') : i \in 1..Len(frameQueue) \/ i = Len(frameQueue) + 1
  BY <1>0, <1>1, <1>3, LenProperties DEF LastWordInv, FramesQueued, ToSet
<1>6. FrameOrderInv'
  <2>1. CASE decoder.pc = "put"
    <3>1. item = decoder.at /\ item # DONE /\ decoder'.at = decoder.at + 1 /\ item \in Wanted
      BY <1>0, <1>1, <2>1 DEF DONE, LastWordInv
    <3>2. FramesQueued' = FramesQueued \cup {item}
      BY <1>3, <3>1 DEF FramesQueued
    <3>3. {f \in Wanted : f < decoder'.at} = {f \in Wanted : f < decoder.at} \cup {item}
      <4>1. decoder.at \in Nat /\ \A f \in Wanted : f \in Nat
        BY <1>0
      <4>2. \A f \in Wanted : f < decoder'.at <=> f < decoder.at \/ f = item
        BY <3>1, <4>1
      <4> QED
        BY <3>1, <4>2
    <3>4. \A f \in ToSet(fed) \cup FramesQueued : f < item
      BY <1>0, <3>1 DEF FrameOrderInv
    <3>5. \A i, j \in 1..Len(frameQueue') :
             i < j /\ frameQueue'[j] # DONE => frameQueue'[i] < frameQueue'[j]
      <4> SUFFICES ASSUME NEW i \in 1..Len(frameQueue'), NEW j \in 1..Len(frameQueue'), i < j,
                          frameQueue'[j] # DONE
                   PROVE  frameQueue'[i] < frameQueue'[j]
        OBVIOUS
      <4>1. i \in 1..Len(frameQueue)
        BY <1>0, <1>3
      <4>2. CASE j \in 1..Len(frameQueue)
        BY <1>0, <1>3, <4>1, <4>2 DEF FrameOrderInv
      <4>3. CASE j = Len(frameQueue) + 1
        BY <1>3, <1>5, <3>4, <4>1, <4>3
      <4> QED
        BY <1>5, <4>2, <4>3
    <3> QED
      BY <1>0, <1>1, <3>2, <3>3, <3>4, <3>5 DEF FrameOrderInv
  <2>2. CASE decoder.pc = "finish"
    <3>1. item = DONE /\ decoder'.at = decoder.at /\ FramesQueued' = FramesQueued
      BY <1>1, <1>3, <2>2 DEF FramesQueued
    <3>2. \A i, j \in 1..Len(frameQueue') :
             i < j /\ frameQueue'[j] # DONE => frameQueue'[i] < frameQueue'[j]
      <4> SUFFICES ASSUME NEW i \in 1..Len(frameQueue'), NEW j \in 1..Len(frameQueue'), i < j,
                          frameQueue'[j] # DONE
                   PROVE  frameQueue'[i] < frameQueue'[j]
        OBVIOUS
      <4>1. j \in 1..Len(frameQueue) /\ i \in 1..Len(frameQueue)
        BY <1>0, <1>3, <1>5, <3>1
      <4> QED
        BY <1>0, <1>3, <4>1 DEF FrameOrderInv
    <3> QED
      BY <1>0, <1>1, <3>1, <3>2 DEF FrameOrderInv
  <2> QED
    BY <1>1, <2>1, <2>2
<1>7. LastWordInv'
  <2>1. decoder'.at <= readable /\ decoder'.pc # "put"
    BY <1>0, <1>1 DEF LastWordInv
  <2>2. worker \notin {"join", "returned"}
    BY <1>0, <1>1 DEF LastWordInv
  <2>3. \A i \in 1..Len(frameQueue') :
           frameQueue'[i] = DONE => i = Len(frameQueue') /\ decoder'.pc = "ended"
    <3> SUFFICES ASSUME NEW i \in 1..Len(frameQueue'), frameQueue'[i] = DONE
                 PROVE  i = Len(frameQueue') /\ decoder'.pc = "ended"
      OBVIOUS
    <3>1. i = Len(frameQueue) + 1 /\ item = DONE
      BY <1>3, <1>5
    <3>2. decoder.pc # "put"
      BY <1>0, <3>1 DEF DONE
    <3> QED
      BY <1>1, <1>3, <3>1, <3>2
  <2> QED
    BY <1>1, <2>1, <2>2, <2>3 DEF LastWordInv
<1>8. KeptInv'
  BY <1>0, <1>1 DEF KeptInv
<1> QED
  BY <1>4, <1>6, <1>7, <1>8 DEF DecodeInv

LEMMA GetKeepsOrder ==
    ASSUME DecodeInv, GetItem
    PROVE  DecodeInv'
<1> DEFINE h == Head(frameQueue)
<1>0. /\ DecodeTypeOK /\ FrameOrderInv /\ LastWordInv /\ KeptInv
      /\ Wanted \subseteq Nat /\ Wanted' = Wanted
      /\ frameQueue \in Seq(Frames \cup {DONE}) /\ Len(frameQueue) \in Nat
      /\ fed \in Seq(Frames) /\ Len(fed) \in Nat /\ BufferSize \in Nat
  BY WantedFrames, DecodeAssumption DEF DecodeInv, DecodeTypeOK, GetItem, Wanted,
     Contiguous, Span
<1>1. /\ UNCHANGED <<motion, contiguous, readable, decoder, kept>>
      /\ worker = "get" /\ frameQueue # <<>> /\ frameQueue' = Tail(frameQueue)
      /\ \/ h = DONE /\ worker' = "join" /\ fed' = fed
         \/ h # DONE /\ worker' = "track" /\ fed' = Append(fed, h)
  BY DEF GetItem
<1>2. /\ frameQueue' \in Seq(Frames \cup {DONE}) /\ h \in Frames \cup {DONE}
      /\ Len(frameQueue') = Len(frameQueue) - 1
      /\ \A i \in 1..Len(frameQueue') : frameQueue'[i] = frameQueue[i + 1]
      /\ h = frameQueue[1] /\ 1 \in 1..Len(frameQueue)
      /\ ToSet(frameQueue) = ToSet(frameQueue') \cup {h}
      /\ \A i \in 1..Len(frameQueue') : i + 1 \in 1..Len(frameQueue) /\ frameQueue'[i] \in ToSet(frameQueue')
  <2>1. /\ frameQueue' \in Seq(Frames \cup {DONE}) /\ h \in Frames \cup {DONE}
        /\ Len(frameQueue') = Len(frameQueue) - 1
        /\ \A i \in 1..Len(frameQueue') : frameQueue'[i] = frameQueue[i + 1]
    BY <1>0, <1>1, HeadTailProperties
  <2>2. h = frameQueue[1] /\ 1 \in 1..Len(frameQueue)
    BY <1>0, <1>1
  <2>3. DOMAIN frameQueue' = 1..Len(frameQueue')
    BY <2>1, LenProperties
  <2>4. ToSet(frameQueue) = {h} \cup ToSet(frameQueue')
    BY <1>0, <1>1, TailSet
  <2>5. \A i \in 1..Len(frameQueue') : i + 1 \in 1..Len(frameQueue) /\ frameQueue'[i] \in ToSet(frameQueue')
    <3>1. Len(frameQueue') \in Nat /\ \A i \in 1..Len(frameQueue') : i + 1 \in 1..Len(frameQueue)
      BY <1>0, <2>1
    <3> QED
      BY <2>3, <3>1 DEF ToSet
  <2> QED
    BY <2>1, <2>2, <2>4, <2>5
<1> HIDE DEF h
<1>3. LastWordInv'
  <2>1. h = DONE => Len(frameQueue) = 1 /\ decoder.pc = "ended"
    BY <1>0, <1>2 DEF LastWordInv
  <2>2. ASSUME h = DONE PROVE frameQueue' = <<>>
    <3>1. Len(frameQueue') = 0
      BY <1>2, <2>1, <2>2
    <3> QED
      BY <1>2, <3>1, EmptySeq
  <2>3. \A i \in 1..Len(frameQueue') :
           frameQueue'[i] = DONE => i = Len(frameQueue') /\ decoder.pc = "ended"
    BY <1>0, <1>2 DEF LastWordInv
  <2> QED
    BY <1>0, <1>1, <2>1, <2>2, <2>3 DEF LastWordInv
<1>4. \A i, j \in 1..Len(frameQueue') :
         i < j /\ frameQueue'[j] # DONE => frameQueue'[i] < frameQueue'[j]
  <2> SUFFICES ASSUME NEW i \in 1..Len(frameQueue'), NEW j \in 1..Len(frameQueue'), i < j,
                      frameQueue'[j] # DONE
               PROVE  frameQueue'[i] < frameQueue'[j]
    OBVIOUS
  <2>1. i + 1 \in 1..Len(frameQueue) /\ j + 1 \in 1..Len(frameQueue) /\ i + 1 < j + 1
    BY <1>2
  <2> QED
    BY <1>0, <1>2, <2>1 DEF FrameOrderInv
<1>5. CASE h = DONE
  <2>1. FramesQueued' = FramesQueued
    BY <1>2, <1>5 DEF FramesQueued
  <2>2. FrameOrderInv'
    BY <1>0, <1>1, <1>4, <1>5, <2>1 DEF FrameOrderInv
  <2>3. KeptInv'
    BY <1>0, <1>1, <1>5 DEF KeptInv
  <2>4. DecodeTypeOK'
    BY <1>0, <1>1, <1>2, <1>5 DEF DecodeTypeOK
  <2> QED
    BY <1>3, <2>2, <2>3, <2>4 DEF DecodeInv
<1>6. CASE h # DONE
  <2>1. h \in Frames /\ fed' = Append(fed, h) /\ fed \in Seq(Frames)
    BY <1>0, <1>1, <1>2, <1>6
  <2>2. /\ fed' \in Seq(Frames) /\ Len(fed') = Len(fed) + 1
        /\ \A i \in 1..Len(fed) : fed'[i] = fed[i] /\ fed[i] \in ToSet(fed)
        /\ fed'[Len(fed) + 1] = h /\ Last(fed') = h /\ fed' # <<>>
        /\ ToSet(fed') = ToSet(fed) \cup {h}
    <3>1. DOMAIN fed = 1..Len(fed)
      BY <1>0, LenProperties
    <3>2. /\ fed' \in Seq(Frames) /\ Len(fed') = Len(fed) + 1
          /\ \A i \in 1..Len(fed) : fed'[i] = fed[i]
          /\ fed'[Len(fed) + 1] = h
      BY <2>1, AppendProperties
    <3>3. Last(fed') = h /\ fed' # <<>> /\ ToSet(fed') = ToSet(fed) \cup {h}
      BY <2>1, AppendSet
    <3>4. \A i \in 1..Len(fed) : fed[i] \in ToSet(fed)
      BY <3>1 DEF ToSet
    <3> QED
      BY <3>2, <3>3, <3>4
  <2>3. FramesQueued = FramesQueued' \cup {h}
    BY <1>2, <1>6 DEF FramesQueued
  <2>4. \A g \in FramesQueued' : h < g
    <3> SUFFICES ASSUME NEW g \in FramesQueued' PROVE h < g
      OBVIOUS
    <3>1. PICK i \in 1..Len(frameQueue') : frameQueue'[i] = g /\ g # DONE
      BY <1>2, LenProperties DEF FramesQueued, ToSet
    <3>2. frameQueue[i + 1] = g /\ 1 < i + 1 /\ i + 1 \in 1..Len(frameQueue)
      BY <1>2, <3>1
    <3> QED
      BY <1>0, <1>2, <3>1, <3>2 DEF FrameOrderInv
  <2>5. \A f \in ToSet(fed) : f < h
    BY <1>0, <2>3 DEF FrameOrderInv
  <2>6. \A i, j \in 1..Len(fed') : i < j => fed'[i] < fed'[j]
    <3> SUFFICES ASSUME NEW i \in 1..Len(fed'), NEW j \in 1..Len(fed'), i < j
                 PROVE  fed'[i] < fed'[j]
      OBVIOUS
    <3>1. i \in 1..Len(fed) /\ (j \in 1..Len(fed) \/ j = Len(fed) + 1)
      BY <1>0, <2>2
    <3>2. CASE j \in 1..Len(fed)
      BY <1>0, <2>2, <3>1, <3>2 DEF FrameOrderInv
    <3>3. CASE j = Len(fed) + 1
      BY <2>2, <2>5, <3>1, <3>3
    <3> QED
      BY <3>1, <3>2, <3>3
  <2>7. \A f \in ToSet(fed'), g \in FramesQueued' : f < g
    BY <1>0, <2>2, <2>3, <2>4 DEF FrameOrderInv
  <2>8. ToSet(fed') \cup FramesQueued' = {f \in Wanted : f < decoder.at}
    BY <1>0, <2>2, <2>3 DEF FrameOrderInv
  <2>9. FrameOrderInv'
    BY <1>0, <1>1, <1>4, <2>6, <2>7, <2>8 DEF FrameOrderInv
  <2>10. KeptInv'
    BY <1>0, <1>1, <1>6, <2>2 DEF KeptInv
  <2>11. DecodeTypeOK'
    BY <1>0, <1>1, <1>2, <1>6, <2>2 DEF DecodeTypeOK
  <2> QED
    BY <1>3, <2>9, <2>10, <2>11 DEF DecodeInv
<1> QED
  BY <1>5, <1>6

LEMMA WorkerKeepsOrder ==
    ASSUME DecodeInv, TrackFrame \/ TrackerRaises \/ JoinDecoder
    PROVE  DecodeInv'
<1>0. /\ DecodeTypeOK /\ FrameOrderInv /\ LastWordInv /\ KeptInv
  BY DEF DecodeInv
<1>1. /\ UNCHANGED <<motion, contiguous, readable, decoder, frameQueue, fed>>
      /\ \/ worker = "track" /\ worker' = "get" /\ kept' = kept \cup ({Last(fed)} \cap motion)
         \/ worker = "track" /\ worker' = "failed" /\ UNCHANGED kept
         \/ worker = "join" /\ worker' = "returned" /\ UNCHANGED kept
  BY DEF TrackFrame, TrackerRaises, JoinDecoder
<1>2. Wanted' = Wanted /\ FramesQueued' = FramesQueued
  BY <1>1 DEF Wanted, Contiguous, Span, FramesQueued
<1>3. FrameOrderInv'
  BY <1>0, <1>1, <1>2 DEF FrameOrderInv
<1>4. LastWordInv'
  BY <1>0, <1>1, <1>2 DEF LastWordInv
<1>5. KeptInv'
  BY <1>0, <1>1 DEF KeptInv
<1>6. DecodeTypeOK'
  BY <1>0, <1>1 DEF DecodeTypeOK
<1> QED
  BY <1>3, <1>4, <1>5, <1>6 DEF DecodeInv

LEMMA DecodeInvKept == DecodeInv /\ [DecodeNext]_decodeVars => DecodeInv'
<1> SUFFICES ASSUME DecodeInv, [DecodeNext]_decodeVars PROVE DecodeInv'
  OBVIOUS
<1>1. CASE UNCHANGED decodeVars
  BY <1>1 DEF decodeVars, DecodeInv, DecodeTypeOK, FrameOrderInv, LastWordInv, KeptInv, FramesQueued, Wanted,
     Contiguous, Span
<1> QED
  BY <1>1, DecoderKeepsOrder, PutKeepsOrder, GetKeepsOrder, WorkerKeepsOrder
  DEF DecodeNext, DecoderStep, ConsumeStep

(* The queue never holds more than it may, whatever the threads' speeds.   *)
THEOREM DecodeTypeCorrect == DecodeSpec => []DecodeTypeOK
<1>1. DecodeInv => DecodeTypeOK
  BY DEF DecodeInv
<1> QED
  BY <1>1, DecodeInitInv, DecodeInvKept, PTL DEF DecodeSpec

(* For any clip, queue and span, whatever the two threads' speeds: the     *)
(* tracker sees the wanted frames in order without a gap, and the job      *)
(* returns the frames with motion before the point where decoding ended.   *)
THEOREM FramesAreInOrder == DecodeSpec => []FramesInOrder
<1>1. DecodeInv => FramesInOrder
  <2> SUFFICES ASSUME DecodeInv PROVE FramesInOrder
    OBVIOUS
  <2>0. /\ DecodeTypeOK /\ FrameOrderInv /\ LastWordInv /\ KeptInv
        /\ motion \subseteq Wanted /\ Wanted \subseteq Nat
        /\ decoder.at \in Nat
    BY WantedFrames, DecodeAssumption DEF DecodeInv, DecodeTypeOK
  <2>1. ToSet(fed) \subseteq Wanted
    BY <2>0 DEF FrameOrderInv
  <2>2. \A f \in Wanted : (\E g \in ToSet(fed) : f <= g) => f \in ToSet(fed)
    <3> SUFFICES ASSUME NEW f \in Wanted, NEW g \in ToSet(fed), f <= g, f \notin ToSet(fed)
                 PROVE  FALSE
      OBVIOUS
    <3>1. f \in Nat /\ g \in Nat /\ g < decoder.at
      BY <2>0, <2>1 DEF FrameOrderInv
    <3>2. f \in FramesQueued
      BY <2>0, <3>1 DEF FrameOrderInv
    <3> QED
      BY <2>0, <3>1, <3>2 DEF FrameOrderInv
  <2>3. worker = "returned" => kept = {f \in motion : f < decoder.at}
    <3> SUFFICES ASSUME worker = "returned" PROVE kept = {f \in motion : f < decoder.at}
      OBVIOUS
    <3>1. FramesQueued = {}
      BY <2>0 DEF LastWordInv, FramesQueued, ToSet
    <3>2. ToSet(fed) = {f \in Wanted : f < decoder.at}
      BY <2>0, <3>1 DEF FrameOrderInv
    <3> QED
      BY <2>0, <3>2 DEF KeptInv
  <2> QED
    BY <2>0, <2>1, <2>2, <2>3 DEF FramesInOrder, FrameOrderInv
<1> QED
  BY <1>1, DecodeInitInv, DecodeInvKept, PTL DEF DecodeSpec

-------------------------------------------------------------------------------
(* The boxes of a motion frame.                                            *)

Box == [x : Nat, y : Nat, w : Nat, h : Nat]
LoopStates == [pc : {"outer", "inner", "done"}, i : 1..MaxBoxes + 1, j : 1..MaxBoxes + 1,
               box : Box, changed : BOOLEAN]

Covers(b, r) == b.x <= r.x /\ b.y <= r.y

FromRaw(b) ==
    /\ \E r \in ToSet(raw) : r.x = b.x
    /\ \E r \in ToSet(raw) : r.y = b.y
    /\ \E r \in ToSet(raw) : Right(b) <= Right(r)
    /\ \E r \in ToSet(raw) : Bottom(b) <= Bottom(r)

(* The boxes that a round has made so far, and those it has made them of.  *)
Made == ToSet(merged) \cup (IF loop.pc = "inner" THEN {loop.box} ELSE {})
Handled(k) == k < loop.i \/ k \in used \/ (loop.pc = "inner" /\ k = loop.i)

BoundInv ==
    /\ Len(boxes) <= MaxBoxes
    /\ loop.pc # "done" => loop.i <= Len(boxes) + 1 /\ Len(merged) < loop.i
    /\ loop.pc = "inner" => loop.i <= Len(boxes) /\ loop.j <= Len(boxes) + 1

CoverInv ==
    /\ CornersKept
    /\ loop.pc # "done" =>
          \A k \in 1..Len(boxes) : Handled(k) => \E m \in Made : Covers(m, boxes[k])

OriginInv == \A b \in ToSet(boxes) \cup ToSet(merged) \cup {loop.box} : FromRaw(b)

(* A round that has merged nothing so far has copied what it has seen, and *)
(* has found it apart from everything after it.                            *)
Unmerged ==
    /\ used = {}
    /\ Len(merged) = loop.i - 1
    /\ \A k \in 1..Len(merged) : merged[k] = boxes[k]
    /\ \A k, l \in 1..Len(boxes) : k < loop.i /\ k < l => ~Near(boxes[k], boxes[l])
    /\ loop.pc = "inner" =>
          /\ loop.box = boxes[loop.i]
          /\ \A l \in 1..Len(boxes) :
                loop.i < l /\ l < loop.j => ~Near(boxes[loop.i], boxes[l])
ApartInv ==
    /\ loop.pc # "done" /\ ~loop.changed => Unmerged
    /\ loop.pc = "done" => BoxesApart

BoxInv == BoxTypeOK /\ BoundInv /\ CoverInv /\ OriginInv /\ ApartInv

LEMMA RawBoxes == BoxTypeOK => raw \in Seq(Box) /\ ToSet(raw) \subseteq Box
<1> SUFFICES ASSUME BoxTypeOK PROVE raw \in Seq(Box) /\ ToSet(raw) \subseteq Box
  OBVIOUS
<1>1. raw \in Seq(MotionBoxSet) /\ MotionBoxSet \subseteq Box
  BY MotionBoxesAssumption DEF BoxTypeOK, Box
<1>2. Len(raw) \in Nat /\ raw \in [1..Len(raw) -> Box]
  BY <1>1, LenProperties
<1>3. raw \in Seq(Box)
  BY <1>2, SeqDef
<1> QED
  BY <1>3, SeqSet

(* What merging does to two boxes.                                         *)
LEMMA MergeFacts ==
    ASSUME NEW a \in Box, NEW b \in Box
    PROVE  /\ Merge(a, b) \in Box
           /\ Covers(Merge(a, b), a) /\ Covers(Merge(a, b), b)
           /\ Merge(a, b).x \in {a.x, b.x} /\ Merge(a, b).y \in {a.y, b.y}
           /\ \/ Right(Merge(a, b)) <= Right(a)
              \/ Right(Merge(a, b)) <= Right(b)
           /\ \/ Bottom(Merge(a, b)) <= Bottom(a)
              \/ Bottom(Merge(a, b)) <= Bottom(b)
<1> DEFINE x == Lesser(a.x, b.x)
           y == Lesser(a.y, b.y)
           w == Greater(x + a.w, Right(b)) - x
           h == Greater(y + a.h, Bottom(b)) - y
<1>1. /\ a.x \in Nat /\ a.y \in Nat /\ a.w \in Nat /\ a.h \in Nat
      /\ b.x \in Nat /\ b.y \in Nat /\ b.w \in Nat /\ b.h \in Nat
  BY DEF Box
<1>2. x \in {a.x, b.x} /\ y \in {a.y, b.y} /\ x <= a.x /\ x <= b.x /\ y <= a.y /\ y <= b.y
  BY <1>1 DEF Lesser
<1>3. w \in Nat /\ (x + w <= Right(a) \/ x + w <= Right(b))
  BY <1>1, <1>2 DEF Greater, Right
<1>4. h \in Nat /\ (y + h <= Bottom(a) \/ y + h <= Bottom(b))
  BY <1>1, <1>2 DEF Greater, Bottom
<1>5. Merge(a, b) = [x |-> x, y |-> y, w |-> w, h |-> h]
  BY DEF Merge
<1> HIDE DEF x, y, w, h
<1>6. x \in Nat /\ y \in Nat
  BY <1>1, <1>2
<1>7. Merge(a, b) \in Box
  BY <1>3, <1>4, <1>5, <1>6 DEF Box
<1>8. /\ Merge(a, b).x = x /\ Merge(a, b).y = y
      /\ Right(Merge(a, b)) = x + w /\ Bottom(Merge(a, b)) = y + h
  BY <1>5 DEF Right, Bottom
<1> QED
  BY <1>2, <1>3, <1>4, <1>7, <1>8 DEF Covers

LEMMA EdgesAreNumbers ==
    ASSUME NEW b \in Box
    PROVE  /\ b.x \in Nat /\ b.y \in Nat /\ b.w \in Nat /\ b.h \in Nat
           /\ Right(b) \in Nat /\ Bottom(b) \in Nat
  BY DEF Box, Right, Bottom

LEMMA CoversIsTransitive ==
    ASSUME NEW a \in Box, NEW b \in Box, NEW c \in Box, Covers(a, b), Covers(b, c)
    PROVE  Covers(a, c)
  BY EdgesAreNumbers DEF Covers

LEMMA NearIsMutual ==
    ASSUME NEW a \in Box, NEW b \in Box
    PROVE  Near(a, b) <=> Near(b, a)
  BY EdgesAreNumbers, MotionBoxesAssumption DEF Near

LEMMA MergeOrigin ==
    ASSUME BoxTypeOK, NEW a \in Box, NEW b \in Box, FromRaw(a), FromRaw(b)
    PROVE  FromRaw(Merge(a, b))
<1> DEFINE m == Merge(a, b)
<1>1. m \in Box /\ m.x \in {a.x, b.x} /\ m.y \in {a.y, b.y}
      /\ (Right(m) <= Right(a) \/ Right(m) <= Right(b))
      /\ (Bottom(m) <= Bottom(a) \/ Bottom(m) <= Bottom(b))
  BY MergeFacts
<1> HIDE DEF m
<1>2. \A r \in ToSet(raw) : Right(r) \in Nat /\ Bottom(r) \in Nat
  BY RawBoxes, EdgesAreNumbers
<1>3. /\ Right(m) \in Nat /\ Right(a) \in Nat /\ Right(b) \in Nat
      /\ Bottom(m) \in Nat /\ Bottom(a) \in Nat /\ Bottom(b) \in Nat
  BY <1>1, EdgesAreNumbers
<1>4. (\E r \in ToSet(raw) : r.x = m.x) /\ (\E r \in ToSet(raw) : r.y = m.y)
  BY <1>1 DEF FromRaw
<1>5. \E r \in ToSet(raw) : Right(m) <= Right(r)
  <2>1. PICK r \in ToSet(raw) : Right(a) <= Right(r)
    BY DEF FromRaw
  <2>2. PICK s \in ToSet(raw) : Right(b) <= Right(s)
    BY DEF FromRaw
  <2>3. Right(r) \in Nat /\ Right(s) \in Nat
    BY <1>2
  <2> QED
    BY <1>1, <1>3, <2>1, <2>2, <2>3
<1>6. \E r \in ToSet(raw) : Bottom(m) <= Bottom(r)
  <2>1. PICK r \in ToSet(raw) : Bottom(a) <= Bottom(r)
    BY DEF FromRaw
  <2>2. PICK s \in ToSet(raw) : Bottom(b) <= Bottom(s)
    BY DEF FromRaw
  <2>3. Bottom(r) \in Nat /\ Bottom(s) \in Nat
    BY <1>2
  <2> QED
    BY <1>1, <1>3, <2>1, <2>2, <2>3
<1> QED
  BY <1>4, <1>5, <1>6 DEF FromRaw, m

(* What every step may rely on.                                            *)
LEMMA BoxFacts ==
    ASSUME BoxTypeOK
    PROVE  /\ boxes \in Seq(Box) /\ merged \in Seq(Box)
           /\ Len(boxes) \in Nat /\ Len(merged) \in Nat
           /\ \A k \in 1..Len(boxes) : k \in Nat /\ boxes[k] \in Box /\ boxes[k] \in ToSet(boxes)
           /\ ToSet(boxes) \subseteq Box /\ ToSet(merged) \subseteq Box
           /\ loop \in LoopStates /\ loop.i \in Nat /\ loop.j \in Nat /\ loop.box \in Box
           /\ loop.i >= 1 /\ loop.j >= 1
           /\ MaxBoxes \in Nat /\ used \subseteq 1..MaxBoxes /\ Made \subseteq Box
<1>1. boxes \in Seq(Box) /\ merged \in Seq(Box) /\ loop \in LoopStates /\ used \subseteq 1..MaxBoxes
  BY DEF BoxTypeOK, Box, LoopStates
<1>2. loop.i \in 1..MaxBoxes + 1 /\ loop.j \in 1..MaxBoxes + 1 /\ loop.box \in Box
  BY <1>1 DEF LoopStates
<1>3. MaxBoxes \in Nat
  BY MotionBoxesAssumption
<1>4. /\ Len(boxes) \in Nat /\ Len(merged) \in Nat
      /\ \A k \in 1..Len(boxes) : k \in Nat /\ boxes[k] \in Box /\ boxes[k] \in ToSet(boxes)
      /\ ToSet(boxes) \subseteq Box /\ ToSet(merged) \subseteq Box
  BY <1>1, SeqSet
<1>5. Made \subseteq Box
  BY <1>2, <1>4 DEF Made
<1> QED
  BY <1>1, <1>2, <1>3, <1>4, <1>5

LEMMA BoxInitInv == BoxInit => BoxInv
<1> SUFFICES ASSUME BoxInit PROVE BoxInv
  OBVIOUS
<1>1. PICK n \in 1..MaxBoxes : raw \in [1..n -> MotionBoxSet]
  BY DEF BoxInit
<1>2. n \in Nat /\ n >= 1 /\ n <= MaxBoxes /\ MaxBoxes \in Nat /\ MotionBoxSet \subseteq Box
  BY MotionBoxesAssumption DEF Box
<1>3. raw \in Seq(MotionBoxSet) /\ Len(raw) = n /\ raw \in [1..n -> Box]
  <2>1. raw \in Seq(MotionBoxSet)
    BY <1>1, <1>2, SeqDef
  <2>2. Len(raw) \in Nat /\ DOMAIN raw = 1..Len(raw)
    BY <2>1, LenProperties
  <2>3. 1..Len(raw) = 1..n
    BY <1>1, <2>2
  <2> QED
    BY <1>1, <1>2, <2>1, <2>2, <2>3
<1>4. raw \in Seq(Box) /\ raw[1] \in Box
  BY <1>2, <1>3, SeqDef
<1>5. /\ boxes = raw /\ merged = <<>> /\ used = {}
      /\ loop = [pc |-> "outer", i |-> 1, j |-> 1, box |-> raw[1], changed |-> FALSE]
  BY DEF BoxInit
<1>6. loop \in LoopStates
  BY <1>2, <1>4, <1>5 DEF LoopStates
<1>7. <<>> \in Seq(Box) /\ Len(<<>>) = 0 /\ ToSet(<<>>) = {}
  BY EmptySeq DEF ToSet
<1>8. BoxTypeOK
  BY <1>3, <1>4, <1>5, <1>6, <1>7 DEF BoxTypeOK, LoopStates, Box
<1>9. BoundInv
  BY <1>2, <1>3, <1>5, <1>7 DEF BoundInv
<1>10. ToSet(raw) = {raw[k] : k \in 1..n} /\ ToSet(raw) \subseteq Box /\ raw[1] \in ToSet(raw)
  BY <1>2, <1>3, <1>4, SeqSet
<1>11. CoverInv
  <2>1. \A r \in ToSet(raw) : r.x <= r.x /\ r.y <= r.y
    BY <1>10, EdgesAreNumbers
  <2>2. CornersKept
    BY <1>5, <2>1 DEF CornersKept
  <2>3. \A k \in 1..Len(boxes) : ~Handled(k)
    BY <1>2, <1>3, <1>5 DEF Handled
  <2> QED
    BY <2>2, <2>3 DEF CoverInv
<1>12. OriginInv
  <2>1. \A r \in ToSet(raw) : Right(r) <= Right(r) /\ Bottom(r) <= Bottom(r)
    BY <1>10, EdgesAreNumbers
  <2> QED
    BY <1>5, <1>7, <1>10, <2>1 DEF OriginInv, FromRaw
<1>13. ApartInv
  BY <1>2, <1>3, <1>5, <1>7 DEF ApartInv, Unmerged
<1> QED
  BY <1>8, <1>9, <1>11, <1>12, <1>13 DEF BoxInv

LEMMA TakeKeepsBoxes ==
    ASSUME BoxInv, TakeBox
    PROVE  BoxInv'
<1>0. /\ BoxTypeOK /\ BoundInv /\ CoverInv /\ OriginInv /\ ApartInv
      /\ loop.pc = "outer" /\ loop.i <= Len(boxes) /\ UNCHANGED <<raw, boxes, merged, used>>
  BY DEF BoxInv, TakeBox
<1>1. CASE loop.i \in used
  <2>1. loop' = [loop EXCEPT !.i = loop.i + 1]
    BY <1>1 DEF TakeBox
  <2>2. /\ loop' \in LoopStates /\ loop'.pc = "outer" /\ loop'.i = loop.i + 1
        /\ loop'.box = loop.box /\ loop'.changed = loop.changed
    <3>1. loop \in LoopStates /\ loop.i + 1 \in 1..MaxBoxes + 1
      BY <1>0, BoxFacts DEF BoundInv
    <3> QED
      BY <1>0, <2>1, <3>1 DEF LoopStates
  <2>3. BoxTypeOK'
    BY <1>0, <2>2 DEF BoxTypeOK, LoopStates, Box
  <2>4. BoundInv'
    BY <1>0, <2>2, BoxFacts DEF BoundInv
  <2>5. CoverInv'
    <3>1. Made' = Made
      BY <1>0, <2>2 DEF Made
    <3>2. \A k \in 1..Len(boxes) : Handled(k)' => Handled(k)
      BY <1>0, <1>1, <2>2, BoxFacts DEF Handled
    <3> QED
      BY <1>0, <3>1, <3>2 DEF CoverInv, CornersKept
  <2>6. OriginInv'
    BY <1>0, <2>2 DEF OriginInv, FromRaw
  <2>7. ApartInv'
    BY <1>0, <1>1, <2>2 DEF ApartInv, Unmerged
  <2> QED
    BY <2>3, <2>4, <2>5, <2>6, <2>7 DEF BoxInv
<1>2. CASE loop.i \notin used
  <2> DEFINE b == boxes[loop.i]
  <2>0. b \in Box /\ b \in ToSet(boxes) /\ loop.i \in 1..Len(boxes)
    BY <1>0, BoxFacts
  <2>1. loop' = [loop EXCEPT !.pc = "inner", !.j = loop.i + 1, !.box = b]
    BY <1>2 DEF TakeBox
  <2>2. /\ loop' \in LoopStates /\ loop'.pc = "inner" /\ loop'.i = loop.i
        /\ loop'.j = loop.i + 1 /\ loop'.box = b /\ loop'.changed = loop.changed
    <3>1. loop \in LoopStates /\ loop.i + 1 \in 1..MaxBoxes + 1
      BY <1>0, BoxFacts DEF BoundInv
    <3> HIDE DEF b
    <3> QED
      BY <2>0, <2>1, <3>1 DEF LoopStates
  <2>3. BoxTypeOK'
    BY <1>0, <2>2 DEF BoxTypeOK, LoopStates, Box
  <2>4. BoundInv'
    BY <1>0, <2>2, BoxFacts DEF BoundInv
  <2>5. CoverInv'
    <3>1. Made' = ToSet(merged) \cup {b} /\ Made = ToSet(merged)
      BY <1>0, <2>2 DEF Made
    <3>2. \A k \in 1..Len(boxes) : Handled(k)' => Handled(k) \/ k = loop.i
      BY <1>0, <2>2 DEF Handled
    <3>3. Covers(b, b)
      BY <2>0, EdgesAreNumbers DEF Covers
    <3>4. \A k \in 1..Len(boxes) : Handled(k)' => \E m \in Made' : Covers(m, boxes[k])
      BY <1>0, <3>1, <3>2, <3>3 DEF CoverInv
    <3> QED
      BY <1>0, <3>4 DEF CoverInv, CornersKept
  <2>6. OriginInv'
    BY <1>0, <2>0, <2>2 DEF OriginInv, FromRaw
  <2>7. ApartInv'
    <3> SUFFICES ASSUME ~loop.changed PROVE Unmerged'
      BY <2>2 DEF ApartInv
    <3>1. Unmerged
      BY <1>0 DEF ApartInv
    <3>2. \A l \in 1..Len(boxes) : ~(loop'.i < l /\ l < loop'.j)
      BY <2>2, BoxFacts, <1>0
    <3> QED
      BY <1>0, <2>2, <3>1, <3>2 DEF Unmerged, Near
  <2> QED
    BY <2>3, <2>4, <2>5, <2>6, <2>7 DEF BoxInv
<1> QED
  BY <1>1, <1>2

LEMMA CompareKeepsBoxes ==
    ASSUME BoxInv, CompareBox
    PROVE  BoxInv'
<1> DEFINE b == boxes[loop.j]
           m == Merge(loop.box, b)
<1>0. /\ BoxTypeOK /\ BoundInv /\ CoverInv /\ OriginInv /\ ApartInv
      /\ loop.pc = "inner" /\ loop.j <= Len(boxes) /\ UNCHANGED <<raw, boxes, merged>>
      /\ loop.i <= Len(boxes)
  BY DEF BoxInv, CompareBox, BoundInv
<1>1. b \in Box /\ b \in ToSet(boxes) /\ loop.j \in 1..Len(boxes)
  BY <1>0, BoxFacts
<1>2. CASE loop.j \notin used /\ Near(loop.box, b)
  <2>1. /\ used' = used \cup {loop.j}
        /\ loop' = [loop EXCEPT !.j = loop.j + 1, !.box = m, !.changed = TRUE]
    BY <1>2 DEF CompareBox
  <2>2. m \in Box /\ Covers(m, loop.box) /\ Covers(m, b)
    BY <1>0, <1>1, BoxFacts, MergeFacts
  <2> HIDE DEF m
  <2>3. /\ loop' \in LoopStates /\ loop'.pc = "inner" /\ loop'.i = loop.i
        /\ loop'.j = loop.j + 1 /\ loop'.box = m /\ loop'.changed = TRUE
    <3>1. loop \in LoopStates /\ loop.j + 1 \in 1..MaxBoxes + 1
      BY <1>0, BoxFacts DEF BoundInv
    <3> QED
      BY <1>0, <2>1, <2>2, <3>1 DEF LoopStates
  <2>4. BoxTypeOK'
    <3>1. used' \subseteq 1..MaxBoxes
      BY <1>0, <1>1, <2>1, BoxFacts DEF BoundInv
    <3> QED
      BY <1>0, <2>3, <3>1 DEF BoxTypeOK, LoopStates, Box
  <2>5. BoundInv'
    BY <1>0, <2>3, BoxFacts DEF BoundInv
  <2>6. CoverInv'
    <3>1. Made' = ToSet(merged) \cup {m} /\ Made = ToSet(merged) \cup {loop.box}
      BY <1>0, <2>3 DEF Made
    <3>2. \A k \in 1..Len(boxes) : Handled(k)' => Handled(k) \/ k = loop.j
      BY <1>0, <2>1, <2>3 DEF Handled
    <3>3. ASSUME NEW k \in 1..Len(boxes), Handled(k)'
          PROVE  \E c \in Made' : Covers(c, boxes[k])
      <4>1. CASE k = loop.j
        BY <2>2, <3>1, <4>1
      <4>2. CASE Handled(k)
        <5>1. PICK c \in Made : Covers(c, boxes[k])
          BY <1>0, <4>2 DEF CoverInv
        <5>2. CASE c \in ToSet(merged)
          BY <3>1, <5>1, <5>2
        <5>3. CASE c = loop.box
          <6>1. boxes[k] \in Box /\ loop.box \in Box
            BY <1>0, BoxFacts
          <6>2. Covers(m, boxes[k])
            BY <2>2, <5>1, <5>3, <6>1, CoversIsTransitive
          <6> QED
            BY <3>1, <6>2
        <5> QED
          BY <3>1, <5>1, <5>2, <5>3
      <4> QED
        BY <3>2, <3>3, <4>1, <4>2
    <3> QED
      BY <1>0, <3>3 DEF CoverInv, CornersKept
  <2>7. OriginInv'
    <3>1. FromRaw(loop.box) /\ FromRaw(b)
      BY <1>0, <1>1 DEF OriginInv
    <3>2. FromRaw(m)
      BY <1>0, <1>1, <3>1, BoxFacts, MergeOrigin DEF m
    <3> QED
      BY <1>0, <2>3, <3>2 DEF OriginInv, FromRaw
  <2>8. ApartInv'
    BY <2>3 DEF ApartInv
  <2> QED
    BY <2>4, <2>5, <2>6, <2>7, <2>8 DEF BoxInv
<1>3. CASE ~(loop.j \notin used /\ Near(loop.box, b))
  <2>1. used' = used /\ loop' = [loop EXCEPT !.j = loop.j + 1]
    BY <1>3 DEF CompareBox
  <2>2. /\ loop' \in LoopStates /\ loop'.pc = "inner" /\ loop'.i = loop.i
        /\ loop'.j = loop.j + 1 /\ loop'.box = loop.box /\ loop'.changed = loop.changed
    BY <1>0, <2>1, BoxFacts DEF LoopStates, BoundInv
  <2>3. BoxTypeOK'
    BY <1>0, <2>1, <2>2 DEF BoxTypeOK, LoopStates, Box
  <2>4. BoundInv'
    BY <1>0, <2>2, BoxFacts DEF BoundInv
  <2>5. CoverInv'
    <3>1. Made' = Made
      BY <1>0, <2>2 DEF Made
    <3>2. \A k \in 1..Len(boxes) : Handled(k)' => Handled(k)
      BY <1>0, <2>1, <2>2 DEF Handled
    <3> QED
      BY <1>0, <3>1, <3>2 DEF CoverInv, CornersKept
  <2>6. OriginInv'
    BY <1>0, <2>2 DEF OriginInv, FromRaw
  <2>7. ApartInv'
    <3> SUFFICES ASSUME ~loop.changed PROVE Unmerged'
      BY <2>2 DEF ApartInv
    <3>1. Unmerged
      BY <1>0 DEF ApartInv
    <3>2. ~Near(boxes[loop.i], b)
      BY <1>0, <1>3, <3>1 DEF Unmerged
    <3> HIDE DEF b
    <3>3. \A l \in 1..Len(boxes) : l < loop.j + 1 => l < loop.j \/ l = loop.j
      BY <1>0, BoxFacts
    <3>4. \A l \in 1..Len(boxes) : loop.i < l /\ l < loop.j + 1 => ~Near(boxes[loop.i], boxes[l])
      BY <1>0, <3>1, <3>2, <3>3 DEF Unmerged, b
    <3> QED
      BY <1>0, <2>1, <2>2, <3>1, <3>4 DEF Unmerged
  <2> QED
    BY <2>3, <2>4, <2>5, <2>6, <2>7 DEF BoxInv
<1> QED
  BY <1>2, <1>3

LEMMA AppendKeepsBoxes ==
    ASSUME BoxInv, AppendBox
    PROVE  BoxInv'
<1>0. /\ BoxTypeOK /\ BoundInv /\ CoverInv /\ OriginInv /\ ApartInv
      /\ loop.pc = "inner" /\ loop.j > Len(boxes) /\ UNCHANGED <<raw, boxes, used>>
      /\ merged' = Append(merged, loop.box) /\ loop.i <= Len(boxes)
      /\ loop' = [loop EXCEPT !.pc = "outer", !.i = loop.i + 1]
  BY DEF BoxInv, AppendBox, BoundInv
<1>1. /\ loop' \in LoopStates /\ loop'.pc = "outer" /\ loop'.i = loop.i + 1
      /\ loop'.box = loop.box /\ loop'.changed = loop.changed
  <2>1. loop \in LoopStates /\ loop.i + 1 \in 1..MaxBoxes + 1
    BY <1>0, BoxFacts DEF BoundInv
  <2> QED
    BY <1>0, <2>1 DEF LoopStates
<1>2. /\ merged' \in Seq(Box) /\ Len(merged') = Len(merged) + 1
      /\ ToSet(merged') = ToSet(merged) \cup {loop.box}
      /\ \A k \in 1..Len(merged) : merged'[k] = merged[k]
      /\ merged'[Len(merged) + 1] = loop.box
  <2>1. merged \in Seq(Box) /\ loop.box \in Box
    BY <1>0, BoxFacts
  <2> QED
    BY <1>0, <2>1, AppendSet
<1>3. BoxTypeOK'
  BY <1>0, <1>1, <1>2 DEF BoxTypeOK, LoopStates, Box
<1>4. BoundInv'
  BY <1>0, <1>1, <1>2, BoxFacts DEF BoundInv
<1>5. CoverInv'
  <2>1. Made' = Made
    BY <1>0, <1>1, <1>2 DEF Made
  <2>2. \A k \in 1..Len(boxes) : Handled(k)' => Handled(k)
    BY <1>0, <1>1, BoxFacts DEF Handled
  <2> QED
    BY <1>0, <2>1, <2>2 DEF CoverInv, CornersKept
<1>6. OriginInv'
  BY <1>0, <1>1, <1>2 DEF OriginInv, FromRaw
<1>7. ApartInv'
  <2> SUFFICES ASSUME ~loop.changed PROVE Unmerged'
    BY <1>1 DEF ApartInv
  <2>1. Unmerged
    BY <1>0 DEF ApartInv
  <2>2. Len(merged') = loop'.i - 1 /\ Len(merged) + 1 = loop.i
    BY <1>0, <1>1, <1>2, <2>1, BoxFacts DEF Unmerged
  <2>3. \A k \in 1..Len(merged') : merged'[k] = boxes[k]
    <3> SUFFICES ASSUME NEW k \in 1..Len(merged') PROVE merged'[k] = boxes[k]
      OBVIOUS
    <3>1. k \in 1..Len(merged) \/ k = loop.i
      BY <1>0, <1>2, <2>2, BoxFacts
    <3>2. merged'[loop.i] = boxes[loop.i]
      BY <1>0, <1>2, <2>1, <2>2 DEF Unmerged
    <3> QED
      BY <1>2, <2>1, <3>1, <3>2 DEF Unmerged
  <2>4. \A k, l \in 1..Len(boxes) : k < loop.i + 1 /\ k < l => ~Near(boxes[k], boxes[l])
    <3> SUFFICES ASSUME NEW k \in 1..Len(boxes), NEW l \in 1..Len(boxes), k < loop.i + 1, k < l
                 PROVE  ~Near(boxes[k], boxes[l])
      OBVIOUS
    <3>1. k < loop.i \/ k = loop.i
      BY <1>0, BoxFacts
    <3>2. l < loop.j
      BY <1>0, BoxFacts
    <3> QED
      BY <1>0, <2>1, <3>1, <3>2 DEF Unmerged
  <2> QED
    BY <1>0, <1>1, <2>1, <2>2, <2>3, <2>4 DEF Unmerged
<1> QED
  BY <1>3, <1>4, <1>5, <1>6, <1>7 DEF BoxInv

LEMMA EndKeepsBoxes ==
    ASSUME BoxInv, EndRound
    PROVE  BoxInv'
<1>0. /\ BoxTypeOK /\ BoundInv /\ CoverInv /\ OriginInv /\ ApartInv
      /\ loop.pc = "outer" /\ loop.i > Len(boxes) /\ raw' = raw /\ boxes' = merged
  BY DEF BoxInv, EndRound
<1>1. Len(merged) <= Len(boxes) /\ Len(merged) <= MaxBoxes
  BY <1>0, BoxFacts DEF BoundInv
<1>2. CornersKept'
  <2> SUFFICES ASSUME NEW r \in ToSet(raw) PROVE \E m \in ToSet(merged) : Covers(m, r)
    BY <1>0 DEF CornersKept, Covers
  <2>1. PICK b \in ToSet(boxes) : Covers(b, r)
    BY <1>0 DEF CoverInv, CornersKept, Covers
  <2>2. PICK k \in 1..Len(boxes) : b = boxes[k]
    BY <1>0, <2>1, BoxFacts, SeqSet
  <2>3. Handled(k)
    BY <1>0, BoxFacts DEF Handled
  <2>4. PICK m \in Made : Covers(m, b)
    BY <1>0, <2>2, <2>3 DEF CoverInv
  <2>5. m \in ToSet(merged)
    BY <1>0, <2>4 DEF Made
  <2>6. m \in Box /\ b \in Box /\ r \in Box
    BY <1>0, <2>1, <2>5, BoxFacts, RawBoxes
  <2> QED
    BY <2>1, <2>4, <2>5, <2>6, CoversIsTransitive
<1>3. CASE loop.changed
  <2>1. /\ loop' = [loop EXCEPT !.i = 1, !.changed = FALSE]
        /\ merged' = <<>> /\ used' = {}
    BY <1>3 DEF EndRound
  <2>2. /\ loop' \in LoopStates /\ loop'.pc = "outer" /\ loop'.i = 1
        /\ loop'.box = loop.box /\ loop'.changed = FALSE
    <3>1. loop \in LoopStates /\ 1 \in 1..MaxBoxes + 1
      BY <1>0, BoxFacts
    <3> QED
      BY <1>0, <2>1, <3>1 DEF LoopStates
  <2>3. merged' \in Seq(Box) /\ Len(merged') = 0 /\ ToSet(merged') = {}
    BY <2>1, EmptySeq DEF ToSet
  <2>4. BoxTypeOK'
    BY <1>0, <2>1, <2>2, <2>3 DEF BoxTypeOK, LoopStates, Box
  <2>5. BoundInv'
    BY <1>0, <1>1, <2>2, <2>3, BoxFacts DEF BoundInv
  <2>6. CoverInv'
    <3>1. \A k \in 1..Len(boxes') : ~Handled(k)'
      BY <1>0, <2>1, <2>2, BoxFacts DEF Handled
    <3> QED
      BY <1>2, <3>1 DEF CoverInv
  <2>7. OriginInv'
    BY <1>0, <2>2, <2>3 DEF OriginInv, FromRaw
  <2>8. ApartInv'
    BY <1>0, <2>1, <2>2, <2>3, BoxFacts DEF ApartInv, Unmerged
  <2> QED
    BY <2>4, <2>5, <2>6, <2>7, <2>8 DEF BoxInv
<1>4. CASE ~loop.changed
  <2>1. loop' = [loop EXCEPT !.pc = "done"] /\ UNCHANGED <<merged, used>>
    BY <1>4 DEF EndRound
  <2>2. loop' \in LoopStates /\ loop'.pc = "done" /\ loop'.box = loop.box
    BY <1>0, <2>1, BoxFacts DEF LoopStates
  <2>3. BoxTypeOK'
    BY <1>0, <2>1, <2>2 DEF BoxTypeOK, LoopStates, Box
  <2>4. BoundInv'
    BY <1>0, <1>1, <2>2 DEF BoundInv
  <2>5. CoverInv'
    BY <1>2, <2>2 DEF CoverInv
  <2>6. OriginInv'
    BY <1>0, <2>1, <2>2 DEF OriginInv, FromRaw
  <2>7. BoxesApart'
    <3>1. Unmerged
      BY <1>0, <1>4 DEF ApartInv
    <3>2. Len(merged) = Len(boxes) /\ \A k \in 1..Len(boxes) : k < loop.i /\ merged[k] = boxes[k]
      BY <1>0, <3>1, BoxFacts DEF Unmerged, BoundInv
    <3> SUFFICES ASSUME NEW k \in 1..Len(boxes), NEW l \in 1..Len(boxes), k # l
                 PROVE  ~Near(boxes[k], boxes[l])
      BY <1>0, <3>2 DEF BoxesApart
    <3>3. boxes[k] \in Box /\ boxes[l] \in Box /\ (k < l \/ l < k)
      BY <1>0, BoxFacts
    <3>4. CASE k < l
      BY <3>1, <3>2, <3>4 DEF Unmerged
    <3>5. CASE l < k
      BY <3>1, <3>2, <3>3, <3>5, NearIsMutual DEF Unmerged
    <3> QED
      BY <3>3, <3>4, <3>5
  <2>8. ApartInv'
    BY <2>2, <2>7 DEF ApartInv
  <2> QED
    BY <2>3, <2>4, <2>5, <2>6, <2>8 DEF BoxInv
<1> QED
  BY <1>3, <1>4

LEMMA BoxInvKept == BoxInv /\ [BoxNext]_boxVars => BoxInv'
<1> SUFFICES ASSUME BoxInv, [BoxNext]_boxVars PROVE BoxInv'
  OBVIOUS
<1>1. CASE TakeBox
  BY <1>1, TakeKeepsBoxes
<1>2. CASE CompareBox
  BY <1>2, CompareKeepsBoxes
<1>3. CASE AppendBox
  BY <1>3, AppendKeepsBoxes
<1>4. CASE EndRound
  BY <1>4, EndKeepsBoxes
<1>5. CASE UNCHANGED boxVars
  <2>1. BoxTypeOK'
    BY <1>5 DEF boxVars, BoxInv, BoxTypeOK
  <2>2. BoundInv' /\ OriginInv'
    BY <1>5 DEF boxVars, BoxInv, BoundInv, OriginInv, FromRaw
  <2>3. CoverInv'
    BY <1>5 DEF boxVars, BoxInv, CoverInv, CornersKept, Made, Handled
  <2>4. ApartInv'
    BY <1>5 DEF boxVars, BoxInv, ApartInv, Unmerged, BoxesApart
  <2> QED
    BY <2>1, <2>2, <2>3, <2>4 DEF BoxInv
<1> QED
  BY <1>1, <1>2, <1>3, <1>4, <1>5 DEF BoxNext

LEMMA BoxInvHolds == BoxSpec => []BoxInv
  BY BoxInitInv, BoxInvKept, PTL DEF BoxSpec

(* A box never gets a negative size, and a round never makes more boxes    *)
(* than it began with.                                                     *)
THEOREM BoxTypeCorrect == BoxSpec => []BoxTypeOK
<1>1. BoxInv => BoxTypeOK
  BY DEF BoxInv
<1> QED
  BY <1>1, BoxInvHolds, PTL

(* Scaling gives a number, since the frame has a height.                   *)
LEMMA ScaledIsANumber ==
    ASSUME NEW n \in Nat
    PROVE  Scaled(n) \in Nat
<1>1. ClipSize.h \in Nat /\ MotionSize.h \in Nat /\ MotionSize.h > 0
  BY MotionBoxesAssumption
<1> DEFINE c == ClipSize.h
           d == MotionSize.h
           p == n * c
<1> HIDE DEF c, d
<1>2. c \in Nat /\ d \in Nat /\ d > 0
  BY <1>1 DEF c, d
<1>3. p \in Nat
  BY <1>2
<1> HIDE DEF p
<1>4. p \div d \in Nat
  BY <1>2, <1>3
<1> QED
  BY <1>4 DEF Scaled, c, d, p

LEMMA ReportedWithinClip == BoxTypeOK => WithinClip
<1> SUFFICES ASSUME BoxTypeOK, NEW b \in ToSet(boxes)
             PROVE  LET c == Clipped(b)
                    IN  c.x >= 0 /\ c.y >= 0 /\ Right(c) <= ClipSize.w /\ Bottom(c) <= ClipSize.h
  BY DEF WithinClip, Reported
<1>1. b \in Box
  BY BoxFacts
<1> DEFINE x == Scaled(b.x)
           y == Scaled(b.y)
           w == Scaled(b.w)
           h == Scaled(b.h)
<1>2. x \in Nat /\ y \in Nat /\ w \in Nat /\ h \in Nat
  BY <1>1, EdgesAreNumbers, ScaledIsANumber
<1>3. ClipSize.w \in Nat /\ ClipSize.h \in Nat
  BY MotionBoxesAssumption
<1>4. Clipped(b) = [x |-> x, y |-> y, w |-> Lesser(w, ClipSize.w - x),
                    h |-> Lesser(h, ClipSize.h - y)]
  BY DEF Clipped
<1> HIDE DEF x, y, w, h
<1>5. /\ Clipped(b).x = x /\ Clipped(b).y = y
      /\ Right(Clipped(b)) = x + Lesser(w, ClipSize.w - x)
      /\ Bottom(Clipped(b)) = y + Lesser(h, ClipSize.h - y)
  BY <1>4 DEF Right, Bottom
<1>6. x + Lesser(w, ClipSize.w - x) <= ClipSize.w /\ y + Lesser(h, ClipSize.h - y) <= ClipSize.h
  BY <1>2, <1>3 DEF Lesser
<1> QED
  BY <1>2, <1>5, <1>6

(* For any contours: what the rounds leave are boxes that lie apart, keep  *)
(* every contour's corner and invent no edge, and the report stays within  *)
(* the clip's frame.                                                       *)
THEOREM BoxesAreMerged == BoxSpec => []MergedBoxes
<1>1. BoxInv => MergedBoxes
  <2> SUFFICES ASSUME BoxInv, loop.pc = "done"
               PROVE  BoxesApart /\ CornersKept /\ NothingInvented /\ WithinClip
    BY DEF MergedBoxes
  <2>1. BoxesApart /\ CornersKept
    BY DEF BoxInv, ApartInv, CoverInv
  <2>2. NothingInvented
    BY DEF BoxInv, OriginInv, FromRaw, NothingInvented
  <2>3. WithinClip
    BY ReportedWithinClip DEF BoxInv
  <2> QED
    BY <2>1, <2>2, <2>3
<1> QED
  BY <1>1, BoxInvHolds, PTL

-------------------------------------------------------------------------------
(* Merging of fragments.                                                   *)

(* A fragment that has been dealt with is where its best predecessor is.   *)
Joined(j) == parent[j] = IF Best(j) = None THEN j ELSE parent[Best(j)]

ForestInv ==
    /\ merge.pc \in {"pick", "find_a", "find_b"} =>
          \A j \in Positions : IF j < merge.at THEN Joined(j) ELSE parent[j] = j
    /\ merge.pc \in {"find_a", "find_b"} => Best(merge.at) # None
    /\ merge.pc = "find_a" => merge.x \in {Best(merge.at), parent[Best(merge.at)]}
    /\ merge.pc = "find_b" => merge.x = merge.at /\ merge.root = parent[Best(merge.at)]
    /\ merge.pc \in {"canon", "done"} => \A j \in Positions : Joined(j)
    /\ merge.pc = "canon" => merge.x \in {merge.at, parent[merge.at]}

(* The fragments that the last loop has found.                             *)
Found == CASE merge.pc = "canon" -> {j \in Positions : j < merge.at}
           [] merge.pc = "done"  -> Positions
           [] OTHER -> {}

CanonInv ==
    /\ merge.pc \in {"pick", "find_a", "find_b"} => \A r \in Positions : canon[r] = None
    /\ \A r \in Positions : canon[r] # None => parent[canon[r]] = r
    /\ \A j \in Found : canon[parent[j]] # None /\ ~Before(j, canon[parent[j]])

MergeInv == MergeTypeOK /\ FlatForest /\ ForestInv /\ CanonInv

(* Of finitely many numbered things one has the greatest value, and of     *)
(* those the greatest number.                                              *)
LEMMA BestOf ==
    ASSUME NEW C \in SUBSET Nat, NEW m \in Nat, C # {}, \A c \in C : c <= m,
           NEW g \in [C -> Nat]
    PROVE  \E a \in C : \A c \in C : g[c] < g[a] \/ (g[c] = g[a] /\ c <= a)
<1> DEFINE Upto(n) == {c \in C : c <= n}
           IsBest(a, D) == \A c \in D : g[c] < g[a] \/ (g[c] = g[a] /\ c <= a)
           Bad == {n \in Nat : Upto(n) # {} /\ \A a \in Upto(n) : ~IsBest(a, Upto(n))}
<1>1. Bad = {}
  <2> SUFFICES ASSUME Bad # {} PROVE FALSE
    OBVIOUS
  <2>1. PICK n \in Bad : \A k \in Bad : n <= k
    BY LeastOf
  <2>2. n \in C
    <3> SUFFICES ASSUME n \notin C PROVE FALSE
      OBVIOUS
    <3>1. PICK c \in C : c <= n
      BY <2>1
    <3>2. c \in Nat /\ n \in Nat /\ c < n /\ n - 1 \in Nat
      <4>1. c \in Nat /\ n \in Nat /\ c # n /\ c <= n
        BY <2>1, <3>1
      <4> QED
        BY <4>1
    <3>3. Upto(n - 1) = Upto(n)
      <4>1. \A k \in C : k <= n - 1 <=> k <= n
        BY <3>2
      <4> QED
        BY <4>1
    <3>4. n - 1 \in Bad
      BY <2>1, <3>2, <3>3
    <3> QED
      BY <2>1, <3>2, <3>4
  <2>3. n \in Nat /\ n \in Upto(n) /\ ~IsBest(n, Upto(n))
    BY <2>1, <2>2
  <2>4. CASE Upto(n) = {n}
    BY <2>3, <2>4
  <2>5. CASE Upto(n) # {n}
    <3>1. PICK c \in Upto(n) : c # n
      BY <2>3, <2>5
    <3>2. n - 1 \in Nat /\ c \in Upto(n - 1) /\ Upto(n) = Upto(n - 1) \cup {n}
      <4>1. c \in Nat /\ c < n /\ n - 1 \in Nat
        BY <2>3, <3>1
      <4>2. \A k \in C : k <= n <=> (k <= n - 1 \/ k = n)
        BY <2>3
      <4> QED
        BY <2>2, <3>1, <4>1, <4>2
    <3>3. n - 1 \notin Bad
      BY <2>1, <2>3
    <3>4. PICK a \in Upto(n - 1) : IsBest(a, Upto(n - 1))
      BY <3>2, <3>3
    <3>5. a \in C /\ a \in Nat /\ a < n /\ a \in Upto(n)
      BY <2>3, <3>2, <3>4
    <3>6. CASE g[n] < g[a]
      <4>1. IsBest(a, Upto(n))
        BY <3>2, <3>4, <3>6
      <4> QED
        BY <2>1, <3>5, <4>1
    <3>7. CASE ~(g[n] < g[a])
      <4>1. \A k \in Upto(n - 1) : g[k] \in Nat /\ k \in Nat /\ k < n
        BY <2>3
      <4>2. g[n] \in Nat /\ g[a] \in Nat
        BY <2>2, <3>5
      <4>3. IsBest(n, Upto(n))
        BY <2>3, <3>2, <3>4, <3>5, <3>7, <4>1, <4>2
      <4> QED
        BY <2>3, <4>3
    <3> QED
      BY <3>6, <3>7
  <2> QED
    BY <2>4, <2>5
<1>2. Upto(m) = C
  OBVIOUS
<1> HIDE DEF Upto
<1>3. m \notin Bad
  BY <1>1
<1> QED
  BY <1>2, <1>3

(* Best picks a fragment that may be continued, if there is one.           *)
LEMMA BestPrecedes ==
    ASSUME MergeTypeOK, NEW b \in Positions
    PROVE  Best(b) = None \/ (Best(b) \in Positions /\ Precedes(Best(b), b))
<1> DEFINE candidates == {a \in Positions : Precedes(a, b)}
           g == [a \in candidates |-> overlap[<<a, b>>]]
<1>1. CASE candidates = {}
  BY <1>1 DEF Best
<1>2. CASE candidates # {}
  <2>1. candidates \in SUBSET Nat /\ MaxTracks \in Nat /\ \A c \in candidates : c <= MaxTracks
    BY TrackMergeAssumption DEF Positions
  <2>2. ASSUME NEW a \in candidates PROVE overlap[<<a, b>>] \in Nat
    <3>1. <<a, b>> \in Pairs
      BY DEF Precedes, Pairs
    <3> QED
      BY <3>1, TrackMergeAssumption DEF MergeTypeOK
  <2>3. g \in [candidates -> Nat]
    BY <2>2
  <2> HIDE DEF g
  <2>4. PICK a \in candidates : \A c \in candidates : g[c] < g[a] \/ (g[c] = g[a] /\ c <= a)
    BY <1>2, <2>1, <2>3, BestOf
  <2>5. \A c \in candidates : \/ overlap[<<c, b>>] < overlap[<<a, b>>]
                              \/ overlap[<<c, b>>] = overlap[<<a, b>>] /\ c <= a
    BY <2>4 DEF g
  <2>6. Best(b) \in candidates
    BY <1>2, <2>5 DEF Best
  <2> QED
    BY <2>6
<1> QED
  BY <1>1, <1>2

(* What the code may rely on when it looks at a fragment.                  *)
LEMMA BestIsEarlier ==
    ASSUME MergeTypeOK, NEW b \in Positions, Best(b) # None
    PROVE  /\ Best(b) \in Positions /\ Best(b) < b /\ class[Best(b)] = class[b]
           /\ tracks[b].first - tracks[Best(b)].last >= 0
<1>1. Best(b) \in Positions /\ Precedes(Best(b), b)
  BY BestPrecedes
<1> DEFINE a == Best(b)
<1> HIDE DEF a
<1>2. a \in Positions /\ Precedes(a, b)
  BY <1>1 DEF a
<1>3. tracks[b].first - tracks[a].last \in 0..MaxGap /\ MaxGap \in Nat
  BY <1>2, TrackMergeAssumption DEF Precedes
<1>4. tracks[b].first - tracks[a].last >= 0
  BY <1>3
<1>5. a < b /\ class[a] = class[b]
  BY <1>2 DEF Precedes
<1> QED
  BY <1>2, <1>4, <1>5 DEF a

LEMMA MergeInitInv == MergeInit => MergeInv
<1> SUFFICES ASSUME MergeInit PROVE MergeInv
  OBVIOUS
<1>1. 1 \in Positions /\ None \notin Positions /\ \A j \in Positions : ~(j < 1)
  BY TrackMergeAssumption DEF Positions, None
<1>2. MergeTypeOK
  BY <1>1 DEF MergeInit, MergeTypeOK
<1>3. FlatForest
  BY <1>1 DEF MergeInit, FlatForest, Positions
<1>4. merge.pc = "pick" /\ merge.at = 1
  BY DEF MergeInit
<1>5. ForestInv
  BY <1>1, <1>4 DEF MergeInit, ForestInv
<1>6. CanonInv
  BY <1>4 DEF MergeInit, CanonInv, Found
<1> QED
  BY <1>2, <1>3, <1>5, <1>6 DEF MergeInv

(* The steps leave the input alone, and with it the best predecessors.     *)
LEMMA InputStays ==
    ASSUME UNCHANGED mergeInput
    PROVE  /\ \A j : Best(j)' = Best(j)
           /\ \A a, b : Before(a, b)' = Before(a, b)
  BY DEF mergeInput, Best, Precedes, Before

MergeStates == [pc : {"pick", "find_a", "find_b", "canon", "done"},
                at : Positions, x : Positions, root : Positions]

(* The end of one turn of the loop over later fragments, which has made    *)
(* the forest P: the next fragment, or the last loop.                      *)
LEMMA NextFragment ==
    ASSUME MergeInv, UNCHANGED <<mergeInput, canon>>,
           merge.pc \in {"pick", "find_b"},
           merge' = IF merge.at < MaxTracks THEN [merge EXCEPT !.pc = "pick", !.at = @ + 1]
                    ELSE [merge EXCEPT !.pc = "canon", !.at = 1, !.x = 1],
           parent' \in [Positions -> Positions], FlatForest',
           \A j \in Positions : j < merge.at + 1 => Joined(j)',
           \A j \in Positions : ~(j < merge.at + 1) => parent'[j] = j,
           \A r \in Positions : canon[r] = None
    PROVE  MergeInv'
<1>0. /\ MergeTypeOK /\ ForestInv /\ CanonInv /\ merge \in MergeStates
      /\ merge.at \in Positions /\ 1 \in Positions /\ MaxTracks \in Nat
      /\ \A j \in Positions : j \in Nat /\ ~(j < 1) /\ j <= MaxTracks
  BY TrackMergeAssumption DEF MergeInv, MergeTypeOK, MergeStates, Positions
<1>1. CASE merge.at < MaxTracks
  <2>1. merge.at + 1 \in Positions
    BY <1>0, <1>1 DEF Positions
  <2>2. merge' = [merge EXCEPT !.pc = "pick", !.at = merge.at + 1]
    BY <1>1
  <2>3. merge' \in MergeStates /\ merge'.pc = "pick" /\ merge'.at = merge.at + 1
    BY <1>0, <2>1, <2>2 DEF MergeStates
  <2>4. MergeTypeOK'
    BY <1>0, <2>3 DEF MergeTypeOK, MergeStates, mergeInput
  <2>5. ForestInv'
    BY <2>3 DEF ForestInv
  <2>6. CanonInv'
    BY <2>3 DEF CanonInv, Found
  <2> QED
    BY <2>4, <2>5, <2>6 DEF MergeInv
<1>2. CASE ~(merge.at < MaxTracks)
  <2>1. merge' = [merge EXCEPT !.pc = "canon", !.at = 1, !.x = 1]
    BY <1>2
  <2>2. merge' \in MergeStates /\ merge'.pc = "canon" /\ merge'.at = 1 /\ merge'.x = 1
    BY <1>0, <2>1 DEF MergeStates
  <2>3. MergeTypeOK'
    BY <1>0, <2>2 DEF MergeTypeOK, MergeStates, mergeInput
  <2>4. \A j \in Positions : j < merge.at + 1
    BY <1>0, <1>2
  <2>5. ForestInv'
    BY <2>2, <2>4 DEF ForestInv
  <2>6. CanonInv'
    BY <1>0, <2>2 DEF CanonInv, Found
  <2> QED
    BY <2>3, <2>5, <2>6 DEF MergeInv
<1> QED
  BY <1>1, <1>2

LEMMA PickKeepsForest ==
    ASSUME MergeInv, PickBest
    PROVE  MergeInv'
<1>0. /\ MergeTypeOK /\ FlatForest /\ ForestInv /\ CanonInv /\ merge \in MergeStates
      /\ merge.pc = "pick" /\ UNCHANGED <<mergeInput, parent, canon>>
      /\ merge.at \in Positions /\ \A j \in Positions : j \in Nat
      /\ parent \in [Positions -> Positions]
  BY DEF MergeInv, MergeTypeOK, MergeStates, PickBest, Positions
<1>1. \A j : Best(j)' = Best(j)
  BY <1>0, InputStays
<1>2. \A j \in Positions : Joined(j)' <=> Joined(j)
  BY <1>0, <1>1 DEF Joined
<1>3. FlatForest'
  BY <1>0 DEF FlatForest, mergeInput
<1>4. CASE Best(merge.at) # None
  <2>1. merge' = [merge EXCEPT !.pc = "find_a", !.x = Best(merge.at)]
    BY <1>4 DEF PickBest
  <2>2. Best(merge.at) \in Positions
    BY <1>0, <1>4, BestIsEarlier
  <2>3. /\ merge' \in MergeStates /\ merge'.pc = "find_a" /\ merge'.x = Best(merge.at)
        /\ merge'.at = merge.at
    BY <1>0, <2>1, <2>2 DEF MergeStates
  <2>4. MergeTypeOK'
    BY <1>0, <2>3 DEF MergeTypeOK, MergeStates, mergeInput
  <2>5. ForestInv'
    BY <1>0, <1>1, <1>2, <1>4, <2>3 DEF ForestInv
  <2>6. CanonInv'
    BY <1>0, <2>3 DEF CanonInv, Found
  <2> QED
    BY <1>3, <2>4, <2>5, <2>6 DEF MergeInv
<1>5. CASE Best(merge.at) = None
  <2>1. merge' = IF merge.at < MaxTracks THEN [merge EXCEPT !.pc = "pick", !.at = @ + 1]
                 ELSE [merge EXCEPT !.pc = "canon", !.at = 1, !.x = 1]
    BY <1>0, <1>5 DEF PickBest, MergeStates
  <2>2. \A j \in Positions : j < merge.at + 1 => Joined(j)
    <3>1. \A j \in Positions : j < merge.at + 1 => j < merge.at \/ j = merge.at
      BY <1>0
    <3>2. Joined(merge.at)
      BY <1>0, <1>5 DEF ForestInv, Joined
    <3> QED
      BY <1>0, <3>1, <3>2 DEF ForestInv
  <2>3. \A j \in Positions : ~(j < merge.at + 1) => parent[j] = j
    <3>1. \A j \in Positions : ~(j < merge.at + 1) => ~(j < merge.at)
      BY <1>0
    <3> QED
      BY <1>0, <3>1 DEF ForestInv
  <2> QED
    BY <1>0, <1>2, <1>3, <2>1, <2>2, <2>3, NextFragment DEF CanonInv
<1> QED
  BY <1>4, <1>5

LEMMA WalkKeepsForest ==
    ASSUME MergeInv, Walk
    PROVE  MergeInv'
<1>0. /\ MergeTypeOK /\ FlatForest /\ ForestInv /\ CanonInv /\ merge \in MergeStates
      /\ merge.pc \in {"find_a", "find_b", "canon"} /\ UNCHANGED <<mergeInput, canon>>
      /\ merge.at \in Positions /\ \A j \in Positions : j \in Nat
      /\ parent \in [Positions -> Positions] /\ merge.x \in Positions
      /\ parent[merge.x] # merge.x
      /\ parent' = [parent EXCEPT ![merge.x] = parent[parent[merge.x]]]
      /\ merge' = [merge EXCEPT !.x = parent'[merge.x]]
  BY DEF MergeInv, MergeTypeOK, MergeStates, Walk, Positions
<1>1. parent' = parent
  BY <1>0 DEF FlatForest
<1>2. \A j : Best(j)' = Best(j)
  BY <1>0, InputStays
<1>3. \A j \in Positions : Joined(j)' <=> Joined(j)
  BY <1>1, <1>2 DEF Joined
<1>4. FlatForest'
  BY <1>0, <1>1 DEF FlatForest, mergeInput
<1>5. /\ merge' \in MergeStates /\ merge'.pc = merge.pc /\ merge'.at = merge.at
      /\ merge'.x = parent[merge.x] /\ merge'.root = merge.root
  BY <1>0, <1>1 DEF MergeStates
<1>6. MergeTypeOK'
  BY <1>0, <1>1, <1>5 DEF MergeTypeOK, MergeStates, mergeInput
<1>7. merge.pc # "find_b"
  BY <1>0 DEF ForestInv
<1>8. merge.pc = "find_a" => Best(merge.at) \in Positions
  BY <1>0, BestIsEarlier DEF ForestInv
<1>9. ForestInv'
  BY <1>0, <1>1, <1>2, <1>3, <1>5, <1>7, <1>8 DEF ForestInv, FlatForest
<1>10. CanonInv'
  BY <1>0, <1>1, <1>5, InputStays DEF CanonInv, Found
<1> QED
  BY <1>4, <1>6, <1>9, <1>10 DEF MergeInv

LEMMA RootKeepsForest ==
    ASSUME MergeInv, RootOfA
    PROVE  MergeInv'
<1>0. /\ MergeTypeOK /\ FlatForest /\ ForestInv /\ CanonInv /\ merge \in MergeStates
      /\ merge.pc = "find_a" /\ UNCHANGED <<mergeInput, parent, canon>>
      /\ merge.at \in Positions /\ merge.x \in Positions /\ parent[merge.x] = merge.x
      /\ merge' = [merge EXCEPT !.pc = "find_b", !.x = merge.at, !.root = merge.x]
  BY DEF MergeInv, MergeTypeOK, MergeStates, RootOfA
<1>1. \A j : Best(j)' = Best(j)
  BY <1>0, InputStays
<1>2. \A j \in Positions : Joined(j)' <=> Joined(j)
  BY <1>0, <1>1 DEF Joined
<1>3. /\ merge' \in MergeStates /\ merge'.pc = "find_b" /\ merge'.at = merge.at
      /\ merge'.x = merge.at /\ merge'.root = merge.x
  BY <1>0 DEF MergeStates
<1>4. merge.x = parent[Best(merge.at)]
  BY <1>0 DEF ForestInv
<1>5. MergeTypeOK'
  BY <1>0, <1>3 DEF MergeTypeOK, MergeStates, mergeInput
<1>6. ForestInv'
  BY <1>0, <1>1, <1>2, <1>3, <1>4 DEF ForestInv
<1>7. FlatForest' /\ CanonInv'
  BY <1>0, <1>3 DEF FlatForest, CanonInv, Found, mergeInput
<1> QED
  BY <1>5, <1>6, <1>7 DEF MergeInv

LEMMA LinkKeepsForest ==
    ASSUME MergeInv, Link
    PROVE  MergeInv'
<1> DEFINE b == merge.at
           r == parent[Best(b)]
<1>0. /\ MergeTypeOK /\ FlatForest /\ ForestInv /\ CanonInv /\ merge \in MergeStates
      /\ merge.pc = "find_b" /\ UNCHANGED <<mergeInput, canon>>
      /\ b \in Positions /\ \A j \in Positions : j \in Nat
      /\ parent \in [Positions -> Positions] /\ merge.x = b
      /\ Best(b) # None /\ merge.root = r
  BY DEF MergeInv, MergeTypeOK, MergeStates, ForestInv, Link, Positions
<1>1. parent' = [parent EXCEPT ![b] = r]
  BY <1>0 DEF Link
<1>2. /\ Best(b) \in Positions /\ Best(b) < b /\ class[Best(b)] = class[b]
      /\ r \in Positions /\ r < b /\ parent[r] = r /\ class[r] = class[b]
      /\ parent[b] = b
  <2>1. Best(b) \in Positions /\ Best(b) < b /\ class[Best(b)] = class[b]
    BY <1>0, BestIsEarlier
  <2>2. r \in Positions /\ r <= Best(b) /\ parent[r] = r /\ class[r] = class[Best(b)]
    BY <1>0, <2>1 DEF FlatForest
  <2>3. r < b
    BY <1>0, <2>1, <2>2
  <2>4. parent[b] = b
    BY <1>0 DEF ForestInv
  <2> QED
    BY <2>1, <2>2, <2>3, <2>4
<1>3. \A j : Best(j)' = Best(j)
  BY <1>0, InputStays
<1> HIDE DEF b, r
<1>4. /\ parent' \in [Positions -> Positions] /\ parent'[b] = r
      /\ \A j \in Positions : j # b => parent'[j] = parent[j]
      /\ b \in Nat /\ r \in Nat /\ r # b
  BY <1>0, <1>1, <1>2
<1>5. \A j \in Positions : j # b => parent[j] # b
  <2>1. \A j \in Positions : ~(j < b) => parent[j] = j
    BY <1>0 DEF ForestInv, b
  <2>2. \A j \in Positions : j < b => parent[j] # b
    <3> SUFFICES ASSUME NEW j \in Positions, j < b PROVE parent[j] # b
      OBVIOUS
    <3>1. parent[j] \in Nat /\ parent[j] <= j /\ j \in Nat /\ b \in Nat
      BY <1>0, <1>4 DEF FlatForest
    <3> QED
      BY <3>1
  <2> QED
    BY <2>1, <2>2
<1>6. FlatForest'
  <2> SUFFICES ASSUME NEW i \in Positions
               PROVE  /\ parent'[parent'[i]] = parent'[i] /\ parent'[i] <= i
                      /\ class'[parent'[i]] = class'[i]
    BY DEF FlatForest
  <2>1. class' = class
    BY <1>0 DEF mergeInput
  <2>2. CASE i = b
    BY <1>2, <1>4, <2>1, <2>2
  <2>3. CASE i # b
    <3>1. parent[i] \in Positions /\ parent[parent[i]] = parent[i] /\ parent[i] <= i
          /\ class[parent[i]] = class[i]
      BY <1>0 DEF FlatForest
    <3> QED
      BY <1>4, <1>5, <2>1, <2>3, <3>1
  <2> QED
    BY <2>2, <2>3
<1>7. \A j \in Positions : j < b + 1 => Joined(j)'
  <2> SUFFICES ASSUME NEW j \in Positions, j < b + 1 PROVE Joined(j)'
    OBVIOUS
  <2>1. CASE j = b
    BY <1>0, <1>2, <1>3, <1>4, <2>1 DEF Joined, r, b
  <2>2. CASE j # b
    <3>1. j < b /\ Joined(j)
      <4>1. j < b
        BY <1>0, <1>4, <2>2
      <4> QED
        BY <1>0, <4>1 DEF ForestInv, b
    <3>2. Best(j) # None => Best(j) \in Positions /\ Best(j) # b
      <4> SUFFICES ASSUME Best(j) # None PROVE Best(j) \in Positions /\ Best(j) # b
        OBVIOUS
      <4>1. Best(j) \in Positions /\ Best(j) < j
        BY <1>0, BestIsEarlier
      <4>2. Best(j) \in Nat /\ j \in Nat /\ b \in Nat
        BY <1>0, <1>4, <4>1
      <4> QED
        BY <3>1, <4>1, <4>2
    <3> QED
      BY <1>3, <1>4, <2>2, <3>1, <3>2 DEF Joined
  <2> QED
    BY <2>1, <2>2
<1>8. \A j \in Positions : ~(j < b + 1) => parent'[j] = j
  <2> SUFFICES ASSUME NEW j \in Positions, ~(j < b + 1) PROVE parent'[j] = j
    OBVIOUS
  <2>1. j # b /\ ~(j < b)
    BY <1>0, <1>4
  <2> QED
    BY <1>0, <1>4, <2>1 DEF ForestInv, b
<1>9. \A q \in Positions : canon[q] = None
  BY <1>0 DEF CanonInv
<1>10. merge' = IF merge.at < MaxTracks THEN [merge EXCEPT !.pc = "pick", !.at = @ + 1]
                ELSE [merge EXCEPT !.pc = "canon", !.at = 1, !.x = 1]
  BY DEF Link
<1> QED
  BY <1>0, <1>4, <1>6, <1>7, <1>8, <1>9, <1>10, NextFragment DEF b

(* Before is an order: it compares numbers.                                *)
LEMMA BeforeIsAnOrder ==
    ASSUME MergeTypeOK, NEW a \in Positions, NEW b \in Positions, NEW c \in Positions
    PROVE  /\ ~Before(a, a)
           /\ Before(a, b) /\ Before(b, c) => Before(a, c)
<1>1. \A i \in Positions : tracks[i].first \in Nat
  BY TrackMergeAssumption DEF MergeTypeOK, Intervals
<1>2. \A i \in Positions : tid[i] \in Int
  <2>1. MaxTracks \in Int /\ \A i \in Positions : i \in Int
    BY TrackMergeAssumption DEF Positions
  <2>2. CASE tid = Increasing
    BY <2>1, <2>2 DEF Increasing
  <2>3. CASE tid = Decreasing
    BY <2>1, <2>3 DEF Decreasing
  <2> QED
    BY <2>2, <2>3 DEF MergeTypeOK
<1> DEFINE f(i) == tracks[i].first
           t(i) == tid[i]
<1>3. f(a) \in Nat /\ f(b) \in Nat /\ f(c) \in Nat /\ t(a) \in Int /\ t(b) \in Int /\ t(c) \in Int
  BY <1>1, <1>2
<1>4. \A i, j : Before(i, j) <=> (f(i) < f(j) \/ (f(i) = f(j) /\ t(i) < t(j)))
  BY DEF Before
<1> HIDE DEF f, t
<1> QED
  BY <1>3, <1>4

LEMMA CanoniseKeepsForest ==
    ASSUME MergeInv, Canonise
    PROVE  MergeInv'
<1> DEFINE b == merge.at
           r == parent[b]
<1>0. /\ MergeTypeOK /\ FlatForest /\ ForestInv /\ CanonInv /\ merge \in MergeStates
      /\ merge.pc = "canon" /\ UNCHANGED <<mergeInput, parent>>
      /\ b \in Positions /\ r \in Positions /\ MaxTracks \in Nat
      /\ \A j \in Positions : j \in Nat /\ j <= MaxTracks /\ j # None
      /\ parent \in [Positions -> Positions]
      /\ canon \in [Positions -> Positions \cup {None}]
  BY TrackMergeAssumption DEF MergeInv, MergeTypeOK, MergeStates, Canonise, Positions, None
<1>1. merge.x = r
  BY <1>0 DEF ForestInv, Canonise
<1>2. canon' = [canon EXCEPT ![r] = IF canon[r] = None \/ Before(b, canon[r])
                                    THEN b ELSE canon[r]]
  BY <1>1 DEF Canonise
<1>3. merge' \in MergeStates /\ \/ merge'.pc = "canon" /\ merge'.x = merge'.at
                                   /\ Found' = Found \cup {b}
                                \/ merge'.pc = "done" /\ Found' = Found \cup {b}
  <2>1. CASE b < MaxTracks
    <3>1. b + 1 \in Positions
      BY <1>0, <2>1 DEF Positions
    <3>2. merge' = [merge EXCEPT !.at = b + 1, !.x = b + 1]
      BY <2>1 DEF Canonise
    <3>3. /\ merge' \in MergeStates /\ merge'.pc = "canon" /\ merge'.x = merge'.at
          /\ merge'.at = b + 1
      BY <1>0, <3>1, <3>2 DEF MergeStates
    <3>4. Found = {j \in Positions : j < b} /\ Found' = {j \in Positions : j < b + 1}
      BY <1>0, <3>3 DEF Found
    <3>5. \A j \in Positions : j < b + 1 <=> (j < b \/ j = b)
      BY <1>0
    <3> QED
      BY <1>0, <3>3, <3>4, <3>5
  <2>2. CASE ~(b < MaxTracks)
    <3>1. merge' = [merge EXCEPT !.pc = "done"]
      BY <2>2 DEF Canonise
    <3>2. merge' \in MergeStates /\ merge'.pc = "done"
      BY <1>0, <3>1 DEF MergeStates
    <3>3. Found = {j \in Positions : j < b} /\ Found' = Positions
      BY <1>0, <3>2 DEF Found
    <3>4. \A j \in Positions : j < b \/ j = b
      BY <1>0, <2>2
    <3> QED
      BY <1>0, <3>2, <3>3, <3>4
  <2> QED
    BY <2>1, <2>2
<1>4. \A j : Best(j)' = Best(j)
  BY <1>0, InputStays
<1>5. \A j \in Positions : Joined(j)' <=> Joined(j)
  BY <1>0, <1>4 DEF Joined
<1>6. FlatForest'
  BY <1>0 DEF FlatForest, mergeInput
<1> HIDE DEF b, r
<1>7. /\ canon' \in [Positions -> Positions \cup {None}]
      /\ \A q \in Positions : q # r => canon'[q] = canon[q]
      /\ canon'[r] = IF canon[r] = None \/ Before(b, canon[r]) THEN b ELSE canon[r]
  BY <1>0, <1>2
<1>8. MergeTypeOK'
  BY <1>0, <1>3, <1>7 DEF MergeTypeOK, MergeStates, mergeInput
<1>9. ForestInv'
  BY <1>0, <1>3, <1>5 DEF ForestInv
<1>10. CanonInv'
  <2>1. \A i, j : Before(i, j)' = Before(i, j)
    BY <1>0, InputStays
  <2>2. parent' = parent /\ parent[b] = r
    BY <1>0 DEF r
  <2>3. \A q \in Positions : canon'[q] # None => parent'[canon'[q]] = q
    BY <1>0, <1>7, <2>2 DEF CanonInv
  <2>4. ASSUME NEW j \in Found'
        PROVE  canon'[parent'[j]] # None /\ ~Before(j, canon'[parent'[j]])
    <3>1. j \in Positions /\ parent[j] \in Positions
      BY <1>0, <1>3, <2>4 DEF Found
    <3>2. CASE parent[j] # r
      <4>1. j \in Found
        BY <1>3, <2>2, <2>4, <3>2
      <4> QED
        BY <1>0, <1>7, <2>2, <3>1, <3>2, <4>1 DEF CanonInv
    <3>3. CASE parent[j] = r
      <4>1. canon'[r] \in Positions /\ canon'[r] # None
        BY <1>0, <1>7
      <4>2. j \in Found => canon[r] # None /\ ~Before(j, canon[r])
        BY <1>0, <3>3 DEF CanonInv
      <4>3. j \in Found \/ j = b
        BY <1>3, <2>4
      <4>4. canon[r] # None => canon[r] \in Positions
        BY <1>0
      <4>5. ~Before(b, b) /\ (canon[r] \in Positions =>
                (Before(j, b) /\ Before(b, canon[r]) => Before(j, canon[r])))
        BY <1>0, <3>1, BeforeIsAnOrder
      <4> QED
        BY <1>7, <2>2, <3>3, <4>1, <4>2, <4>3, <4>4, <4>5
    <3> QED
      BY <3>2, <3>3
  <2> QED
    BY <1>3, <2>1, <2>3, <2>4 DEF CanonInv
<1> QED
  BY <1>6, <1>8, <1>9, <1>10 DEF MergeInv

LEMMA MergeInvKept == MergeInv /\ [MergeNext]_mergeVars => MergeInv'
<1> SUFFICES ASSUME MergeInv, [MergeNext]_mergeVars PROVE MergeInv'
  OBVIOUS
<1>1. CASE PickBest
  BY <1>1, PickKeepsForest
<1>2. CASE Walk
  BY <1>2, WalkKeepsForest
<1>3. CASE RootOfA
  BY <1>3, RootKeepsForest
<1>4. CASE Link
  BY <1>4, LinkKeepsForest
<1>5. CASE Canonise
  BY <1>5, CanoniseKeepsForest
<1>6. CASE UNCHANGED mergeVars
  <2>1. UNCHANGED <<mergeInput, parent, canon, merge>>
    BY <1>6 DEF mergeVars
  <2>2. /\ \A j : Best(j)' = Best(j)
        /\ \A a, b : Before(a, b)' = Before(a, b)
    BY <2>1, InputStays
  <2>3. \A j : Joined(j)' <=> Joined(j)
    BY <2>1, <2>2 DEF Joined
  <2>4. MergeTypeOK' /\ FlatForest'
    BY <2>1 DEF MergeInv, MergeTypeOK, FlatForest, mergeInput
  <2>5. ForestInv'
    BY <2>1, <2>2, <2>3 DEF MergeInv, ForestInv
  <2>6. CanonInv'
    BY <2>1, <2>2 DEF MergeInv, CanonInv, Found
  <2> QED
    BY <2>4, <2>5, <2>6 DEF MergeInv
<1> QED
  BY <1>1, <1>2, <1>3, <1>4, <1>5, <1>6 DEF MergeNext

LEMMA MergeInvHolds == MergeSpec => []MergeInv
  BY MergeInitInv, MergeInvKept, PTL DEF MergeSpec

(* The forest and the loops keep their types: no id leaves the clip.       *)
THEOREM MergeTypeCorrect == MergeSpec => []MergeTypeOK
<1>1. MergeInv => MergeTypeOK
  BY DEF MergeInv
<1> QED
  BY <1>1, MergeInvHolds, PTL

(* Whatever the order of the unions, find takes at most one turn, and a    *)
(* root is of its fragment's class and no later.                           *)
THEOREM ForestIsFlat == MergeSpec => []FlatForest
<1>1. MergeInv => FlatForest
  BY DEF MergeInv
<1> QED
  BY <1>1, MergeInvHolds, PTL

(* What the loops have left behind.                                        *)
LEMMA WhenMerged ==
    ASSUME MergeInv, merge.pc = "done"
    PROVE  /\ parent \in [Positions -> Positions]
           /\ \A i \in Positions : parent[parent[i]] = parent[i]
           /\ \A i \in Positions :
                /\ i \in Nat /\ i # None /\ parent[i] \in Nat
                /\ Best(i) = None => parent[i] = i
                /\ Best(i) # None => /\ Best(i) \in Positions /\ Best(i) < i
                                     /\ parent[i] = parent[Best(i)]
           /\ \A i, j \in Positions : Remap(i) = Remap(j) <=> parent[i] = parent[j]
           /\ \A i \in Positions : Remap(i) \in Positions /\ ~Before(i, Remap(i))
<1>1. /\ parent \in [Positions -> Positions]
      /\ canon \in [Positions -> Positions \cup {None}]
      /\ \A i \in Positions : i \in Nat /\ i # None
  BY TrackMergeAssumption DEF MergeInv, MergeTypeOK, Positions, None
<1>2. \A i \in Positions : parent[parent[i]] = parent[i]
  BY DEF MergeInv, FlatForest
<1>3. \A i \in Positions : Joined(i)
  BY DEF MergeInv, ForestInv
<1>4. \A i \in Positions : Best(i) # None => Best(i) \in Positions /\ Best(i) < i
  BY BestIsEarlier DEF MergeInv
<1>5. \A i \in Positions : Remap(i) # None /\ ~Before(i, Remap(i))
  BY DEF MergeInv, CanonInv, Found, Remap
<1>6. \A i \in Positions : Remap(i) \in Positions /\ parent[Remap(i)] = parent[i]
  BY <1>1, <1>5 DEF MergeInv, CanonInv, Remap
<1>7. \A i, j \in Positions : Remap(i) = Remap(j) <=> parent[i] = parent[j]
  BY <1>6 DEF Remap
<1>8. \A i \in Positions : (Best(i) = None => parent[i] = i)
                            /\ (Best(i) # None => parent[i] = parent[Best(i)])
  BY <1>3 DEF Joined
<1> QED
  BY <1>1, <1>2, <1>4, <1>5, <1>6, <1>7, <1>8

(* A set that is closed under best predecessors has a fragment exactly if  *)
(* it has the fragment's root: of those that it does not treat so, the     *)
(* least would have an earlier one before it.                              *)
LEMMA ClosedHasTheRoot ==
    ASSUME MergeInv, merge.pc = "done", NEW s \in SUBSET Positions,
           \A j \in Positions : Best(j) # None => (j \in s <=> Best(j) \in s)
    PROVE  \A i \in Positions : i \in s <=> parent[i] \in s
<1> DEFINE Bad == {i \in Positions : ~(i \in s <=> parent[i] \in s)}
<1> SUFFICES ASSUME Bad # {} PROVE FALSE
  OBVIOUS
<1>1. Bad \in SUBSET Nat
  BY WhenMerged
<1>2. PICK i \in Bad : \A j \in Bad : i <= j
  BY <1>1, LeastOf
<1>3. Best(i) # None
  BY <1>2, WhenMerged
<1>4. /\ Best(i) \in Positions /\ Best(i) < i /\ parent[i] = parent[Best(i)]
      /\ i \in Nat /\ Best(i) \in Nat
  BY <1>2, <1>3, WhenMerged
<1>5. Best(i) \in Bad
  BY <1>2, <1>3, <1>4
<1> QED
  BY <1>2, <1>4, <1>5

LEMMA RootsAreChains ==
    ASSUME MergeInv, merge.pc = "done", NEW a \in Positions, NEW b \in Positions
    PROVE  parent[a] = parent[b] <=> Chained(a, b)
<1>1. ASSUME parent[a] = parent[b] PROVE Chained(a, b)
  <2> SUFFICES ASSUME NEW s \in SUBSET Positions,
                      \A j \in Positions : Best(j) # None => (j \in s <=> Best(j) \in s)
               PROVE  a \in s <=> b \in s
    BY DEF Chained
  <2>1. (a \in s <=> parent[a] \in s) /\ (b \in s <=> parent[b] \in s)
    BY ClosedHasTheRoot
  <2> QED
    BY <1>1, <2>1
<1>2. ASSUME Chained(a, b) PROVE parent[a] = parent[b]
  <2> DEFINE s == {i \in Positions : parent[i] = parent[a]}
  <2>1. \A j \in Positions : Best(j) # None => (j \in s <=> Best(j) \in s)
    BY WhenMerged
  <2>2. a \in s /\ s \in SUBSET Positions
    OBVIOUS
  <2> HIDE DEF s
  <2>3. b \in s
    BY <1>2, <2>1, <2>2 DEF Chained
  <2> QED
    BY <2>3 DEF s
<1> QED
  BY <1>1, <1>2

(* For any tracks, overlaps and bounds: fragments share an id exactly if a *)
(* chain of best predecessors links them, and it is that of the earliest.  *)
THEOREM MergedIsChained == MergeSpec => []MergedAsChained
<1>1. MergeInv => MergedAsChained
  <2> SUFFICES ASSUME MergeInv, merge.pc = "done", NEW a \in Positions, NEW b \in Positions
               PROVE  /\ Remap(a) = Remap(b) <=> Chained(a, b)
                      /\ Chained(a, b) => ~Before(b, Remap(a))
    BY DEF MergedAsChained
  <2>1. Remap(a) = Remap(b) <=> parent[a] = parent[b]
    BY WhenMerged
  <2>2. ~Before(b, Remap(b))
    BY WhenMerged
  <2> QED
    BY <2>1, <2>2, RootsAreChains
<1> QED
  BY <1>1, MergeInvHolds, PTL

(* Where no two fragments continue the same one, a set is a line: whatever *)
(* is joined to an earlier fragment, that one has a successor no later.    *)
LEMMA SetsAreLines ==
    ASSUME MergeInv, merge.pc = "done", ~Forked
    PROVE  \A i, c \in Positions : c < i /\ parent[c] = parent[i] =>
               \E k \in Positions : k <= i /\ Best(k) = c
<1> DEFINE Follows(i) == \A c \in Positions : c < i /\ parent[c] = parent[i] =>
                             \E k \in Positions : k <= i /\ Best(k) = c
           Bad == {i \in Positions : ~Follows(i)}
<1> SUFFICES ASSUME Bad # {} PROVE FALSE
  OBVIOUS
<1>1. Bad \in SUBSET Nat
  BY WhenMerged
<1>2. PICK i \in Bad : \A j \in Bad : i <= j
  BY <1>1, LeastOf
<1>3. PICK c \in Positions : /\ c < i /\ parent[c] = parent[i]
                             /\ \A k \in Positions : k <= i => Best(k) # c
  BY <1>2
<1>4. i \in Positions /\ i \in Nat /\ c \in Nat
  BY <1>2, WhenMerged
<1> DEFINE d == Best(i)
<1>5. d # None
  <2> SUFFICES ASSUME d = None PROVE FALSE
    OBVIOUS
  <2>1. parent[i] = i
    BY <1>4, WhenMerged
  <2>2. parent[c] \in Nat /\ parent[c] <= c
    BY <1>3, WhenMerged DEF MergeInv, FlatForest
  <2> QED
    BY <1>3, <1>4, <2>1, <2>2
<1>6. d \in Positions /\ d < i /\ parent[d] = parent[i] /\ d \in Nat
  BY <1>4, <1>5, WhenMerged
<1>7. d # c
  BY <1>3, <1>4
<1>8. \A j \in Positions : j < i => Follows(j)
  <2>1. \A j \in Positions : j \in Nat
    BY WhenMerged
  <2> QED
    BY <1>2, <1>4, <2>1
<1>9. CASE c < d
  <2>1. PICK k \in Positions : k <= d /\ Best(k) = c
    BY <1>3, <1>6, <1>8, <1>9
  <2>2. k \in Nat /\ k <= i
    <3>1. k \in Nat
      BY WhenMerged
    <3> QED
      BY <1>4, <1>6, <2>1, <3>1
  <2> QED
    BY <1>3, <2>1, <2>2
<1>10. CASE d < c
  <2>1. PICK k \in Positions : k <= c /\ Best(k) = d
    BY <1>3, <1>6, <1>8, <1>10
  <2>2. k # i
    <3>1. k \in Nat
      BY WhenMerged
    <3> QED
      BY <1>3, <1>4, <2>1, <3>1
  <2> QED
    BY <1>4, <1>5, <2>1, <2>2 DEF Forked
<1> QED
  BY <1>4, <1>6, <1>7, <1>9, <1>10

(* And then the fragments of a set follow one another in time.             *)
LEMMA LinesRunForward ==
    ASSUME MergeInv, merge.pc = "done", ~Forked, ~Touching
    PROVE  \A i, j \in Positions :
               i < j /\ parent[i] = parent[j] => tracks[i].last < tracks[j].first
<1> DEFINE After(j) == \A i \in Positions :
                           i < j /\ parent[i] = parent[j] => tracks[i].last < tracks[j].first
           Bad == {j \in Positions : ~After(j)}
<1> SUFFICES ASSUME Bad # {} PROVE FALSE
  OBVIOUS
<1>1. Bad \in SUBSET Nat
  BY WhenMerged
<1>2. PICK j \in Bad : \A k \in Bad : j <= k
  BY <1>1, LeastOf
<1>3. PICK i \in Positions : /\ i < j /\ parent[i] = parent[j]
                             /\ ~(tracks[i].last < tracks[j].first)
  BY <1>2
<1>4. j \in Positions /\ j \in Nat /\ i \in Nat
  BY <1>2, WhenMerged
<1>5. \A k \in Positions : /\ tracks[k].first \in Nat /\ tracks[k].last \in Nat
                           /\ tracks[k].first <= tracks[k].last
  BY TrackMergeAssumption DEF MergeInv, MergeTypeOK, Intervals
<1>6. PICK k \in Positions : k <= j /\ Best(k) = i
  BY <1>3, <1>4, SetsAreLines
<1> DEFINE c == Best(j)
<1>7. c # None
  <2> SUFFICES ASSUME c = None PROVE FALSE
    OBVIOUS
  <2>1. parent[j] = j
    BY <1>4, WhenMerged
  <2>2. parent[i] \in Nat /\ parent[i] <= i
    BY <1>3, WhenMerged DEF MergeInv, FlatForest
  <2> QED
    BY <1>3, <1>4, <2>1, <2>2
<1>8. c \in Positions /\ c < j /\ parent[c] = parent[j] /\ c \in Nat
  BY <1>4, <1>7, WhenMerged
<1>9. tracks[c].last < tracks[j].first
  <2>1. tracks[j].first - tracks[c].last >= 0
    BY <1>4, <1>7, BestIsEarlier DEF MergeInv
  <2>2. tracks[j].first # tracks[c].last
    BY <1>4, <1>7 DEF Touching
  <2>3. tracks[j].first \in Nat /\ tracks[c].last \in Nat
    BY <1>4, <1>5, <1>8
  <2> HIDE DEF c
  <2> QED
    BY <2>1, <2>2, <2>3
<1>10. After(c)
  BY <1>2, <1>4, <1>8
<1>11. CASE i < c
  <2>1. tracks[i].last < tracks[c].first
    BY <1>3, <1>8, <1>10, <1>11
  <2>2. /\ tracks[i].last \in Nat /\ tracks[c].first \in Nat /\ tracks[c].last \in Nat
        /\ tracks[j].first \in Nat /\ tracks[c].first <= tracks[c].last
    BY <1>4, <1>5, <1>8
  <2> HIDE DEF c
  <2> QED
    BY <1>3, <1>9, <2>1, <2>2
<1>12. CASE i = c
  BY <1>3, <1>9, <1>12
<1>13. CASE c < i
  <2>1. PICK l \in Positions : l <= i /\ Best(l) = c
    BY <1>3, <1>8, <1>13, SetsAreLines
  <2>2. l # j
    <3>1. l \in Nat
      BY WhenMerged
    <3> QED
      BY <1>3, <1>4, <2>1, <3>1
  <2> QED
    BY <1>4, <1>7, <2>1, <2>2 DEF Forked
<1> QED
  BY <1>4, <1>8, <1>11, <1>12, <1>13

(* A joined track is in one place at a time, unless two fragments continue *)
(* the same one or one begins in the frame in which the other ends.        *)
THEOREM JoinedInOnePlace == MergeSpec => []InOnePlace
<1>1. MergeInv => InOnePlace
  <2> SUFFICES ASSUME MergeInv, merge.pc = "done", ~Forked, ~Touching,
                      NEW a \in Positions, NEW b \in Positions,
                      a # b, Remap(a) = Remap(b)
               PROVE  {tracks[a].first, tracks[a].last}
                          \cap tracks[b].first..tracks[b].last = {}
    BY DEF InOnePlace
  <2>1. parent[a] = parent[b] /\ a \in Nat /\ b \in Nat
    BY WhenMerged
  <2>2. tracks[a].last < tracks[b].first \/ tracks[b].last < tracks[a].first
    <3>1. a < b \/ b < a
      BY <2>1
    <3> QED
      BY <2>1, <3>1, LinesRunForward
  <2>3. \A k \in Positions : /\ tracks[k].first \in Nat /\ tracks[k].last \in Nat
                             /\ tracks[k].first <= tracks[k].last
    BY TrackMergeAssumption DEF MergeInv, MergeTypeOK, Intervals
  <2> DEFINE af == tracks[a].first
             al == tracks[a].last
             bf == tracks[b].first
             bl == tracks[b].last
  <2>4. /\ af \in Nat /\ al \in Nat /\ bf \in Nat /\ bl \in Nat /\ af <= al /\ bf <= bl
        /\ al < bf \/ bl < af
    BY <2>2, <2>3
  <2> HIDE DEF af, al, bf, bl
  <2>5. af \notin bf..bl /\ al \notin bf..bl
    BY <2>4
  <2> QED
    BY <2>5 DEF af, al, bf, bl
<1> QED
  BY <1>1, MergeInvHolds, PTL

-------------------------------------------------------------------------------
(* Images. As long as one track at most has been chosen, the images that   *)
(* the tables may name are those of all tracks, or of the chosen one.      *)

Kept == IF chosen = {} THEN found ELSE chosen
Available == objects \cup missing
OneChoice == \A c, d \in chosen : c = d

(* An attempt still has to upload what is not there yet, so a result finds *)
(* the images that it names.                                               *)
UploadsInv ==
    /\ \A a \in Runs : attempt[a].pc = "upload" =>
          Kept \cup ({attempt[a].scene} \ {NoImage}) \subseteq Available \cup attempt[a].left
    /\ ocResults # <<>> \/ chosen # {} => Kept \subseteq Available
    /\ \A i \in 1..Len(ocResults) : ocResults[i] \in Available \cup {NoImage}

(* The transaction never removes an image that is kept.                    *)
TxnInv ==
    /\ txn.pc # "idle" => txn.rep \in Kept \cup {Scene, NoImage}
    /\ txn.pc # "idle" /\ txn.rep = Scene => Scene \in Available
    /\ txn.pc = "collapse" => txn.rep \in Kept
    /\ txn.left \cap Kept = {}
    /\ \A t \in Tracks : t \notin txn.left => txn.rows[t] \in Kept \cup {NoImage}

CommittedInv ==
    /\ \A t \in Tracks : stored[t] # NoImage => stored[t] \in Kept /\ Kept \subseteq Available
    /\ image # NoImage => \/ image \in Kept /\ Kept \subseteq Available
                          \/ image = Scene /\ Scene \in Available
    /\ found # {} /\ moving = {} /\ chosen = {} =>
          txn.pc = "idle" /\ image = NoImage /\ \A t \in Tracks : stored[t] = NoImage

ChoiceInv ==
    /\ IsFiniteSet(chosen) /\ chosen \subseteq longest
    /\ moving # {} => chosen = {}
    /\ txn.pc = "collapse" => txn.rep \in longest
    /\ txn.pc # "idle" => ocResults # <<>>

ImagesInv ==
    /\ SnapshotTypeOK /\ ChoiceInv
    /\ OneChoice => UploadsInv /\ TxnInv /\ CommittedInv

LEMMA ImageNames == Scene \notin Tracks /\ NoImage \notin Tracks /\ Scene # NoImage
  BY ImagesAssumption DEF Scene, NoImage

LEMMA ImagesInit == SnapshotInit => ImagesInv
<1> SUFFICES ASSUME SnapshotInit PROVE ImagesInv
  OBVIOUS
<1>1. NoTxn \in [pc : {"idle", "commit", "collapse"}, rows : [Tracks -> Tracks \cup {NoImage}],
                 rep : Images \cup {NoImage}, left : SUBSET Tracks]
  BY DEF NoTxn
<1>2. SnapshotTypeOK
  BY <1>1 DEF SnapshotInit, SnapshotTypeOK
<1>3. IsFiniteSet(chosen)
  BY FS_EmptySet DEF SnapshotInit
<1>4. Len(ocResults) = 0
  BY DEF SnapshotInit
<1> QED
  BY <1>2, <1>3, <1>4 DEF SnapshotInit, ImagesInv, ChoiceInv, UploadsInv, TxnInv, CommittedInv, NoTxn,
     Kept, Available

(* The steps of an attempt: the images stay, and what the attempt has      *)
(* dropped from its list is there.                                         *)
LEMMA AttemptKeepsImages ==
    ASSUME ImagesInv, NEW a \in Runs,
           \/ StartAttempt(a) \/ PublishResult(a) \/ AttemptDies(a)
           \/ \E m \in Images : UploadImage(a, m) \/ UploadFails(a, m)
    PROVE  ImagesInv'
<1> DEFINE A == [pc : {"none", "upload", "over"}, left : SUBSET Images, scene : {Scene, NoImage}]
<1>0. /\ attempt \in [Runs -> A] /\ SnapshotTypeOK /\ ChoiceInv
      /\ OneChoice => UploadsInv /\ TxnInv /\ CommittedInv
  BY DEF ImagesInv, SnapshotTypeOK
<1>1. /\ UNCHANGED <<seen, txn, stored, image, chosen>>
      /\ \A b \in Runs : b # a => attempt'[b] = attempt[b]
      /\ Kept' = Kept
  BY <1>0 DEF StartAttempt, PublishResult, AttemptDies, UploadImage, UploadFails, Kept, seen
<1> HIDE DEF A
<1>2. /\ attempt'[a] \in A /\ attempt' = [attempt EXCEPT ![a] = attempt'[a]]
      /\ Available \subseteq Available' /\ objects' \subseteq Images /\ missing' \subseteq Images
      /\ snapshotFaults' \in Nat
      /\ \/ UNCHANGED ocResults
         \/ /\ ocResults' = Append(ocResults, attempt[a].scene)
            /\ attempt[a].pc = "upload" /\ attempt[a].left = {}
      /\ attempt'[a].pc = "upload" =>
            \/ Kept \cup ({attempt'[a].scene} \ {NoImage}) \subseteq attempt'[a].left \cup Available'
            \/ /\ attempt[a].pc = "upload" /\ attempt'[a].scene = attempt[a].scene
               /\ attempt[a].left \subseteq attempt'[a].left \cup Available'
  <2>1. CASE StartAttempt(a)
    <3>1. PICK scene \in {Scene, NoImage} :
            attempt' = [attempt EXCEPT ![a] =
               [pc |-> "upload", left |-> found \cup ({scene} \ {NoImage}), scene |-> scene]]
      BY <2>1 DEF StartAttempt
    <3>2. found \subseteq Images /\ Kept \subseteq found /\ Scene \in Images
      BY <1>0 DEF SnapshotTypeOK, ChoiceInv, Images, Kept
    <3>3. attempt'[a] = [pc |-> "upload", left |-> found \cup ({scene} \ {NoImage}), scene |-> scene]
      BY <1>0, <3>1
    <3>4. attempt'[a] \in A
      BY <3>2, <3>3 DEF A
    <3>5. UNCHANGED <<objects, ocResults, missing>> /\ snapshotFaults' \in Nat
      BY <2>1, <1>0 DEF StartAttempt, SnapshotFault, SnapshotTypeOK
    <3> QED
      BY <1>0, <3>1, <3>2, <3>3, <3>4, <3>5 DEF SnapshotTypeOK, Available
  <2>2. CASE PublishResult(a)
    <3>1. attempt'[a] = [attempt[a] EXCEPT !.pc = "over"]
      BY <1>0, <2>2 DEF PublishResult
    <3>2. attempt[a] \in A
      BY <1>0
    <3>3. attempt'[a] \in A /\ attempt'[a].pc = "over"
      BY <3>1, <3>2 DEF A
    <3> QED
      BY <1>0, <2>2, <3>1, <3>3 DEF PublishResult, SnapshotTypeOK, Available
  <2>3. CASE AttemptDies(a)
    <3>1. attempt'[a] = [attempt[a] EXCEPT !.pc = "over", !.left = {}]
      BY <1>0, <2>3 DEF AttemptDies
    <3>2. attempt[a] \in A
      BY <1>0
    <3>3. attempt'[a] \in A /\ attempt'[a].pc = "over"
      BY <3>1, <3>2 DEF A
    <3> QED
      BY <1>0, <2>3, <3>1, <3>3 DEF AttemptDies, SnapshotFault, SnapshotTypeOK, Available
  <2>4. CASE \E m \in Images : UploadImage(a, m) \/ UploadFails(a, m)
    <3>0. PICK m \in Images : UploadImage(a, m) \/ UploadFails(a, m)
      BY <2>4
    <3>1. attempt'[a] = [attempt[a] EXCEPT !.left = @ \ {m}]
      BY <1>0, <3>0 DEF UploadImage, UploadFails
    <3>2. attempt[a] \in A
      BY <1>0
    <3>3. /\ attempt'[a] \in A /\ attempt'[a].left = attempt[a].left \ {m}
          /\ attempt'[a].pc = attempt[a].pc /\ attempt'[a].scene = attempt[a].scene
      BY <3>1, <3>2 DEF A
    <3>4. /\ Available' = Available \cup {m} /\ objects' \subseteq Images /\ missing' \subseteq Images
          /\ snapshotFaults' \in Nat /\ UNCHANGED ocResults
      BY <1>0, <3>0 DEF UploadImage, UploadFails, SnapshotFault, SnapshotTypeOK, Available
    <3>5. attempt' = [attempt EXCEPT ![a] = attempt'[a]]
      BY <1>0, <3>0 DEF UploadImage, UploadFails
    <3> QED
      BY <3>3, <3>4, <3>5
  <2> QED
    BY <2>1, <2>2, <2>3, <2>4
<1>3. attempt[a].scene \in {Scene, NoImage}
  BY <1>0 DEF A
<1>4. ocResults' \in Seq({Scene, NoImage})
  BY <1>0, <1>2, <1>3 DEF SnapshotTypeOK
<1>5. SnapshotTypeOK'
  <2>1. attempt' \in [Runs -> A]
    BY <1>0, <1>2
  <2>2. (attempt \in [Runs -> A])'
    BY <2>1 DEF A
  <2> QED
    BY <1>0, <1>1, <1>2, <1>4, <2>2 DEF SnapshotTypeOK, A, seen
<1>6. ChoiceInv'
  <2>1. ocResults # <<>> => ocResults' # <<>>
    BY <1>0, <1>2, <1>3, AppendProperties DEF SnapshotTypeOK
  <2> QED
    BY <1>0, <1>1, <2>1 DEF ChoiceInv, seen
<1>7. ASSUME OneChoice' PROVE UploadsInv' /\ TxnInv' /\ CommittedInv'
  <2>0. UploadsInv /\ TxnInv /\ CommittedInv
    BY <1>0, <1>1, <1>7 DEF OneChoice
  <2>1. ASSUME NEW b \in Runs, attempt'[b].pc = "upload"
        PROVE  Kept \cup ({attempt'[b].scene} \ {NoImage}) \subseteq Available' \cup attempt'[b].left
    <3>1. CASE b = a
      BY <1>2, <2>0, <2>1, <3>1 DEF UploadsInv
    <3>2. CASE b # a
      BY <1>1, <1>2, <2>0, <2>1, <3>2 DEF UploadsInv
    <3> QED
      BY <3>1, <3>2
  <2>2. /\ ocResults' # <<>> \/ chosen # {} => Kept \subseteq Available'
        /\ \A i \in 1..Len(ocResults') : ocResults'[i] \in Available' \cup {NoImage}
    <3>1. CASE UNCHANGED ocResults
      BY <1>2, <2>0, <3>1 DEF UploadsInv
    <3>2. CASE /\ ocResults' = Append(ocResults, attempt[a].scene)
               /\ attempt[a].pc = "upload" /\ attempt[a].left = {}
      <4>1. Kept \cup ({attempt[a].scene} \ {NoImage}) \subseteq Available
        BY <2>0, <3>2 DEF UploadsInv
      <4>2. /\ Len(ocResults') = Len(ocResults) + 1 /\ Len(ocResults) \in Nat
            /\ \A i \in 1..Len(ocResults) : ocResults'[i] = ocResults[i]
            /\ ocResults'[Len(ocResults) + 1] = attempt[a].scene
        BY <1>0, <1>3, <3>2 DEF SnapshotTypeOK
      <4>3. \A i \in 1..Len(ocResults') : i \in 1..Len(ocResults) \/ i = Len(ocResults) + 1
        BY <4>2
      <4> QED
        BY <1>2, <2>0, <4>1, <4>2, <4>3 DEF UploadsInv
    <3> QED
      BY <1>2, <3>1, <3>2
  <2>3. UploadsInv'
    BY <1>1, <2>1, <2>2 DEF UploadsInv
  <2>4. TxnInv'
    BY <1>1, <1>2, <2>0 DEF TxnInv
  <2>5. CommittedInv'
    BY <1>1, <1>2, <2>0 DEF CommittedInv, seen
  <2> QED
    BY <2>3, <2>4, <2>5
<1> QED
  BY <1>5, <1>6, <1>7 DEF ImagesInv

(* The transaction reads the result and chooses.                           *)
LEMMA ApplyKeepsImages ==
    ASSUME ImagesInv, ApplyResult
    PROVE  ImagesInv'
<1>0. SnapshotTypeOK /\ ChoiceInv /\ (OneChoice => UploadsInv /\ TxnInv /\ CommittedInv)
  BY DEF ImagesInv
<1>1. /\ UNCHANGED <<seen, attempt, objects, ocResults, stored, image, missing, chosen,
                     snapshotFaults>>
      /\ ocResults # <<>> /\ Head(ocResults) \in {Scene, NoImage}
      /\ Head(ocResults) = ocResults[1] /\ 1 \in 1..Len(ocResults)
  BY <1>0 DEF ApplyResult, SnapshotTypeOK
<1>2. PICK rep \in Tracks \cup {Scene, NoImage} :
        /\ txn' = [pc |-> "commit", rows |-> RowsNow, rep |-> rep, left |-> {}]
        /\ \/ found = {} /\ rep = ocResults[1]
           \/ rep \in moving
  BY <1>0, <1>1 DEF ApplyResult, Transact, SnapshotTypeOK
<1>3. RowsNow \in [Tracks -> Tracks \cup {NoImage}]
  BY <1>0 DEF RowsNow, SnapshotTypeOK
<1>4. SnapshotTypeOK'
  <2>1. txn' \in [pc : {"idle", "commit", "collapse"}, rows : [Tracks -> Tracks \cup {NoImage}],
                  rep : Images \cup {NoImage}, left : SUBSET Tracks]
    BY <1>2, <1>3 DEF Images
  <2> QED
    BY <1>0, <1>1, <2>1 DEF SnapshotTypeOK, seen
<1>5. ChoiceInv'
  BY <1>0, <1>1, <1>2 DEF ChoiceInv, seen
<1>6. ASSUME OneChoice' PROVE UploadsInv' /\ TxnInv' /\ CommittedInv'
  <2>0. UploadsInv /\ TxnInv /\ CommittedInv /\ Kept' = Kept /\ Available' = Available
    BY <1>0, <1>1, <1>6 DEF OneChoice, Kept, Available, seen
  <2>1. UploadsInv'
    BY <1>1, <2>0 DEF UploadsInv
  <2>2. /\ rep \in Kept \cup {Scene, NoImage}
        /\ rep = Scene => Scene \in Available
    <3>1. CASE found = {} /\ rep = ocResults[1]
      BY <1>1, <2>0, <3>1, ImageNames DEF UploadsInv
    <3>2. CASE rep \in moving
      <4>1. chosen = {} /\ rep \in found /\ rep \in Tracks
        BY <1>0, <3>2 DEF ChoiceInv, SnapshotTypeOK
      <4> QED
        BY <4>1, ImageNames DEF Kept
    <3> QED
      BY <1>2, <3>1, <3>2
  <2>3. \A t \in Tracks : RowsNow[t] \in Kept \cup {NoImage}
    <3>1. found = {} \/ chosen = {}
      BY <1>0, <1>2 DEF ChoiceInv
    <3>2. \A t \in found : t \in Kept
      BY <3>1 DEF Kept
    <3> QED
      BY <2>0, <3>2 DEF RowsNow, CommittedInv
  <2>4. TxnInv'
    BY <1>1, <1>2, <2>0, <2>2, <2>3 DEF TxnInv
  <2>5. ~(found # {} /\ moving = {})
    BY <1>2
  <2>6. CommittedInv'
    BY <1>1, <2>0, <2>5 DEF CommittedInv, seen
  <2> QED
    BY <2>1, <2>4, <2>6
<1> QED
  BY <1>4, <1>5, <1>6 DEF ImagesInv

LEMMA CollapseKeepsImages ==
    ASSUME ImagesInv, CollapseResult
    PROVE  ImagesInv'
<1>0. SnapshotTypeOK /\ ChoiceInv /\ (OneChoice => UploadsInv /\ TxnInv /\ CommittedInv)
  BY DEF ImagesInv
<1>1. /\ UNCHANGED <<seen, attempt, objects, ocResults, stored, image, missing, snapshotFaults>>
      /\ ocResults # <<>> /\ found # {} /\ moving = {} /\ txn.pc = "idle"
  BY DEF CollapseResult
<1>2. PICK rep \in longest :
        /\ txn' = [pc |-> "collapse", rows |-> RowsNow, rep |-> rep, left |-> found \ {rep}]
        /\ chosen' = chosen \cup {rep}
  BY DEF CollapseResult, Transact
<1>3. RowsNow \in [Tracks -> Tracks \cup {NoImage}] /\ rep \in Tracks /\ rep \in found
      /\ found \subseteq Tracks
  BY <1>0 DEF RowsNow, SnapshotTypeOK
<1>4. SnapshotTypeOK'
  <2>1. txn' \in [pc : {"idle", "commit", "collapse"}, rows : [Tracks -> Tracks \cup {NoImage}],
                  rep : Images \cup {NoImage}, left : SUBSET Tracks]
    BY <1>2, <1>3 DEF Images
  <2>2. chosen' \subseteq Tracks
    BY <1>0, <1>2, <1>3 DEF SnapshotTypeOK
  <2> QED
    BY <1>0, <1>1, <2>1, <2>2 DEF SnapshotTypeOK, seen
<1>5. ChoiceInv'
  <2>1. IsFiniteSet(chosen')
    BY <1>0, <1>2, FS_AddElement DEF ChoiceInv
  <2> QED
    BY <1>0, <1>1, <1>2, <2>1 DEF ChoiceInv, seen
<1>6. ASSUME OneChoice' PROVE UploadsInv' /\ TxnInv' /\ CommittedInv'
  <2>1. chosen' = {rep} /\ OneChoice /\ (chosen = {} \/ chosen = {rep})
    BY <1>2, <1>6 DEF OneChoice
  <2>2. UploadsInv /\ TxnInv /\ CommittedInv /\ Kept' = {rep} /\ Available' = Available
    BY <1>0, <1>1, <2>1 DEF Kept, Available
  <2>3. {rep} \subseteq Kept /\ rep \in Available
    BY <1>1, <1>3, <2>1, <2>2 DEF Kept, UploadsInv
  <2>4. UploadsInv'
    BY <1>1, <2>2, <2>3 DEF UploadsInv
  <2>5. \A t \in Tracks : stored[t] \in {rep, NoImage}
    BY <1>1, <2>1, <2>2 DEF CommittedInv, Kept
  <2>6. \A t \in Tracks : t \notin found \ {rep} => RowsNow[t] \in {rep, NoImage}
    BY <2>5 DEF RowsNow
  <2>7. TxnInv'
    BY <1>1, <1>2, <1>3, <2>2, <2>6, ImageNames DEF TxnInv
  <2>8. image # NoImage => image = rep \/ (image = Scene /\ Scene \in Available)
    BY <1>1, <2>1, <2>2 DEF CommittedInv, Kept
  <2>9. CommittedInv'
    BY <1>1, <2>1, <2>2, <2>3, <2>5, <2>8 DEF CommittedInv, seen
  <2> QED
    BY <2>4, <2>7, <2>9
<1> QED
  BY <1>4, <1>5, <1>6 DEF ImagesInv

LEMMA RemoveKeepsImages ==
    ASSUME ImagesInv, NEW t \in Tracks, RemoveImage(t)
    PROVE  ImagesInv'
<1> DEFINE X == [pc : {"idle", "commit", "collapse"}, rows : [Tracks -> Tracks \cup {NoImage}],
                 rep : Images \cup {NoImage}, left : SUBSET Tracks]
<1>0. SnapshotTypeOK /\ ChoiceInv /\ (OneChoice => UploadsInv /\ TxnInv /\ CommittedInv)
      /\ txn \in X
  BY DEF ImagesInv, SnapshotTypeOK
<1>1. /\ UNCHANGED <<seen, attempt, ocResults, stored, image, missing, chosen>>
      /\ txn.pc = "collapse" /\ t \in txn.left
      /\ objects \ {t} \subseteq objects' /\ objects' \subseteq objects
      /\ snapshotFaults' \in Nat
  BY <1>0 DEF RemoveImage, SnapshotFault, SnapshotTypeOK
<1>2. /\ txn'.pc = "collapse" /\ txn'.rep = txn.rep /\ txn'.left = txn.left \ {t}
      /\ txn'.rows = [txn.rows EXCEPT ![t] = txn.rep]
  BY <1>0, <1>1 DEF RemoveImage
<1>3. txn' = [txn EXCEPT !.rows = txn'.rows, !.left = txn'.left]
  BY <1>0, <1>2 DEF RemoveImage
<1>4. ASSUME OneChoice' PROVE UploadsInv' /\ TxnInv' /\ CommittedInv'
  <2>0. UploadsInv /\ TxnInv /\ CommittedInv /\ Kept' = Kept
    BY <1>0, <1>1, <1>4 DEF OneChoice, Kept, seen
  <2>1. t \notin Kept /\ t # Scene /\ t # NoImage /\ Available \ {t} \subseteq Available'
    BY <1>1, <2>0, ImageNames DEF TxnInv, Available
  <2>2. \A i \in 1..Len(ocResults) : ocResults[i] \in {Scene, NoImage}
    BY <1>0 DEF SnapshotTypeOK
  <2>3. \A a \in Runs : attempt[a].scene \in {Scene, NoImage}
    BY <1>0 DEF SnapshotTypeOK
  <2>4. UploadsInv'
    BY <1>1, <2>0, <2>1, <2>2, <2>3 DEF UploadsInv
  <2>5. \A u \in Tracks : u \notin txn'.left => txn'.rows[u] \in Kept \cup {NoImage}
    BY <1>0, <1>1, <1>2, <2>0 DEF TxnInv
  <2>6. TxnInv'
    BY <1>1, <1>2, <2>0, <2>1, <2>5 DEF TxnInv
  <2>7. CommittedInv'
    BY <1>1, <1>2, <2>0, <2>1 DEF CommittedInv, seen
  <2> QED
    BY <2>4, <2>6, <2>7
<1>5. txn' \in X
  <2>1. txn.rep \in Tracks
    BY <1>0, <1>1 DEF ChoiceInv, SnapshotTypeOK
  <2>2. txn'.rows \in [Tracks -> Tracks \cup {NoImage}] /\ txn'.left \in SUBSET Tracks
    BY <1>0, <1>2, <2>1
  <2> QED
    BY <1>0, <1>3, <2>2
<1>6. SnapshotTypeOK'
  BY <1>0, <1>1, <1>5 DEF SnapshotTypeOK, seen
<1>7. ChoiceInv'
  BY <1>0, <1>1, <1>2 DEF ChoiceInv, seen
<1> QED
  BY <1>4, <1>6, <1>7 DEF ImagesInv

LEMMA EndKeepsImages ==
    ASSUME ImagesInv, CommitResult \/ ResultLost \/ ConsumerDies
    PROVE  ImagesInv'
<1>0. SnapshotTypeOK /\ ChoiceInv /\ (OneChoice => UploadsInv /\ TxnInv /\ CommittedInv)
  BY DEF ImagesInv
<1>1. /\ UNCHANGED <<seen, attempt, objects, missing, chosen>>
      /\ txn.pc # "idle" /\ txn' = NoTxn
      /\ ocResults' = Tail(ocResults) \/ ocResults' = ocResults
      /\ snapshotFaults' \in Nat
      /\ \/ UNCHANGED <<stored, image>>
         \/ stored' = txn.rows /\ image' = txn.rep /\ txn.left = {}
  BY <1>0 DEF CommitResult, ResultLost, ConsumerDies, SnapshotFault, SnapshotTypeOK
<1>2. NoTxn \in [pc : {"idle", "commit", "collapse"}, rows : [Tracks -> Tracks \cup {NoImage}],
                 rep : Images \cup {NoImage}, left : SUBSET Tracks]
  BY DEF NoTxn
<1>3. CASE ocResults # <<>>
  <2>1. /\ ocResults' \in Seq({Scene, NoImage})
        /\ \A i \in 1..Len(ocResults') : \E k \in 1..Len(ocResults) : ocResults'[i] = ocResults[k]
    <3>1. CASE ocResults' = Tail(ocResults)
      <4>1. /\ Tail(ocResults) \in Seq({Scene, NoImage})
            /\ Len(Tail(ocResults)) = Len(ocResults) - 1
            /\ \A i \in 1..Len(Tail(ocResults)) : Tail(ocResults)[i] = ocResults[i + 1]
        BY <1>0, <1>3, HeadTailProperties DEF SnapshotTypeOK
      <4>2. Len(ocResults) \in Nat
        BY <1>0 DEF SnapshotTypeOK
      <4> QED
        BY <3>1, <4>1, <4>2
    <3> QED
      BY <1>0, <1>1, <3>1 DEF SnapshotTypeOK
  <2>2. SnapshotTypeOK'
    BY <1>0, <1>1, <1>2, <2>1 DEF SnapshotTypeOK, seen
  <2>3. ChoiceInv'
    BY <1>0, <1>1 DEF ChoiceInv, NoTxn, seen
  <2>4. ASSUME OneChoice' PROVE UploadsInv' /\ TxnInv' /\ CommittedInv'
    <3>0. UploadsInv /\ TxnInv /\ CommittedInv /\ Kept' = Kept /\ Available' = Available
      BY <1>0, <1>1, <2>4 DEF OneChoice, Kept, Available, seen
    <3>1. Kept \subseteq Available
      BY <1>3, <3>0 DEF UploadsInv
    <3>2. UploadsInv'
      BY <1>1, <2>1, <3>0, <3>1 DEF UploadsInv
    <3>3. TxnInv'
      BY <1>1 DEF TxnInv, NoTxn
    <3>4. CommittedInv'
      <4>1. CASE UNCHANGED <<stored, image>>
        BY <1>1, <3>0, <4>1 DEF CommittedInv, NoTxn, seen
      <4>2. CASE stored' = txn.rows /\ image' = txn.rep /\ txn.left = {}
        BY <1>1, <3>0, <3>1, <4>2 DEF CommittedInv, TxnInv, seen
      <4> QED
        BY <1>1, <4>1, <4>2
    <3> QED
      BY <3>2, <3>3, <3>4
  <2> QED
    BY <2>2, <2>3, <2>4 DEF ImagesInv
<1>4. ocResults # <<>>
  BY <1>0, <1>1 DEF ChoiceInv
<1> QED
  BY <1>3, <1>4

LEMMA ImagesKept == ImagesInv /\ [SnapshotNext]_snapshotVars => ImagesInv'
<1> SUFFICES ASSUME ImagesInv, [SnapshotNext]_snapshotVars PROVE ImagesInv'
  OBVIOUS
<1>1. CASE UNCHANGED snapshotVars
  BY <1>1 DEF snapshotVars, seen, ImagesInv, SnapshotTypeOK, ChoiceInv, OneChoice, UploadsInv,
     TxnInv, CommittedInv, Kept, Available
<1>2. ASSUME NEW a \in Runs,
             \/ StartAttempt(a) \/ PublishResult(a) \/ AttemptDies(a)
             \/ \E m \in Images : UploadImage(a, m) \/ UploadFails(a, m)
      PROVE  ImagesInv'
  BY <1>2, AttemptKeepsImages
<1>3. ASSUME NEW t \in Tracks, RemoveImage(t) PROVE ImagesInv'
  BY <1>3, RemoveKeepsImages
<1> QED
  BY <1>1, <1>2, <1>3, ApplyKeepsImages, CollapseKeepsImages, EndKeepsImages DEF SnapshotNext

(* The images and the tables keep their types; in particular the tables    *)
(* never name an image of another clip.                                    *)
THEOREM SnapshotTypeCorrect == SnapshotSpec => []SnapshotTypeOK
<1>1. ImagesInv => SnapshotTypeOK
  BY DEF ImagesInv
<1> QED
  BY <1>1, ImagesInit, ImagesKept, PTL DEF SnapshotSpec

(* For any tracks, attempts and faults: what the tables name is in MinIO,  *)
(* unless it could not be uploaded or several tracks were chosen.          *)
THEOREM ImagesAreThere == SnapshotSpec => []NamedImagesExist
<1>1. ImagesInv => NamedImagesExist
  <2> SUFFICES ASSUME ImagesInv, ~(Named \subseteq objects \cup missing)
               PROVE  Cardinality(chosen) > 1
    BY DEF NamedImagesExist
  <2>1. OneChoice => CommittedInv
    BY DEF ImagesInv
  <2>2. ~OneChoice
    BY <2>1 DEF CommittedInv, Named, Available
  <2>3. PICK c \in chosen, d \in chosen : c # d
    BY <2>2 DEF OneChoice
  <2>4. IsFiniteSet(chosen)
    BY DEF ImagesInv, ChoiceInv
  <2>5. IsFiniteSet({c}) /\ Cardinality({c}) = 1
    BY FS_Singleton
  <2>6. IsFiniteSet({c} \cup {d}) /\ Cardinality({c} \cup {d}) = 2
    BY <2>3, <2>5, FS_AddElement
  <2>7. {c} \cup {d} \in SUBSET chosen
    BY <2>3
  <2>8. Cardinality({c} \cup {d}) <= Cardinality(chosen)
    BY <2>4, <2>7, FS_Subset
  <2>9. Cardinality(chosen) \in Nat
    BY <2>4, FS_CardinalityType
  <2> QED
    BY <2>6, <2>8, <2>9
<1> QED
  BY <1>1, ImagesInit, ImagesKept, PTL DEF SnapshotSpec

-------------------------------------------------------------------------------
(* Byte ranges. What has been sent are the bytes of the range from its     *)
(* start on, and a clip that grows never falls short of its promise.       *)

PromiseInv ==
    /\ response.pc \in {"open", "read", "done", "broken"} =>
          /\ Satisfiable(asked, response.size) /\ response.size <= bytes
          /\ response.start = Start(asked)
          /\ response.length = LastByte(asked, response.size) - Start(asked) + 1
    /\ response.pc \notin {"read", "done"} => Len(response.sent) = 0
    /\ response.pc \in {"read", "done"} => Len(response.sent) <= response.length
    /\ \A i \in 1..Len(response.sent) : response.sent[i] = response.start + i - 1
    /\ response.pc = "done" => Len(response.sent) = response.length
    /\ response.pc = "unsatisfiable" => ~Satisfiable(asked, response.size)
    /\ response.pc = "broken" => renamed

DownloadInv == DownloadTypeOK /\ PromiseInv

LEMMA SeqOfFunction ==
    ASSUME NEW S, NEW n \in Nat, NEW f \in [1..n -> S]
    PROVE  f \in Seq(S) /\ Len(f) = n
<1>1. f \in Seq(S)
  BY SeqDef
<1>2. 1..Len(f) = 1..n /\ Len(f) \in Nat
  BY <1>1, LenProperties
<1> QED
  BY <1>1, <1>2

(* The range that is served, for a clip of that size.                      *)
LEMMA RangeServed ==
    ASSUME DownloadTypeOK, NEW size \in 0..MaxBytes
    PROVE  /\ Start(asked) \in 0..MaxBytes + 1 /\ LastByte(asked, size) \in -1..size - 1
           /\ Satisfiable(asked, size) =>
                 /\ Start(asked) \in 0..size - 1
                 /\ LastByte(asked, size) - Start(asked) + 1 \in 1..size - Start(asked)
           /\ asked.first # Blank =>
                 RangeOf(asked, size) = {i \in 0..size - 1 :
                     i >= Start(asked) /\ i <= LastByte(asked, size)}
<1>1. /\ asked.first \in Int /\ asked.first >= -1 /\ asked.first <= MaxBytes + 1
      /\ asked.last \in Int /\ asked.last >= -1 /\ asked.last <= MaxBytes + 1
      /\ MaxBytes \in Nat
  BY DownloadAssumption DEF DownloadTypeOK, Bounds, Blank
<1>2. Start(asked) \in 0..MaxBytes + 1
  BY <1>1 DEF Start, Blank
<1>3. /\ LastByte(asked, size) \in Int /\ LastByte(asked, size) >= -1
      /\ LastByte(asked, size) <= size - 1
  BY <1>1 DEF LastByte, Smaller, Blank
<1>4. ASSUME asked.first # Blank, NEW i \in 0..size - 1
      PROVE  i >= asked.first /\ (asked.last = Blank \/ i <= asked.last)
                 <=> i >= Start(asked) /\ i <= LastByte(asked, size)
  BY <1>1, <1>4 DEF Start, LastByte, Smaller, Blank
<1>5. Satisfiable(asked, size) =>
         /\ Start(asked) \in 0..size - 1
         /\ LastByte(asked, size) - Start(asked) + 1 \in 1..size - Start(asked)
  BY <1>1, <1>2, <1>3 DEF Satisfiable
<1>6. LastByte(asked, size) \in -1..size - 1
  BY <1>1, <1>3
<1>7. asked.first # Blank =>
         RangeOf(asked, size) = {i \in 0..size - 1 :
             i >= Start(asked) /\ i <= LastByte(asked, size)}
  BY <1>4 DEF RangeOf
<1> QED
  BY <1>2, <1>5, <1>6, <1>7

LEMMA DownloadInitInv == DownloadInit => DownloadInv
<1> SUFFICES ASSUME DownloadInit PROVE DownloadInv
  OBVIOUS
<1>1. Len(response.sent) = 0 /\ response.pc = "ask" /\ response.sent \in Seq(0..MaxBytes)
  BY DEF DownloadInit
<1>2. 0 \in 0..MaxBytes
  BY DownloadAssumption
<1>3. DownloadTypeOK
  BY <1>1, <1>2 DEF DownloadInit, DownloadTypeOK
<1>4. PromiseInv
  BY <1>1 DEF PromiseInv
<1> QED
  BY <1>3, <1>4 DEF DownloadInv

LEMMA AnswerKeeps ==
    ASSUME DownloadInv, Answer
    PROVE  DownloadInv'
<1> DEFINE P == {"ask", "not_found", "unsatisfiable", "open", "broken", "read", "done"}
           R == [pc : P, size : 0..MaxBytes, start : 0..MaxBytes, length : 0..MaxBytes,
                 sent : Seq(0..MaxBytes)]
<1>0. /\ DownloadTypeOK /\ PromiseInv /\ response \in R /\ bytes \in 0..MaxBytes
      /\ response.pc = "ask" /\ UNCHANGED <<asked, bytes, renamed>>
      /\ Len(response.sent) = 0 /\ MaxBytes \in Nat
  BY DownloadAssumption DEF DownloadInv, DownloadTypeOK, PromiseInv, Answer
<1>1. CASE renamed
  <2>1. response' = [response EXCEPT !.pc = "not_found"]
    BY <1>1 DEF Answer
  <2>2. response' \in R /\ response'.pc = "not_found" /\ response'.sent = response.sent
    BY <1>0, <2>1
  <2> QED
    BY <1>0, <2>2 DEF DownloadInv, DownloadTypeOK, PromiseInv
<1>2. CASE ~renamed /\ Satisfiable(asked, bytes)
  <2>1. response' = [response EXCEPT !.pc = "open", !.size = bytes, !.start = Start(asked),
                       !.length = LastByte(asked, bytes) - Start(asked) + 1]
    BY <1>2 DEF Answer
  <2>2. /\ Start(asked) \in 0..MaxBytes
        /\ LastByte(asked, bytes) - Start(asked) + 1 \in 0..MaxBytes
    <3>1. /\ Start(asked) \in 0..bytes - 1
          /\ LastByte(asked, bytes) - Start(asked) + 1 \in 1..bytes - Start(asked)
      BY <1>0, <1>2, RangeServed
    <3> QED
      BY <1>0, <3>1
  <2>3. /\ response' \in R /\ response'.pc = "open" /\ response'.sent = response.sent
        /\ response'.size = bytes /\ response'.start = Start(asked)
        /\ response'.length = LastByte(asked, bytes) - Start(asked) + 1
    BY <1>0, <2>1, <2>2
  <2>4. Start(asked)' = Start(asked) /\ LastByte(asked, bytes)' = LastByte(asked, bytes)
        /\ Satisfiable(asked, bytes)'
    BY <1>0, <1>2 DEF Start, LastByte, Satisfiable
  <2> QED
    BY <1>0, <1>2, <2>3, <2>4 DEF DownloadInv, DownloadTypeOK, PromiseInv
<1>3. CASE ~renamed /\ ~Satisfiable(asked, bytes)
  <2>1. response' = [response EXCEPT !.pc = "unsatisfiable", !.size = bytes]
    BY <1>3 DEF Answer
  <2>2. /\ response' \in R /\ response'.pc = "unsatisfiable" /\ response'.sent = response.sent
        /\ response'.size = bytes
    BY <1>0, <2>1
  <2> QED
    BY <1>0, <1>3, <2>2 DEF DownloadInv, DownloadTypeOK, PromiseInv
<1> QED
  BY <1>1, <1>2, <1>3

LEMMA SendKeeps ==
    ASSUME DownloadInv, SendChunk
    PROVE  DownloadInv'
<1> DEFINE P == {"ask", "not_found", "unsatisfiable", "open", "broken", "read", "done"}
           R == [pc : P, size : 0..MaxBytes, start : 0..MaxBytes, length : 0..MaxBytes,
                 sent : Seq(0..MaxBytes)]
           k == Len(response.sent)
           n == Smaller(Smaller(ChunkSize, response.length - k), bytes - response.start - k)
           chunk == [i \in 1..n |-> response.start + k + i - 1]
<1>0. /\ DownloadTypeOK /\ PromiseInv /\ response \in R /\ bytes \in 0..MaxBytes
      /\ response.pc = "read" /\ UNCHANGED <<asked, bytes, renamed>>
      /\ MaxBytes \in Nat /\ ChunkSize \in Nat \ {0} /\ k \in Nat
      /\ response.size \in 0..MaxBytes
  BY DownloadAssumption DEF DownloadInv, DownloadTypeOK, SendChunk
<1>1. /\ response.start \in Nat /\ response.length \in Nat /\ k <= response.length
      /\ response.start + response.length <= response.size /\ response.size <= bytes
      /\ Satisfiable(asked, response.size) /\ response.start = Start(asked)
      /\ response.length = LastByte(asked, response.size) - Start(asked) + 1
      /\ \A i \in 1..k : response.sent[i] = response.start + i - 1
  <2>1. /\ k <= response.length /\ response.size <= bytes
        /\ Satisfiable(asked, response.size) /\ response.start = Start(asked)
        /\ response.length = LastByte(asked, response.size) - Start(asked) + 1
        /\ \A i \in 1..k : response.sent[i] = response.start + i - 1
    BY <1>0 DEF PromiseInv
  <2>2. /\ response.start \in 0..response.size - 1
        /\ response.length \in 1..response.size - response.start
    BY <1>0, <2>1, RangeServed
  <2> QED
    BY <1>0, <2>1, <2>2
<1>2. n \in Int /\ n <= response.length - k /\ (n <= 0 => response.length <= k)
  BY <1>0, <1>1 DEF Smaller
<1>3. response' = IF n <= 0 THEN [response EXCEPT !.pc = "done"]
                  ELSE [response EXCEPT !.sent = @ \o chunk]
  BY DEF SendChunk
<1> HIDE DEF n
<1>4. CASE n <= 0
  <2>1. /\ response' \in R /\ response'.pc = "done"
        /\ response'.sent = response.sent /\ response'.size = response.size
        /\ response'.start = response.start /\ response'.length = response.length
    BY <1>0, <1>3, <1>4
  <2> QED
    BY <1>0, <1>1, <1>2, <1>4, <2>1 DEF DownloadInv, DownloadTypeOK, PromiseInv, Start, LastByte,
       Satisfiable
<1>5. CASE n > 0
  <2>0. n \in Nat /\ ~(n <= 0)
    BY <1>2, <1>5
  <2>1. \A i \in 1..n : response.start + k + i - 1 \in 0..MaxBytes
    BY <1>0, <1>1, <1>2, <2>0
  <2>2. chunk \in [1..n -> 0..MaxBytes]
    BY <2>1
  <2>3. chunk \in Seq(0..MaxBytes) /\ Len(chunk) = n
    BY <2>0, <2>2, SeqOfFunction
  <2>4. \A i \in 1..n : chunk[i] = response.start + k + i - 1
    OBVIOUS
  <2> HIDE DEF chunk
  <2>5. response.sent \in Seq(0..MaxBytes)
    BY <1>0
  <2>6. /\ response.sent \o chunk \in Seq(0..MaxBytes)
        /\ Len(response.sent \o chunk) = k + n
        /\ \A i \in 1..k + n : (response.sent \o chunk)[i] =
              IF i <= k THEN response.sent[i] ELSE chunk[i - k]
    BY <2>3, <2>5, ConcatProperties
  <2>7. \A i \in 1..k + n : (response.sent \o chunk)[i] = response.start + i - 1
    <3> SUFFICES ASSUME NEW i \in 1..k + n
                 PROVE  (response.sent \o chunk)[i] = response.start + i - 1
      OBVIOUS
    <3>1. CASE i <= k
      <4>1. i \in 1..k
        BY <1>0, <2>0, <3>1
      <4> QED
        BY <1>1, <2>6, <3>1, <4>1
    <3>2. CASE i > k
      <4>1. i - k \in 1..n /\ ~(i <= k)
        BY <1>0, <2>0, <3>2
      <4>2. chunk[i - k] = response.start + i - 1
        BY <1>0, <1>1, <2>0, <2>4, <4>1
      <4> QED
        BY <2>6, <4>1, <4>2
    <3>3. i <= k \/ i > k
      BY <1>0, <2>0
    <3> QED
      BY <3>1, <3>2, <3>3
  <2>8. response' = [response EXCEPT !.sent = response.sent \o chunk]
    BY <1>3, <2>0
  <2>9. /\ response' \in R /\ response'.pc = "read"
        /\ response'.sent = response.sent \o chunk /\ response'.size = response.size
        /\ response'.start = response.start /\ response'.length = response.length
    BY <1>0, <2>6, <2>8
  <2>10. Len(response'.sent) = k + n /\ k + n <= response.length
    BY <1>0, <1>1, <1>2, <2>0, <2>6, <2>9
  <2>11. \A i \in 1..Len(response'.sent) : response'.sent[i] = response.start + i - 1
    BY <2>7, <2>9, <2>10
  <2> HIDE DEF k
  <2> QED
    BY <1>0, <1>1, <2>9, <2>10, <2>11 DEF DownloadInv, DownloadTypeOK, PromiseInv, Start, LastByte,
       Satisfiable
<1> QED
  BY <1>2, <1>4, <1>5

LEMMA DownloadInvKept == DownloadInv /\ [DownloadNext]_downloadVars => DownloadInv'
<1> SUFFICES ASSUME DownloadInv, [DownloadNext]_downloadVars PROVE DownloadInv'
  OBVIOUS
<1>0. DownloadTypeOK /\ PromiseInv /\ MaxBytes \in Nat
  BY DownloadAssumption DEF DownloadInv
<1>1. CASE OpenClip
  <2>1. /\ response.pc = "open" /\ UNCHANGED <<asked, bytes, renamed>>
        /\ response' = [response EXCEPT !.pc = IF renamed THEN "broken" ELSE "read"]
    BY <1>1 DEF OpenClip
  <2>2. /\ response'.pc = IF renamed THEN "broken" ELSE "read"
        /\ response'.sent = response.sent /\ response'.size = response.size
        /\ response'.start = response.start /\ response'.length = response.length
    BY <1>0, <2>1 DEF DownloadTypeOK
  <2>3. DownloadTypeOK'
    BY <1>0, <2>1 DEF DownloadTypeOK
  <2>4. Len(response.sent) = 0 /\ response.length \in Nat
    BY <1>0, <2>1 DEF PromiseInv, DownloadTypeOK
  <2> QED
    BY <1>0, <2>1, <2>2, <2>3, <2>4 DEF DownloadInv, PromiseInv, Start, LastByte, Satisfiable
<1>2. CASE ClipRenamed
  BY <1>0, <1>2 DEF ClipRenamed, DownloadInv, DownloadTypeOK, PromiseInv, Start, LastByte, Satisfiable
<1>3. CASE ClipGrows
  <2>1. /\ bytes \in 0..MaxBytes /\ bytes < MaxBytes /\ bytes' = bytes + 1
        /\ UNCHANGED <<asked, response, renamed>> /\ response.size \in 0..MaxBytes
    BY <1>0, <1>3 DEF ClipGrows, DownloadTypeOK
  <2>2. DownloadTypeOK'
    BY <1>0, <2>1 DEF DownloadTypeOK
  <2>3. response.size <= bytes => response.size <= bytes'
    BY <1>0, <2>1
  <2> QED
    BY <1>0, <2>1, <2>2, <2>3 DEF DownloadInv, PromiseInv, Start, LastByte, Satisfiable
<1>4. CASE UNCHANGED downloadVars
  BY <1>0, <1>4 DEF downloadVars, DownloadInv, DownloadTypeOK, PromiseInv, Start, LastByte,
     Satisfiable
<1> QED
  BY <1>1, <1>2, <1>3, <1>4, AnswerKeeps, SendKeeps DEF DownloadNext

(* Nothing of the response leaves its range, however long the clip is.     *)
THEOREM DownloadTypeCorrect == DownloadSpec => []DownloadTypeOK
<1>1. DownloadInv => DownloadTypeOK
  BY DEF DownloadInv
<1> QED
  BY <1>1, DownloadInitInv, DownloadInvKept, PTL DEF DownloadSpec

(* For clips and chunks of any size: a complete answer is the range that   *)
(* was asked for, in order; a 416 is given only for an empty one; and only *)
(* a rename breaks the promise of the headers.                             *)
THEOREM RangesAreServed == DownloadSpec => []RangeIsServed
<1>1. DownloadInv => RangeIsServed
  <2> SUFFICES ASSUME DownloadInv, asked.first # Blank PROVE RangeIsServed
    BY DEF RangeIsServed
  <2> DEFINE size == response.size
             sent == response.sent
             first == Start(asked)
             last == LastByte(asked, size)
  <2>0. /\ DownloadTypeOK /\ PromiseInv /\ size \in 0..MaxBytes /\ MaxBytes \in Nat
        /\ sent \in Seq(0..MaxBytes) /\ Len(sent) \in Nat /\ DOMAIN sent = 1..Len(sent)
    BY DownloadAssumption, LenProperties DEF DownloadInv, DownloadTypeOK
  <2>1. /\ first \in Nat /\ last \in Int /\ last <= size - 1
        /\ RangeOf(asked, size) = {i \in 0..size - 1 : i >= first /\ i <= last}
    BY <2>0, RangeServed
  <2>2. ASSUME response.pc = "done"
        PROVE  /\ ToSet(sent) = RangeOf(asked, size)
               /\ \A i, j \in 1..Len(sent) : i < j => sent[i] < sent[j]
               /\ Len(sent) = response.length
    <3>1. /\ Len(sent) = last - first + 1 /\ Len(sent) = response.length
          /\ \A i \in 1..Len(sent) : sent[i] = first + i - 1
      BY <2>0, <2>2 DEF PromiseInv
    <3> HIDE DEF size, sent, first, last
    <3>2. \A i \in 1..Len(sent) : sent[i] \in RangeOf(asked, size)
      <4> SUFFICES ASSUME NEW i \in 1..Len(sent) PROVE sent[i] \in RangeOf(asked, size)
        OBVIOUS
      <4>1. first + i - 1 \in 0..size - 1 /\ first + i - 1 >= first /\ first + i - 1 <= last
        BY <2>0, <2>1, <3>1
      <4> QED
        BY <2>1, <3>1, <4>1
    <3>3. \A b \in RangeOf(asked, size) : b - first + 1 \in 1..Len(sent) /\ sent[b - first + 1] = b
      <4> SUFFICES ASSUME NEW b \in 0..size - 1, b >= first, b <= last
                   PROVE  b - first + 1 \in 1..Len(sent) /\ sent[b - first + 1] = b
        BY <2>1
      <4>1. b - first + 1 \in 1..Len(sent) /\ first + (b - first + 1) - 1 = b
        BY <2>0, <2>1, <3>1
      <4> QED
        BY <3>1, <4>1
    <3>4. ToSet(sent) = RangeOf(asked, size)
      BY <2>0, <3>2, <3>3 DEF ToSet
    <3>5. \A i, j \in 1..Len(sent) : i < j => sent[i] < sent[j]
      BY <2>0, <2>1, <3>1
    <3> QED
      BY <3>1, <3>4, <3>5
  <2>3. response.pc = "unsatisfiable" => RangeOf(asked, size) = {}
    BY <2>0, <2>1 DEF PromiseInv, Satisfiable
  <2>4. response.pc = "broken" => renamed
    BY <2>0 DEF PromiseInv
  <2> QED
    BY <2>2, <2>3, <2>4 DEF RangeIsServed
<1> QED
  BY <1>1, DownloadInitInv, DownloadInvKept, PTL DEF DownloadSpec

-------------------------------------------------------------------------------
(* The composed run. Its behaviours are behaviours of every component: the *)
(* one in focus takes its steps, and the others stand still.               *)

LEMMA StepsOfServices ==
    ASSUME [ServicesNext]_servicesVars
    PROVE  /\ [WatcherNext]_watcherVars /\ [IngestNext]_ingestVars
           /\ [RegistryNext]_registryVars /\ [PlaybackNext]_playbackVars
           /\ [DownloadNext]_downloadVars /\ [DecodeNext]_decodeVars
           /\ [MergeNext]_mergeVars /\ [BoxNext]_boxVars /\ [SnapshotNext]_snapshotVars
<1>1. CASE UNCHANGED servicesVars
  BY <1>1 DEF servicesVars
<1>2. CASE InFocus("watcher") /\ WatcherNext /\ Others("watcher")
  BY <1>2 DEF Others, Unless
<1>3. CASE InFocus("ingest") /\ IngestNext /\ Others("ingest")
  BY <1>3 DEF Others, Unless
<1>4. CASE InFocus("registry") /\ RegistryNext /\ Others("registry")
  BY <1>4 DEF Others, Unless
<1>5. CASE InFocus("playback") /\ PlaybackNext /\ Others("playback")
  BY <1>5 DEF Others, Unless
<1>6. CASE InFocus("download") /\ DownloadNext /\ Others("download")
  BY <1>6 DEF Others, Unless
<1>7. CASE InFocus("decode") /\ DecodeNext /\ Others("decode")
  BY <1>7 DEF Others, Unless
<1>8. CASE InFocus("merge") /\ MergeNext /\ Others("merge")
  BY <1>8 DEF Others, Unless
<1>9. CASE InFocus("boxes") /\ BoxNext /\ Others("boxes")
  BY <1>9 DEF Others, Unless
<1>10. CASE InFocus("snapshots") /\ SnapshotNext /\ Others("snapshots")
  BY <1>10 DEF Others, Unless
<1> QED
  BY <1>1, <1>2, <1>3, <1>4, <1>5, <1>6, <1>7, <1>8, <1>9, <1>10 DEF ServicesNext

(* A behaviour of the composed run is one of each component: whatever is   *)
(* proved of a component by itself holds in the run.                       *)
THEOREM ServicesAreComposed ==
    ServicesSpec => /\ WatcherSpec /\ IngestSpec /\ RegistrySpec /\ PlaybackSpec
                    /\ DownloadSpec /\ DecodeSpec /\ MergeSpec /\ BoxSpec /\ SnapshotSpec
<1>1. ServicesInit => /\ WatcherInit /\ IngestInit /\ RegistryInit /\ PlaybackInit
                      /\ DownloadInit /\ DecodeInit /\ MergeInit /\ BoxInit /\ SnapshotInit
  BY DEF ServicesInit
<1>2. [ServicesNext]_servicesVars =>
          /\ [WatcherNext]_watcherVars /\ [IngestNext]_ingestVars
          /\ [RegistryNext]_registryVars /\ [PlaybackNext]_playbackVars
          /\ [DownloadNext]_downloadVars /\ [DecodeNext]_decodeVars
          /\ [MergeNext]_mergeVars /\ [BoxNext]_boxVars /\ [SnapshotNext]_snapshotVars
  BY StepsOfServices
<1> QED
  BY <1>1, <1>2, PTL
  DEF ServicesSpec, WatcherSpec, IngestSpec, RegistrySpec, PlaybackSpec, DownloadSpec,
      DecodeSpec, MergeSpec, BoxSpec, SnapshotSpec

(* Every component of the run keeps its types.                             *)
THEOREM ServicesTypesCorrect == ServicesSpec => []ServicesTypeOK
<1>1. /\ WatcherTypeOK /\ IngestTypeOK /\ RegistryTypeOK /\ PlaybackTypeOK /\ DownloadTypeOK
      /\ DecodeTypeOK /\ MergeTypeOK /\ BoxTypeOK /\ SnapshotTypeOK
      => ServicesTypeOK
  BY DEF ServicesTypeOK
<1> QED
  BY <1>1, ServicesAreComposed, WatcherTypeCorrect, IngestTypeCorrect, RegistryTypeCorrect,
     PlaybackTypeCorrect, DownloadTypeCorrect, DecodeTypeCorrect, MergeTypeCorrect,
     BoxTypeCorrect, SnapshotTypeCorrect, PTL
===============================================================================
