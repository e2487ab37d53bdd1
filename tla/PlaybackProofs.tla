---------------------------- MODULE PlaybackProofs -----------------------------
(***************************************************************************)
(* The safety properties of playback for any number of clients and of      *)
(* transcode workers: a rung that is held is on its way, and it is encoded *)
(* once unless an order was sent or looked at again after an error.        *)
(***************************************************************************)
EXTENDS Playback, Integers, TLAPS

PollStates == [pc : {"none", "stat", "claim", "publish", "release"}, order : Orders]
WorkStates == [pc : {"idle", "check", "encode", "upload", "ack"}, order : Orders]

(* Who carries an order for r that may still lead to an encoding.          *)
Holding(q, r) == poll[q].pc \in {"publish", "release"} /\ poll[q].order.rung = r
Waiting(o, r) == o.rung = r /\ orders[o] > 0
Busy(w, r) == transcoder[w].pc \in {"check", "encode", "upload"} /\ transcoder[w].order.rung = r

OneCarrier(r) ==
    /\ \A p, q \in Polls : Holding(p, r) /\ Holding(q, r) => p = q
    /\ \A o, p \in Orders : Waiting(o, r) /\ Waiting(p, r) => o = p /\ orders[o] = 1
    /\ \A v, w \in Transcoders : Busy(v, r) /\ Busy(w, r) => v = w
    /\ \A q \in Polls, o \in Orders : ~(Holding(q, r) /\ Waiting(o, r))
    /\ \A q \in Polls, w \in Transcoders : ~(Holding(q, r) /\ Busy(w, r))
    /\ \A o \in Orders, w \in Transcoders : ~(Waiting(o, r) /\ Busy(w, r))

(* Carried only while _inflight holds it.                                  *)
CarriedIsHeld(r) ==
    /\ \A q \in Polls : Holding(q, r) => r \in inflight
    /\ \A o \in Orders : Waiting(o, r) => r \in inflight
    /\ \A w \in Transcoders : Busy(w, r) => r \in inflight

(* Encoded: only its encoder still carries it, and it stays held.          *)
EncodedInv(r) ==
    \/ /\ encodes[r] = 0
       /\ \A w \in Transcoders : Busy(w, r) => transcoder[w].pc # "upload"
    \/ /\ encodes[r] = 1 /\ r \in inflight
       /\ \A q \in Polls : ~Holding(q, r)
       /\ \A o \in Orders : ~Waiting(o, r)
       /\ \A w \in Transcoders : Busy(w, r) => transcoder[w].pc = "upload"

RungInv(r) ==
    /\ r \notin twice /\ r \notin renditions => OneCarrier(r) /\ CarriedIsHeld(r) /\ EncodedInv(r)
    /\ r \notin twice /\ r \in renditions =>
            encodes[r] <= 1 /\ \A w \in Transcoders : Busy(w, r) => transcoder[w].pc = "check"

AckInv ==
    \A w \in Transcoders :
        transcoder[w].pc = "ack" => transcoder[w].order.rung \in renditions \cup dropped

PlaybackInv == PlaybackTypeOK /\ AckInv /\ InflightIsTracked /\ \A r \in Rungs : RungInv(r)

-------------------------------------------------------------------------------
LEMMA OrderFacts ==
    /\ SomeOrder \in Orders /\ NoPoll \in PollStates /\ NoWork \in WorkStates
    /\ NoPoll.pc = "none" /\ NoWork.pc = "idle"
    /\ \A h \in Heights, p \in Paths : [rung |-> Rung(h), path |-> p] \in Orders
    /\ \A o \in Orders : o.rung \in Rungs /\ o.path \in Paths
<1>1. \A h \in Heights, p \in Paths : [rung |-> Rung(h), path |-> p] \in Orders
  BY DEF Orders, Rungs
<1>2. PICK h \in Heights : TRUE
  BY PlaybackAssumption
<1>3. "clip" \in Paths
  BY DEF Paths
<1>4. SomeOrder \in Orders
  BY <1>1, <1>2, <1>3 DEF SomeOrder
<1> QED
  BY <1>1, <1>4 DEF NoPoll, NoWork, PollStates, WorkStates, Orders

LEMMA PlaybackInitInv == PlaybackInit => PlaybackInv
<1> SUFFICES ASSUME PlaybackInit PROVE PlaybackInv
  OBVIOUS
<1> USE OrderFacts
<1>1. PlaybackTypeOK
  BY DEF PlaybackInit, PlaybackTypeOK, PollStates, WorkStates, Paths
<1>2. AckInv /\ InflightIsTracked
  BY DEF PlaybackInit, AckInv, InflightIsTracked
<1>3. ASSUME NEW r \in Rungs PROVE RungInv(r)
  <2>1. /\ \A q \in Polls : ~Holding(q, r)
        /\ \A w \in Transcoders : ~Busy(w, r)
        /\ \A o \in Orders : ~Waiting(o, r)
        /\ encodes[r] = 0 /\ r \notin renditions
    BY DEF PlaybackInit, Holding, Busy, Waiting
  <2> QED
    BY <2>1 DEF RungInv, OneCarrier, CarriedIsHeld, EncodedInv
<1> QED
  BY <1>1, <1>2, <1>3 DEF PlaybackInv

LEMMA PlaybackTypeFacts ==
    ASSUME PlaybackInv
    PROVE  /\ poll \in [Polls -> PollStates] /\ transcoder \in [Transcoders -> WorkStates]
           /\ orders \in [Orders -> Nat] /\ encodes \in [Rungs -> Nat]
           /\ row \in Paths \cup {"deleted"} /\ clip \in Paths \cup {"gone"}
           /\ renditions \subseteq Rungs /\ inflight \subseteq Rungs
           /\ twice \subseteq Rungs /\ dropped \subseteq Rungs /\ playbackFaults \in Nat
           /\ \A q \in Polls : poll[q] \in PollStates /\ poll[q].order \in Orders
           /\ \A w \in Transcoders : transcoder[w] \in WorkStates /\ transcoder[w].order \in Orders
BY DEF PlaybackInv, PlaybackTypeOK, PollStates, WorkStates

LEMMA FaultType ==
    ASSUME PlaybackInv, PlaybackFault
    PROVE  playbackFaults' \in Nat
BY PlaybackTypeFacts DEF PlaybackFault

(* A step that adds no carrier of r and does not let it go early.          *)
LEMMA RungKept ==
    ASSUME PlaybackInv, NEW r \in Rungs,
           \A q \in Polls : Holding(q, r)' => Holding(q, r),
           \A o \in Orders : Waiting(o, r)' => Waiting(o, r) /\ orders'[o] = orders[o],
           \A w \in Transcoders : Busy(w, r)' => Busy(w, r) /\ transcoder'[w].pc = transcoder[w].pc,
           encodes'[r] = encodes[r], r \in renditions' <=> r \in renditions,
           r \in inflight /\ r \notin renditions => r \in inflight',
           r \in twice => r \in twice'
    PROVE  RungInv(r)'
<1> SUFFICES ASSUME r \notin twice' PROVE RungInv(r)'
  BY DEF RungInv
<1>0. r \notin twice /\ RungInv(r)
  BY DEF PlaybackInv
<1>1. CASE r \in renditions
  BY <1>0, <1>1 DEF RungInv
<1>2. CASE r \notin renditions
  <2>1. OneCarrier(r) /\ CarriedIsHeld(r) /\ EncodedInv(r)
    BY <1>0, <1>2 DEF RungInv
  <2>2. OneCarrier(r)'
    BY <2>1 DEF OneCarrier
  <2>3. CarriedIsHeld(r)'
    BY <1>2, <2>1 DEF CarriedIsHeld
  <2>4. EncodedInv(r)'
    BY <1>2, <2>1 DEF EncodedInv
  <2> QED
    BY <1>2, <2>2, <2>3, <2>4 DEF RungInv
<1> QED
  BY <1>1, <1>2

(* A step of one poll, to p.                                               *)
LEMMA PollMoves ==
    ASSUME PlaybackInv, NEW q \in Polls, NEW p \in PollStates,
           poll' = [poll EXCEPT ![q] = p],
           UNCHANGED <<clipVars, renditions, transcoder, dropped, encodes>>,
           orders' \in [Orders -> Nat], \A o \in Orders : orders'[o] >= orders[o],
           inflight' \subseteq Rungs, twice' \subseteq Rungs, playbackFaults' \in Nat
    PROVE  /\ PlaybackTypeOK' /\ AckInv'
           /\ \A u \in Polls : \A r : u # q => (Holding(u, r)' <=> Holding(u, r))
           /\ \A r : Holding(q, r)' <=> p.pc \in {"publish", "release"} /\ p.order.rung = r
           /\ \A w \in Transcoders : \A r : Busy(w, r)' <=> Busy(w, r)
           /\ \A r : (Queued(r) => Queued(r)') /\ (InWork(r)' <=> InWork(r))
<1> USE PlaybackTypeFacts
<1>1. /\ poll' \in [Polls -> PollStates] /\ poll'[q] = p
      /\ \A u \in Polls \ {q} : poll'[u] = poll[u]
  OBVIOUS
<1>2. PlaybackTypeOK'
  BY <1>1 DEF PlaybackTypeOK, PollStates, WorkStates, clipVars
<1>3. AckInv'
  BY DEF PlaybackInv, AckInv
<1>4. \A r : Queued(r) => Queued(r)'
  <2> SUFFICES ASSUME NEW o \in Orders, orders[o] > 0 PROVE orders'[o] > 0
    BY DEF Queued
  <2>1. orders[o] \in Nat /\ orders'[o] \in Nat /\ orders'[o] >= orders[o]
    OBVIOUS
  <2> QED
    BY <2>1
<1> QED
  BY <1>1, <1>2, <1>3, <1>4 DEF Holding, Busy, InWork

(* A poll that takes no part in ordering, or gives up ordering.            *)
LEMMA PollsKeep ==
    ASSUME PlaybackInv, NEW q \in Polls,
           \/ \E h \in Heights : Poll(q, h)
           \/ StatMissing(q) \/ StatReady(q) \/ PublishOrderFails(q)
    PROVE  PlaybackInv'
<1> USE PlaybackTypeFacts, OrderFacts
<1>1. PICK p \in PollStates :
        /\ poll' = [poll EXCEPT ![q] = p]
        /\ p.pc \in {"publish", "release"} => poll[q].pc = "publish" /\ p.order = poll[q].order
        /\ poll[q].pc = "publish" => p.pc = "release" /\ p.order = poll[q].order
        /\ poll[q].pc # "release"
  <2>1. ASSUME NEW h \in Heights, Poll(q, h)
        PROVE  \E p \in PollStates : /\ poll' = [poll EXCEPT ![q] = p] /\ p.pc = "stat"
                                     /\ poll[q].pc = "none"
    <3>1. row \in Paths
      BY <2>1 DEF Poll
    <3>2. [pc |-> "stat", order |-> [rung |-> Rung(h), path |-> row]] \in PollStates
      BY <3>1 DEF PollStates
    <3> QED
      BY <2>1, <3>2 DEF Poll
  <2>2. CASE StatMissing(q)
    <3>1. [poll[q] EXCEPT !.pc = "claim"] \in PollStates /\ [poll[q] EXCEPT !.pc = "claim"].pc = "claim"
      BY DEF PollStates
    <3>2. poll' = [poll EXCEPT ![q] = [poll[q] EXCEPT !.pc = "claim"]]
      BY <2>2 DEF StatMissing, PollStates
    <3> QED
      BY <2>2, <3>1, <3>2 DEF StatMissing
  <2>3. CASE StatReady(q)
    BY <2>3 DEF StatReady
  <2>4. CASE PublishOrderFails(q)
    <3> DEFINE p == [poll[q] EXCEPT !.pc = "release"]
    <3>1. p \in PollStates /\ p.pc = "release" /\ p.order = poll[q].order
      BY DEF PollStates
    <3>2. poll' = [poll EXCEPT ![q] = p] /\ poll[q].pc = "publish"
      BY <2>4 DEF PublishOrderFails, PollStates
    <3> HIDE DEF p
    <3> QED
      BY <3>1, <3>2
  <2> QED
    BY <2>1, <2>2, <2>3, <2>4
<1>2. /\ UNCHANGED <<clipVars, renditions, transcoder, dropped, encodes, orders, twice>>
      /\ inflight' \subseteq inflight /\ \A r \in inflight : r \notin renditions => r \in inflight'
      /\ playbackFaults' \in Nat
  BY FaultType DEF Poll, StatMissing, StatReady, PublishOrderFails
<1>3. \A o \in Orders : orders'[o] >= orders[o]
  BY <1>2
<1>4. /\ PlaybackTypeOK' /\ AckInv'
      /\ \A u \in Polls : \A r : u # q => (Holding(u, r)' <=> Holding(u, r))
      /\ \A r : Holding(q, r)' <=> p.pc \in {"publish", "release"} /\ p.order.rung = r
      /\ \A w \in Transcoders : \A r : Busy(w, r)' <=> Busy(w, r)
      /\ \A r : (Queued(r) => Queued(r)') /\ (InWork(r)' <=> InWork(r))
  BY <1>1, <1>2, <1>3, PollMoves
<1>5. \A u \in Polls : \A r : Holding(u, r)' <=> Holding(u, r)
  <2>1. poll[q].pc \in {"none", "stat", "claim", "publish"}
    BY <1>1 DEF PollStates
  <2>2. \A r : Holding(q, r)' <=> Holding(q, r)
    <3>1. CASE poll[q].pc = "publish"
      BY <1>1, <1>4, <3>1 DEF Holding
    <3>2. CASE poll[q].pc # "publish"
      BY <1>1, <1>4, <3>2 DEF Holding
    <3> QED
      BY <3>1, <3>2
  <2> QED
    BY <1>4, <2>2
<1>6. ASSUME NEW r \in Rungs PROVE RungInv(r)'
  <2>1. \A o \in Orders : Waiting(o, r)' => Waiting(o, r) /\ orders'[o] = orders[o]
    BY <1>2 DEF Waiting
  <2> QED
    BY <1>2, <1>4, <1>5, <2>1, RungKept
<1>7. InflightIsTracked'
  <2>1. \A r : Publishing(r) => Publishing(r)'
    BY <1>5 DEF Publishing, Holding
  <2> QED
    BY <1>2, <1>4, <2>1 DEF PlaybackInv, InflightIsTracked
<1> QED
  BY <1>4, <1>6, <1>7 DEF PlaybackInv

(* Ordering a rung.                                                        *)
LEMMA ClaimKeeps ==
    ASSUME PlaybackInv, NEW q \in Polls, Claim(q)
    PROVE  PlaybackInv'
<1> USE PlaybackTypeFacts, OrderFacts
<1> DEFINE rung == poll[q].order.rung
<1> DEFINE p == IF rung \in inflight THEN NoPoll ELSE [poll[q] EXCEPT !.pc = "publish"]
<1>0. rung \in Rungs /\ poll[q].pc = "claim"
  BY DEF Claim
<1>1. /\ p \in PollStates /\ poll' = [poll EXCEPT ![q] = p]
      /\ p.pc \in {"publish", "release"} <=> rung \notin inflight
      /\ rung \notin inflight => p.order.rung = rung
  BY DEF Claim, PollStates
<1>2. /\ UNCHANGED <<clipVars, renditions, transcoder, dropped, encodes, orders, twice, playbackFaults>>
      /\ inflight' = inflight \cup {rung}
  BY DEF Claim
<1>3. \A o \in Orders : orders'[o] >= orders[o]
  BY <1>2
<1> HIDE DEF p, rung
<1>4. /\ PlaybackTypeOK' /\ AckInv'
      /\ \A u \in Polls : \A r : u # q => (Holding(u, r)' <=> Holding(u, r))
      /\ \A r : Holding(q, r)' <=> p.pc \in {"publish", "release"} /\ p.order.rung = r
      /\ \A w \in Transcoders : \A r : Busy(w, r)' <=> Busy(w, r)
      /\ \A r : (Queued(r) => Queued(r)') /\ (InWork(r)' <=> InWork(r))
  BY <1>0, <1>1, <1>2, <1>3, PollMoves
<1>5. \A r : ~Holding(q, r)
  BY <1>0 DEF Holding
<1>6. \A o \in Orders : \A r : Waiting(o, r)' <=> Waiting(o, r)
  BY <1>2 DEF Waiting
<1>7. ASSUME NEW r \in Rungs PROVE RungInv(r)'
  <2>1. CASE r # rung \/ rung \in inflight
    <3>1. \A u \in Polls : Holding(u, r)' => Holding(u, r)
      BY <1>1, <1>4, <2>1
    <3> QED
      BY <1>2, <1>4, <1>6, <3>1, RungKept
  <2>2. CASE r = rung /\ rung \notin inflight
    <3>1. RungInv(r)
      BY DEF PlaybackInv
    <3>2. CASE r \in renditions
      BY <1>2, <1>4, <3>1, <3>2 DEF RungInv
    <3>3. CASE r \notin renditions /\ r \notin twice
      <4>1. /\ \A u \in Polls : ~Holding(u, r)
            /\ \A o \in Orders : ~Waiting(o, r)
            /\ \A w \in Transcoders : ~Busy(w, r)
            /\ encodes[r] = 0
        BY <2>2, <3>1, <3>3 DEF RungInv, CarriedIsHeld, EncodedInv
      <4>2. /\ \A u \in Polls : Holding(u, r)' => u = q
            /\ \A o \in Orders : ~Waiting(o, r)'
            /\ \A w \in Transcoders : ~Busy(w, r)'
            /\ encodes'[r] = 0 /\ r \in inflight'
        BY <1>2, <1>4, <1>6, <2>2, <4>1
      <4> QED
        BY <4>2, <3>3, <1>2 DEF RungInv, OneCarrier, CarriedIsHeld, EncodedInv
    <3> QED
      BY <1>2, <3>2, <3>3 DEF RungInv
  <2> QED
    BY <2>1, <2>2
<1>8. InflightIsTracked'
  <2> SUFFICES ASSUME NEW r \in inflight', r \notin dropped
               PROVE  r \in renditions \/ Publishing(r)' \/ Queued(r)' \/ InWork(r)'
    BY <1>2 DEF InflightIsTracked
  <2>1. CASE r \in inflight
    <3>1. Publishing(r) => Publishing(r)'
      BY <1>4, <1>5 DEF Publishing, Holding
    <3> QED
      BY <1>4, <2>1, <3>1 DEF PlaybackInv, InflightIsTracked
  <2>2. CASE r = rung /\ rung \notin inflight
    BY <1>1, <1>4, <2>2 DEF Publishing, Holding
  <2> QED
    BY <1>2, <2>1, <2>2
<1> QED
  BY <1>4, <1>7, <1>8 DEF PlaybackInv

LEMMA PublishKeeps ==
    ASSUME PlaybackInv, NEW q \in Polls, PublishOrder(q) \/ PublishRepeats(q) \/ Release(q)
    PROVE  PlaybackInv'
<1> USE PlaybackTypeFacts, OrderFacts
<1> DEFINE order == poll[q].order
<1>0. order \in Orders /\ order.rung \in Rungs /\ Holding(q, order.rung)
  BY DEF PublishOrder, PublishRepeats, Release, Holding
<1>1. PICK p \in PollStates : /\ poll' = [poll EXCEPT ![q] = p]
                              /\ \/ p.pc = "none"
                                 \/ p.pc = "release" /\ PublishRepeats(q) /\ p.order = order
  <2>1. CASE poll' = [poll EXCEPT ![q] = NoPoll]
    <3>1. NoPoll \in PollStates /\ NoPoll.pc = "none"
      BY OrderFacts
    <3> QED
      BY <2>1, <3>1
  <2>2. CASE poll' = [poll EXCEPT ![q].pc = "release"] /\ PublishRepeats(q)
    <3>1. /\ [poll[q] EXCEPT !.pc = "release"] \in PollStates
          /\ [poll[q] EXCEPT !.pc = "release"].pc = "release"
          /\ [poll[q] EXCEPT !.pc = "release"].order = order
      BY DEF PollStates
    <3>2. poll' = [poll EXCEPT ![q] = [poll[q] EXCEPT !.pc = "release"]]
      BY <2>2 DEF PollStates
    <3> QED
      BY <2>2, <3>1, <3>2
  <2> QED
    BY <2>1, <2>2 DEF PublishOrder, PublishRepeats, Release
<1>2. /\ UNCHANGED <<clipVars, renditions, transcoder, dropped, encodes>>
      /\ playbackFaults' \in Nat
      /\ twice' = IF PublishRepeats(q) THEN twice \cup {order.rung} ELSE twice
      /\ inflight' = IF Release(q) THEN inflight \ {order.rung} ELSE inflight
  <2>1. ~(Release(q) /\ (PublishOrder(q) \/ PublishRepeats(q)))
    BY DEF PublishOrder, PublishRepeats, Release
  <2>2. CASE PublishRepeats(q)
    BY <2>1, <2>2, FaultType DEF PublishRepeats
  <2>3. CASE PublishOrder(q) /\ ~PublishRepeats(q)
    BY <2>1, <2>3 DEF PublishOrder
  <2>4. CASE Release(q) /\ ~PublishRepeats(q)
    BY <2>4 DEF Release
  <2> QED
    BY <2>2, <2>3, <2>4
<1>3. /\ orders' \in [Orders -> Nat] /\ \A o \in Orders : orders'[o] >= orders[o]
      /\ \A o \in Orders : o # order => orders'[o] = orders[o]
      /\ ~PublishRepeats(q) /\ PublishOrder(q) => orders'[order] = orders[order] + 1
      /\ PublishRepeats(q) => orders'[order] > 0
      /\ Release(q) => orders' = orders
  <2>1. PICK n \in {0, 1, 2} :
          /\ n = 0 => orders' = orders
          /\ n > 0 => Enqueue(order, n)
          /\ ~PublishRepeats(q) /\ PublishOrder(q) => n = 1
          /\ PublishRepeats(q) => n > 0
          /\ Release(q) => n = 0
    <3>1. CASE PublishRepeats(q)
      BY <3>1 DEF PublishRepeats, Release
    <3>2. CASE PublishOrder(q) /\ ~PublishRepeats(q)
      BY <3>2 DEF PublishOrder, Release
    <3>3. CASE Release(q)
      BY <3>3 DEF PublishOrder, PublishRepeats, Release
    <3> QED
      BY <3>1, <3>2, <3>3
  <2>2. n = 0 => orders' = orders
    BY <2>1
  <2>3. n > 0 => orders' = [orders EXCEPT ![order] = @ + n]
    BY <2>1 DEF Enqueue
  <2>4. orders \in [Orders -> Nat] /\ order \in Orders /\ n \in Nat
    BY <1>0
  <2> HIDE DEF order
  <2>5. /\ orders' \in [Orders -> Nat] /\ \A o \in Orders : o # order => orders'[o] = orders[o]
        /\ orders'[order] = orders[order] + n
    BY <2>2, <2>3, <2>4
  <2>6. \A o \in Orders : orders'[o] >= orders[o]
    BY <2>4, <2>5
  <2>7. orders'[order] >= n
    BY <2>4, <2>5
  <2>8. ~PublishRepeats(q) /\ PublishOrder(q) => orders'[order] = orders[order] + 1
    BY <2>1, <2>5
  <2>9. PublishRepeats(q) => orders'[order] > 0
    <3> SUFFICES ASSUME PublishRepeats(q) PROVE orders'[order] > 0
      OBVIOUS
    <3>1. n > 0 /\ orders'[order] >= n /\ orders'[order] \in Nat
      BY <2>1, <2>4, <2>5, <2>7
    <3> QED
      BY <2>4, <3>1
  <2>10. Release(q) => orders' = orders
    BY <2>1, <2>2
  <2> QED
    BY <2>5, <2>6, <2>8, <2>9, <2>10
<1> HIDE DEF order
<1>4. /\ PlaybackTypeOK' /\ AckInv'
      /\ \A u \in Polls : \A r : u # q => (Holding(u, r)' <=> Holding(u, r))
      /\ \A r : Holding(q, r)' <=> p.pc \in {"publish", "release"} /\ p.order.rung = r
      /\ \A w \in Transcoders : \A r : Busy(w, r)' <=> Busy(w, r)
      /\ \A r : (Queued(r) => Queued(r)') /\ (InWork(r)' <=> InWork(r))
  <2>1. inflight' \subseteq Rungs /\ twice' \subseteq Rungs
    BY <1>0, <1>2
  <2> QED
    BY <1>1, <1>2, <1>3, <2>1, PollMoves
<1>5. \A r : Holding(q, r)' => r = order.rung /\ PublishRepeats(q)
  BY <1>1, <1>4
<1>6. ASSUME NEW r \in Rungs PROVE RungInv(r)'
  <2>1. CASE r # order.rung
    <3>1. \A u \in Polls : Holding(u, r)' => Holding(u, r)
      BY <1>4, <1>5, <2>1
    <3>2. \A o \in Orders : Waiting(o, r)' => Waiting(o, r) /\ orders'[o] = orders[o]
      BY <1>3, <2>1 DEF Waiting
    <3>3. (r \in inflight => r \in inflight') /\ (r \in twice => r \in twice')
      BY <1>2, <2>1
    <3> QED
      BY <1>2, <1>4, <3>1, <3>2, <3>3, RungKept
  <2>2. CASE r = order.rung
    <3>0. RungInv(r) /\ Holding(q, r)
      BY <1>0, <2>2 DEF PlaybackInv
    <3>1. CASE PublishRepeats(q)
      BY <1>2, <2>2, <3>1 DEF RungInv
    <3>2. CASE ~PublishRepeats(q) /\ r \in renditions
      BY <1>2, <1>4, <3>0, <3>2 DEF RungInv
    <3>3. CASE ~PublishRepeats(q) /\ r \notin renditions /\ r \notin twice
      <4>1. /\ \A u \in Polls : Holding(u, r) => u = q
            /\ \A o \in Orders : ~Waiting(o, r)
            /\ \A w \in Transcoders : ~Busy(w, r)
            /\ encodes[r] = 0 /\ r \in inflight
        BY <3>0, <3>3 DEF RungInv, OneCarrier, CarriedIsHeld, EncodedInv
      <4>2. /\ \A u \in Polls : ~Holding(u, r)'
            /\ \A w \in Transcoders : ~Busy(w, r)'
            /\ encodes'[r] = 0
        BY <1>2, <1>4, <1>5, <3>3, <4>1
      <4>3. CASE Release(q)
        <5>1. \A o \in Orders : ~Waiting(o, r)'
          BY <1>3, <4>1, <4>3 DEF Waiting
        <5> QED
          BY <4>2, <5>1 DEF RungInv, OneCarrier, CarriedIsHeld, EncodedInv
      <4>4. CASE PublishOrder(q)
        <5>1. orders[order] = 0 /\ orders'[order] = 1
          <6>1. orders[order] \in Nat /\ ~(orders[order] > 0)
            BY <1>0, <2>2, <4>1 DEF Waiting
          <6> QED
            BY <1>3, <3>3, <4>4, <6>1
        <5>2. \A o \in Orders : Waiting(o, r)' => o = order /\ orders'[o] = 1
          BY <1>3, <4>1, <5>1 DEF Waiting
        <5>3. r \in inflight'
          BY <1>2, <4>1, <4>4 DEF Release, PublishOrder
        <5> QED
          BY <4>2, <5>2, <5>3 DEF RungInv, OneCarrier, CarriedIsHeld, EncodedInv
      <4> QED
        BY <3>3, <4>3, <4>4
    <3> QED
      BY <1>2, <3>1, <3>2, <3>3 DEF RungInv
  <2> QED
    BY <2>1, <2>2
<1>7. InflightIsTracked'
  <2> SUFFICES ASSUME NEW r \in inflight', r \notin dropped
               PROVE  r \in renditions \/ Publishing(r)' \/ Queued(r)' \/ InWork(r)'
    BY <1>2 DEF InflightIsTracked
  <2>0. r \in inflight
    BY <1>2
  <2>1. CASE \E u \in Polls : u # q /\ Holding(u, r)
    BY <1>4, <2>1 DEF Publishing, Holding
  <2>2. CASE r = order.rung
    <3>1. ~Release(q)
      BY <1>2, <2>2
    <3>2. orders[order] \in Nat
      BY <1>0
    <3>3. orders'[order] > 0
      BY <1>3, <3>1, <3>2
    <3> QED
      BY <1>0, <2>2, <3>3 DEF Queued
  <2>3. CASE r # order.rung /\ \A u \in Polls : u # q => ~Holding(u, r)
    <3>1. ~Publishing(r)
      BY <2>3 DEF Publishing, Holding, order
    <3> QED
      BY <1>4, <2>0, <3>1 DEF PlaybackInv, InflightIsTracked
  <2> QED
    BY <2>1, <2>2, <2>3
<1> QED
  BY <1>4, <1>6, <1>7 DEF PlaybackInv

(* A step of one transcode worker, to t, about one rung.                   *)
WorkerTurns(w, t, rung) ==
    /\ transcoder' = [transcoder EXCEPT ![w] = t]
    /\ t.pc = "idle" \/ t.order.rung = rung
    /\ t.pc = "ack" => rung \in renditions' \cup dropped'
    /\ UNCHANGED <<clipVars, inflight, poll>>
    /\ orders' \in [Orders -> Nat] /\ encodes' \in [Rungs -> Nat] /\ playbackFaults' \in Nat
    /\ renditions \subseteq renditions' /\ renditions' \subseteq renditions \cup {rung}
    /\ dropped \subseteq dropped' /\ dropped' \subseteq Rungs
    /\ twice \subseteq twice' /\ twice' \subseteq Rungs
    /\ \A o \in Orders : o.rung # rung => orders'[o] = orders[o]
    /\ \A r \in Rungs \ {rung} : encodes'[r] = encodes[r]
    /\ transcoder[w].pc # "idle" => transcoder[w].order.rung = rung
    /\ rung \in renditions' \cup dropped' \/ Queued(rung)' \/ t.pc # "idle"

LEMMA WorkerMoves ==
    ASSUME PlaybackInv, NEW w \in Transcoders, NEW t \in WorkStates, NEW rung \in Rungs,
           WorkerTurns(w, t, rung)
    PROVE  /\ RungInv(rung)' => PlaybackInv'
           /\ \A q \in Polls : \A r : Holding(q, r)' <=> Holding(q, r)
           /\ \A v \in Transcoders : \A r : v # w => (Busy(v, r)' <=> Busy(v, r))
           /\ \A v \in Transcoders : v # w => transcoder'[v] = transcoder[v]
           /\ transcoder'[w] = t
           /\ \A r : Busy(w, r)' <=> t.pc \in {"check", "encode", "upload"} /\ t.order.rung = r
<1> USE PlaybackTypeFacts, OrderFacts
<1>1. /\ transcoder' \in [Transcoders -> WorkStates] /\ transcoder'[w] = t
      /\ \A v \in Transcoders : v # w => transcoder'[v] = transcoder[v]
  BY DEF WorkerTurns
<1>2. PlaybackTypeOK'
  BY <1>1 DEF WorkerTurns, PlaybackTypeOK, PollStates, WorkStates, clipVars
<1>3. AckInv'
  BY <1>1 DEF WorkerTurns, PlaybackInv, AckInv
<1>4. \A q \in Polls : \A r : Holding(q, r)' <=> Holding(q, r)
  BY DEF WorkerTurns, Holding
<1>5. \A v \in Transcoders : \A r : v # w => (Busy(v, r)' <=> Busy(v, r))
  BY <1>1 DEF Busy
<1>6. \A r : Busy(w, r)' <=> t.pc \in {"check", "encode", "upload"} /\ t.order.rung = r
  BY <1>1 DEF Busy
<1>7. InflightIsTracked'
  <2> SUFFICES ASSUME NEW r \in inflight, r \notin dropped'
               PROVE  r \in renditions' \/ Publishing(r)' \/ Queued(r)' \/ InWork(r)'
    BY DEF WorkerTurns, InflightIsTracked
  <2>1. r \in renditions \/ Publishing(r) \/ Queued(r) \/ InWork(r)
    BY DEF WorkerTurns, PlaybackInv, InflightIsTracked
  <2>2. CASE r = rung
    BY <1>1, <2>2 DEF WorkerTurns, InWork
  <2>3. CASE r # rung
    <3>1. Publishing(r) => Publishing(r)'
      BY DEF WorkerTurns, Publishing
    <3>2. Queued(r) => Queued(r)'
      BY <2>3 DEF WorkerTurns, Queued
    <3>3. InWork(r) => InWork(r)'
      BY <1>1, <2>3 DEF WorkerTurns, InWork
    <3> QED
      BY <2>1, <3>1, <3>2, <3>3 DEF WorkerTurns
  <2> QED
    BY <2>2, <2>3
<1>8. ASSUME NEW r \in Rungs, r # rung PROVE RungInv(r)'
  <2>1. \A o \in Orders : Waiting(o, r)' => Waiting(o, r) /\ orders'[o] = orders[o]
    BY <1>8 DEF WorkerTurns, Waiting
  <2>2. \A v \in Transcoders : Busy(v, r)' => Busy(v, r) /\ transcoder'[v].pc = transcoder[v].pc
    <3>1. ~Busy(w, r)'
      BY <1>6, <1>8 DEF WorkerTurns
    <3> QED
      BY <1>1, <1>5, <3>1
  <2>3. encodes'[r] = encodes[r] /\ (r \in renditions' <=> r \in renditions)
    BY <1>8 DEF WorkerTurns
  <2>4. /\ r \in inflight => r \in inflight'
        /\ r \in twice => r \in twice'
    BY DEF WorkerTurns
  <2> QED
    BY <1>4, <2>1, <2>2, <2>3, <2>4, RungKept
<1> QED
  BY <1>1, <1>2, <1>3, <1>4, <1>5, <1>6, <1>7, <1>8 DEF PlaybackInv

LEMMA TakeOrderKeeps ==
    ASSUME PlaybackInv, NEW w \in Transcoders, NEW o \in Orders, TakeOrder(w, o)
    PROVE  PlaybackInv'
<1> USE PlaybackTypeFacts, OrderFacts
<1>0. PICK rung \in Rungs : rung = o.rung
  OBVIOUS
<1>t. PICK t \in WorkStates : t = [pc |-> "check", order |-> o]
  BY DEF WorkStates
<1>1. /\ t \in WorkStates /\ t.pc = "check" /\ t.order = o
      /\ transcoder' = [transcoder EXCEPT ![w] = t] /\ transcoder[w].pc = "idle"
      /\ UNCHANGED <<clipVars, renditions, inflight, poll, twice, dropped, encodes, playbackFaults>>
  BY <1>t DEF TakeOrder
<1>2. /\ orders[o] > 0 /\ orders[o] \in Nat /\ orders' = [orders EXCEPT ![o] = orders[o] - 1]
  BY DEF TakeOrder
<1>3. /\ orders' \in [Orders -> Nat] /\ orders'[o] = orders[o] - 1
      /\ \A u \in Orders : u # o => orders'[u] = orders[u]
  <2>1. orders[o] - 1 \in Nat
    BY <1>2
  <2> QED
    BY <1>2, <2>1
<1>4. /\ RungInv(rung)' => PlaybackInv'
      /\ \A q \in Polls : \A r : Holding(q, r)' <=> Holding(q, r)
      /\ \A v \in Transcoders : \A r : v # w => (Busy(v, r)' <=> Busy(v, r))
      /\ \A v \in Transcoders : v # w => transcoder'[v] = transcoder[v]
      /\ transcoder'[w] = t
      /\ \A r : Busy(w, r)' <=> t.pc \in {"check", "encode", "upload"} /\ t.order.rung = r
  <2>1. /\ renditions \subseteq renditions' /\ renditions' \subseteq renditions \cup {rung}
        /\ dropped \subseteq dropped' /\ dropped' \subseteq Rungs
        /\ twice \subseteq twice' /\ twice' \subseteq Rungs
        /\ encodes' \in [Rungs -> Nat] /\ playbackFaults' \in Nat
        /\ UNCHANGED <<clipVars, inflight, poll>>
    BY <1>1
  <2>2. \A u \in Orders : u.rung # rung => orders'[u] = orders[u]
    BY <1>0, <1>3
  <2>3. \A r \in Rungs \ {rung} : encodes'[r] = encodes[r]
    BY <1>1
  <2>4. /\ t.pc = "idle" \/ t.order.rung = rung
        /\ t.pc = "ack" => rung \in renditions' \cup dropped'
        /\ transcoder[w].pc # "idle" => transcoder[w].order.rung = rung
        /\ rung \in renditions' \cup dropped' \/ Queued(rung)' \/ t.pc # "idle"
    BY <1>0, <1>1
  <2>5. /\ t \in WorkStates /\ transcoder' = [transcoder EXCEPT ![w] = t]
        /\ orders' \in [Orders -> Nat]
    BY <1>1, <1>3
  <2>6. WorkerTurns(w, t, rung)
    BY <1>0, <1>1, <2>1, <2>2, <2>3, <2>4, <2>5 DEF WorkerTurns
  <2> QED
    BY <2>6, WorkerMoves
<1>5. RungInv(rung) /\ Waiting(o, rung)
  BY <1>0, <1>1, <1>2 DEF PlaybackInv, Waiting
<1>6. CASE rung \in twice \/ rung \in renditions
  BY <1>0, <1>1, <1>4, <1>5, <1>6 DEF RungInv
<1>7. CASE rung \notin twice /\ rung \notin renditions
  <2>1. /\ \A q \in Polls : ~Holding(q, rung)
        /\ \A u \in Orders : Waiting(u, rung) => u = o
        /\ orders[o] = 1
        /\ \A v \in Transcoders : ~Busy(v, rung)
        /\ encodes[rung] = 0 /\ rung \in inflight
    BY <1>5, <1>7 DEF RungInv, OneCarrier, CarriedIsHeld, EncodedInv
  <2>2. \A u \in Orders : ~Waiting(u, rung)'
    BY <1>3, <2>1 DEF Waiting
  <2>3. \A v \in Transcoders : Busy(v, rung)' => v = w
    BY <1>4, <2>1
  <2>4. \A q \in Polls : ~Holding(q, rung)'
    BY <1>4, <2>1
  <2>5. OneCarrier(rung)' /\ CarriedIsHeld(rung)'
    BY <1>1, <2>1, <2>2, <2>3, <2>4 DEF OneCarrier, CarriedIsHeld
  <2>6. EncodedInv(rung)'
    BY <1>0, <1>1, <1>4, <2>1, <2>3 DEF EncodedInv
  <2>7. RungInv(rung)'
    BY <1>1, <1>7, <2>5, <2>6 DEF RungInv
  <2> QED
    BY <1>4, <2>7
<1> QED
  BY <1>6, <1>7

(* The steps of a worker by which its rung is given up, or is done with.   *)
LEMMA LetGoKeeps ==
    ASSUME PlaybackInv, NEW w \in Transcoders,
           SourceMissing(w) \/ TranscodeFails(w) \/ AckOrder(w)
    PROVE  PlaybackInv'
<1> USE PlaybackTypeFacts, OrderFacts
<1>0. PICK rung \in Rungs : rung = transcoder[w].order.rung
  OBVIOUS
<1>1. /\ UNCHANGED <<clipVars, renditions, inflight, orders, poll, twice, encodes>>
      /\ playbackFaults' \in Nat /\ dropped \subseteq dropped' /\ dropped' \subseteq Rungs
      /\ rung \in renditions \cup dropped'
  <2>1. CASE AckOrder(w)
    BY <1>0, <2>1 DEF AckOrder, PlaybackInv, AckInv
  <2>2. CASE SourceMissing(w) \/ TranscodeFails(w)
    BY <1>0, <2>2, FaultType DEF SourceMissing, TranscodeFails
  <2> QED
    BY <2>1, <2>2
<1>2. PICK t \in WorkStates :
         /\ transcoder' = [transcoder EXCEPT ![w] = t]
         /\ t.pc = "idle" \/ (t.pc = "ack" /\ t.order.rung = rung)
  <2>1. CASE SourceMissing(w)
    <3>1. /\ [transcoder[w] EXCEPT !.pc = "ack"] \in WorkStates
          /\ [transcoder[w] EXCEPT !.pc = "ack"].pc = "ack"
          /\ [transcoder[w] EXCEPT !.pc = "ack"].order = transcoder[w].order
      BY DEF WorkStates
    <3>2. transcoder' = [transcoder EXCEPT ![w] = [transcoder[w] EXCEPT !.pc = "ack"]]
      BY <2>1 DEF SourceMissing, Progress, WorkStates
    <3> QED
      BY <1>0, <3>1, <3>2
  <2>2. CASE TranscodeFails(w) \/ AckOrder(w)
    <3>1. transcoder' = [transcoder EXCEPT ![w] = NoWork]
      BY <2>2 DEF TranscodeFails, AckOrder, Finish
    <3>2. NoWork \in WorkStates /\ NoWork.pc = "idle"
      BY OrderFacts
    <3> WITNESS NoWork \in WorkStates
    <3> QED
      BY <3>1, <3>2
  <2> QED
    BY <2>1, <2>2
<1>3. /\ RungInv(rung)' => PlaybackInv'
      /\ \A q \in Polls : \A r : Holding(q, r)' <=> Holding(q, r)
      /\ \A v \in Transcoders : \A r : v # w => (Busy(v, r)' <=> Busy(v, r))
      /\ \A v \in Transcoders : v # w => transcoder'[v] = transcoder[v]
      /\ transcoder'[w] = t
      /\ \A r : Busy(w, r)' <=> t.pc \in {"check", "encode", "upload"} /\ t.order.rung = r
  <2>1. /\ renditions \subseteq renditions' /\ renditions' \subseteq renditions \cup {rung}
        /\ twice \subseteq twice' /\ twice' \subseteq Rungs
        /\ orders' \in [Orders -> Nat] /\ encodes' \in [Rungs -> Nat]
        /\ UNCHANGED <<clipVars, inflight, poll>>
    BY <1>1
  <2>2. \A o \in Orders : o.rung # rung => orders'[o] = orders[o]
    BY <1>1
  <2>3. \A r \in Rungs \ {rung} : encodes'[r] = encodes[r]
    BY <1>1
  <2>4. t.pc = "ack" => rung \in renditions' \cup dropped'
    BY <1>1
  <2>5. rung \in renditions' \cup dropped' \/ Queued(rung)' \/ t.pc # "idle"
    BY <1>1
  <2>6. WorkerTurns(w, t, rung)
    BY <1>0, <1>1, <1>2, <2>1, <2>2, <2>3, <2>4, <2>5 DEF WorkerTurns
  <2> QED
    BY <2>6, WorkerMoves
<1>4. ~Busy(w, rung)'
  BY <1>2, <1>3
<1>5. \A o \in Orders : Waiting(o, rung)' => Waiting(o, rung) /\ orders'[o] = orders[o]
  BY <1>1 DEF Waiting
<1>6. RungInv(rung)'
  <2>1. \A v \in Transcoders : Busy(v, rung)' => Busy(v, rung) /\ transcoder'[v].pc = transcoder[v].pc
    BY <1>3, <1>4
  <2>2. encodes'[rung] = encodes[rung] /\ (rung \in renditions' <=> rung \in renditions)
    BY <1>1
  <2>3. /\ rung \in inflight /\ rung \notin renditions => rung \in inflight'
        /\ rung \in twice => rung \in twice'
    BY <1>1
  <2> QED
    BY <1>3, <1>5, <2>1, <2>2, <2>3, RungKept
<1> QED
  BY <1>3, <1>6

(* Its transcoder is at another step, with the same order.                 *)
LEMMA ProgressTo ==
    ASSUME PlaybackInv, NEW w \in Transcoders, NEW step \in {"ack", "encode", "upload"},
           Progress(w, step)
    PROVE  \E t \in WorkStates : /\ transcoder' = [transcoder EXCEPT ![w] = t]
                                 /\ t.pc = step /\ t.order = transcoder[w].order
<1> USE PlaybackTypeFacts
<1>1. /\ [transcoder[w] EXCEPT !.pc = step] \in WorkStates
      /\ [transcoder[w] EXCEPT !.pc = step].pc = step
      /\ [transcoder[w] EXCEPT !.pc = step].order = transcoder[w].order
  BY DEF WorkStates
<1>2. transcoder' = [transcoder EXCEPT ![w] = [transcoder[w] EXCEPT !.pc = step]]
  BY DEF Progress, WorkStates
<1> QED
  BY <1>1, <1>2

LEMMA CheckStoredKeeps ==
    ASSUME PlaybackInv, NEW w \in Transcoders, CheckStored(w)
    PROVE  PlaybackInv'
<1> USE PlaybackTypeFacts, OrderFacts
<1>0. PICK rung \in Rungs : rung = transcoder[w].order.rung
  OBVIOUS
<1>1. PICK step \in {"ack", "encode", "upload"} :
         /\ Progress(w, step)
         /\ \/ step = "ack" /\ rung \in renditions
            \/ step = "encode" /\ (rung \in renditions => rung \in twice')
  BY <1>0 DEF CheckStored
<1>2. PICK t \in WorkStates : /\ transcoder' = [transcoder EXCEPT ![w] = t]
                              /\ t.pc = step /\ t.order = transcoder[w].order
  BY <1>1, ProgressTo
<1>3. /\ UNCHANGED <<clipVars, renditions, inflight, orders, poll, dropped, encodes>>
      /\ transcoder[w].pc = "check" /\ playbackFaults' \in Nat
      /\ twice \subseteq twice' /\ twice' \subseteq Rungs
  BY FaultType DEF CheckStored
<1>4. WorkerTurns(w, t, rung)
  BY <1>0, <1>1, <1>2, <1>3 DEF WorkerTurns
<1>5. /\ RungInv(rung)' => PlaybackInv'
      /\ \A q \in Polls : \A r : Holding(q, r)' <=> Holding(q, r)
      /\ \A v \in Transcoders : \A r : v # w => (Busy(v, r)' <=> Busy(v, r))
      /\ \A v \in Transcoders : v # w => transcoder'[v] = transcoder[v]
      /\ transcoder'[w] = t
      /\ \A r : Busy(w, r)' <=> t.pc \in {"check", "encode", "upload"} /\ t.order.rung = r
  BY <1>4, WorkerMoves
<1>6. RungInv(rung) /\ Busy(w, rung)
  BY <1>0, <1>3 DEF PlaybackInv, Busy
<1>7. \A o \in Orders : Waiting(o, rung)' <=> Waiting(o, rung)
  BY <1>3 DEF Waiting
<1>8. RungInv(rung)'
  <2>1. CASE rung \in twice'
    BY <2>1 DEF RungInv
  <2>2. CASE rung \notin twice' /\ rung \in renditions
    <3>1. ~Busy(w, rung)'
      BY <1>1, <1>2, <1>5, <2>2
    <3> QED
      BY <1>3, <1>5, <1>6, <2>2, <3>1 DEF RungInv
  <2>3. CASE rung \notin twice' /\ rung \notin renditions
    <3>1. OneCarrier(rung) /\ CarriedIsHeld(rung) /\ EncodedInv(rung)
      BY <1>3, <1>6, <2>3 DEF RungInv
    <3>2. \A v \in Transcoders : Busy(v, rung)' => Busy(v, rung)
      BY <1>5, <1>6
    <3>3. OneCarrier(rung)'
      BY <1>3, <1>5, <1>7, <3>1, <3>2 DEF OneCarrier
    <3>4. CarriedIsHeld(rung)'
      BY <1>3, <1>5, <1>7, <3>1, <3>2 DEF CarriedIsHeld
    <3>5. encodes[rung] = 0 /\ \A v \in Transcoders : Busy(v, rung) => v = w
      BY <1>3, <1>6, <3>1 DEF EncodedInv, OneCarrier
    <3>6. EncodedInv(rung)'
      BY <1>1, <1>2, <1>3, <1>5, <2>3, <3>2, <3>5 DEF EncodedInv
    <3> QED
      BY <1>3, <2>3, <3>3, <3>4, <3>6 DEF RungInv
  <2> QED
    BY <2>1, <2>2, <2>3
<1> QED
  BY <1>5, <1>8

LEMMA EncodeKeeps ==
    ASSUME PlaybackInv, NEW w \in Transcoders, Encode(w)
    PROVE  PlaybackInv'
<1> USE PlaybackTypeFacts, OrderFacts
<1>0. PICK rung \in Rungs : rung = transcoder[w].order.rung
  OBVIOUS
<1>2. PICK t \in WorkStates : /\ transcoder' = [transcoder EXCEPT ![w] = t]
                              /\ t.pc = "upload" /\ t.order = transcoder[w].order
  BY ProgressTo DEF Encode
<1>3. /\ UNCHANGED <<clipVars, renditions, inflight, orders, poll, twice, dropped, playbackFaults>>
      /\ transcoder[w].pc = "encode"
      /\ encodes' = [encodes EXCEPT ![rung] = encodes[rung] + 1]
  BY <1>0 DEF Encode
<1>a. /\ encodes' \in [Rungs -> Nat] /\ encodes'[rung] = encodes[rung] + 1
      /\ \A r \in Rungs \ {rung} : encodes'[r] = encodes[r]
  <2>1. encodes[rung] + 1 \in Nat
    OBVIOUS
  <2> QED
    BY <1>3, <2>1
<1>4. WorkerTurns(w, t, rung)
  BY <1>0, <1>2, <1>3, <1>a DEF WorkerTurns
<1>5. /\ RungInv(rung)' => PlaybackInv'
      /\ \A q \in Polls : \A r : Holding(q, r)' <=> Holding(q, r)
      /\ \A v \in Transcoders : \A r : v # w => (Busy(v, r)' <=> Busy(v, r))
      /\ \A v \in Transcoders : v # w => transcoder'[v] = transcoder[v]
      /\ transcoder'[w] = t
      /\ \A r : Busy(w, r)' <=> t.pc \in {"check", "encode", "upload"} /\ t.order.rung = r
  BY <1>4, WorkerMoves
<1>6. RungInv(rung) /\ Busy(w, rung)
  BY <1>0, <1>3 DEF PlaybackInv, Busy
<1>7. \A o \in Orders : Waiting(o, rung)' <=> Waiting(o, rung)
  BY <1>3 DEF Waiting
<1>8. RungInv(rung)'
  <2> SUFFICES ASSUME rung \notin twice PROVE RungInv(rung)'
    BY <1>3 DEF RungInv
  <2>1. rung \notin renditions
    BY <1>3, <1>6 DEF RungInv
  <2>2. OneCarrier(rung) /\ CarriedIsHeld(rung) /\ EncodedInv(rung)
    BY <1>6, <2>1 DEF RungInv
  <2>3. /\ \A q \in Polls : ~Holding(q, rung)
        /\ \A o \in Orders : ~Waiting(o, rung)
        /\ \A v \in Transcoders : Busy(v, rung) => v = w
        /\ encodes[rung] = 0 /\ rung \in inflight
    BY <1>3, <1>6, <2>2 DEF OneCarrier, CarriedIsHeld, EncodedInv
  <2>4. \A v \in Transcoders : Busy(v, rung)' => v = w
    BY <1>5, <2>3
  <2>5. encodes'[rung] = 1 /\ rung \in inflight'
    BY <1>3, <1>a, <2>3
  <2>6. OneCarrier(rung)' /\ CarriedIsHeld(rung)'
    BY <1>5, <1>7, <2>3, <2>4, <2>5 DEF OneCarrier, CarriedIsHeld
  <2>7. EncodedInv(rung)'
    BY <1>2, <1>5, <1>7, <2>3, <2>4, <2>5 DEF EncodedInv
  <2> QED
    BY <1>3, <2>1, <2>6, <2>7 DEF RungInv
<1> QED
  BY <1>5, <1>8

LEMMA UploadKeeps ==
    ASSUME PlaybackInv, NEW w \in Transcoders, Upload(w)
    PROVE  PlaybackInv'
<1> USE PlaybackTypeFacts, OrderFacts
<1>0. PICK rung \in Rungs : rung = transcoder[w].order.rung
  OBVIOUS
<1>2. PICK t \in WorkStates : /\ transcoder' = [transcoder EXCEPT ![w] = t]
                              /\ t.pc = "ack" /\ t.order = transcoder[w].order
  BY ProgressTo DEF Upload
<1>3. /\ UNCHANGED <<clipVars, inflight, orders, poll, twice, dropped, encodes, playbackFaults>>
      /\ transcoder[w].pc = "upload" /\ renditions' = renditions \cup {rung}
  BY <1>0 DEF Upload
<1>4. WorkerTurns(w, t, rung)
  BY <1>0, <1>2, <1>3 DEF WorkerTurns
<1>5. /\ RungInv(rung)' => PlaybackInv'
      /\ \A q \in Polls : \A r : Holding(q, r)' <=> Holding(q, r)
      /\ \A v \in Transcoders : \A r : v # w => (Busy(v, r)' <=> Busy(v, r))
      /\ \A v \in Transcoders : v # w => transcoder'[v] = transcoder[v]
      /\ transcoder'[w] = t
      /\ \A r : Busy(w, r)' <=> t.pc \in {"check", "encode", "upload"} /\ t.order.rung = r
  BY <1>4, WorkerMoves
<1>6. RungInv(rung) /\ Busy(w, rung)
  BY <1>0, <1>3 DEF PlaybackInv, Busy
<1>7. RungInv(rung)'
  <2> SUFFICES ASSUME rung \notin twice PROVE RungInv(rung)'
    BY <1>3 DEF RungInv
  <2>1. rung \notin renditions
    BY <1>3, <1>6 DEF RungInv
  <2>2. OneCarrier(rung) /\ EncodedInv(rung)
    BY <1>6, <2>1 DEF RungInv
  <2>3. encodes[rung] <= 1 /\ \A v \in Transcoders : Busy(v, rung) => v = w
    BY <1>6, <2>2 DEF OneCarrier, EncodedInv
  <2>4. \A v \in Transcoders : ~Busy(v, rung)'
    BY <1>2, <1>5, <2>3
  <2> QED
    BY <1>3, <2>3, <2>4 DEF RungInv
<1> QED
  BY <1>5, <1>7

LEMMA TranscoderDiesKeeps ==
    ASSUME PlaybackInv, NEW w \in Transcoders, TranscoderDies(w)
    PROVE  PlaybackInv'
<1> USE PlaybackTypeFacts, OrderFacts
<1>0. PICK o \in Orders, rung \in Rungs : o = transcoder[w].order /\ rung = o.rung
  OBVIOUS
<1>1. PICK t \in WorkStates : transcoder' = [transcoder EXCEPT ![w] = t] /\ t.pc = "idle"
  BY DEF TranscoderDies, Finish
<1>2. /\ UNCHANGED <<clipVars, renditions, inflight, poll, dropped, encodes>>
      /\ playbackFaults' \in Nat /\ twice' = twice \cup {rung}
  BY <1>0, FaultType DEF TranscoderDies
<1>3. /\ orders' \in [Orders -> Nat] /\ orders'[o] > 0
      /\ \A u \in Orders : u # o => orders'[u] = orders[u]
  <2>1. orders' = [orders EXCEPT ![o] = orders[o] + 1]
    BY <1>0 DEF TranscoderDies, Enqueue
  <2>2. orders[o] \in Nat /\ orders[o] + 1 \in Nat /\ orders[o] + 1 > 0
    OBVIOUS
  <2> QED
    BY <2>1, <2>2
<1>4. Queued(rung)'
  BY <1>0, <1>3 DEF Queued
<1>5. WorkerTurns(w, t, rung)
  BY <1>0, <1>1, <1>2, <1>3, <1>4 DEF WorkerTurns
<1>6. RungInv(rung)' => PlaybackInv'
  BY <1>5, WorkerMoves
<1> QED
  BY <1>2, <1>6 DEF RungInv

-------------------------------------------------------------------------------
LEMMA PlaybackRestartKeeps ==
    ASSUME PlaybackInv, PlaybackRestarts
    PROVE  PlaybackInv'
<1> USE PlaybackTypeFacts, OrderFacts
<1>1. PlaybackTypeOK'
  BY FaultType DEF PlaybackRestarts, PlaybackTypeOK, PollStates, WorkStates, clipVars
<1>2. AckInv' /\ InflightIsTracked'
  BY DEF PlaybackRestarts, PlaybackInv, AckInv, InflightIsTracked
<1>3. \A r \in Rungs : RungInv(r)'
  BY DEF PlaybackRestarts, RungInv
<1> QED
  BY <1>1, <1>2, <1>3 DEF PlaybackInv

LEMMA SurroundingsKeep ==
    ASSUME PlaybackInv, \/ RenameClip \/ CommitName \/ DeleteJobRow \/ RemoveClip
                        \/ UNCHANGED playbackVars
    PROVE  PlaybackInv'
<1> USE PlaybackTypeFacts, OrderFacts
<1>1. /\ UNCHANGED <<renditions, inflight, orders, poll, transcoder, twice, dropped, encodes>>
      /\ row' \in Paths \cup {"deleted"} /\ clip' \in Paths \cup {"gone"} /\ playbackFaults' \in Nat
  <2>1. CASE RenameClip
    BY <2>1 DEF RenameClip, Paths
  <2>2. CASE CommitName
    BY <2>2 DEF CommitName, Paths
  <2>3. CASE DeleteJobRow \/ RemoveClip
    BY <2>3, FaultType DEF DeleteJobRow, RemoveClip
  <2>4. CASE UNCHANGED playbackVars
    BY <2>4 DEF playbackVars, clipVars
  <2> QED
    BY <2>1, <2>2, <2>3, <2>4
<1>2. PlaybackTypeOK'
  BY <1>1 DEF PlaybackTypeOK, PollStates, WorkStates
<1>3. AckInv' /\ InflightIsTracked'
  BY <1>1 DEF PlaybackInv, AckInv, InflightIsTracked, Publishing, Queued, InWork
<1>4. ASSUME NEW r \in Rungs PROVE RungInv(r)'
  <2>1. /\ \A q \in Polls : Holding(q, r)' <=> Holding(q, r)
        /\ \A o \in Orders : Waiting(o, r)' <=> Waiting(o, r)
        /\ \A w \in Transcoders : Busy(w, r)' <=> Busy(w, r)
    BY <1>1 DEF Holding, Waiting, Busy
  <2> QED
    BY <1>1, <2>1, RungKept
<1> QED
  BY <1>2, <1>3, <1>4 DEF PlaybackInv

LEMMA PlaybackStep == PlaybackInv /\ [PlaybackNext]_playbackVars => PlaybackInv'
<1> SUFFICES ASSUME PlaybackInv, [PlaybackNext]_playbackVars PROVE PlaybackInv'
  OBVIOUS
<1>1. CASE \E q \in Polls : PollStep(q) \/ \E h \in Heights : Poll(q, h)
  BY <1>1, PollsKeep, ClaimKeeps, PublishKeeps DEF PollStep
<1>2. CASE \E w \in Transcoders : TranscoderStep(w) \/ TranscodeFails(w) \/ TranscoderDies(w)
  BY <1>2, TakeOrderKeeps, LetGoKeeps, CheckStoredKeeps, EncodeKeeps, UploadKeeps,
     TranscoderDiesKeeps DEF TranscoderStep
<1>3. CASE PlaybackRestarts
  BY <1>3, PlaybackRestartKeeps
<1>4. CASE RenameClip \/ CommitName \/ DeleteJobRow \/ RemoveClip \/ UNCHANGED playbackVars
  BY <1>4, SurroundingsKeep
<1> QED
  BY <1>1, <1>2, <1>3, <1>4 DEF PlaybackNext

LEMMA PlaybackAlways == PlaybackSpec => []PlaybackInv
  BY PlaybackInitInv, PlaybackStep, PTL DEF PlaybackSpec

-------------------------------------------------------------------------------
(* Every variable of playback keeps its type, whatever the faults.         *)
THEOREM PlaybackTypeCorrect == PlaybackSpec => []PlaybackTypeOK
<1>1. PlaybackInv => PlaybackTypeOK
  BY DEF PlaybackInv
<1> QED
  BY <1>1, PlaybackAlways, PTL

(* A rung that _inflight holds is being ordered, queued, in work or        *)
(* stored, unless a worker gave an order of it up.                         *)
THEOREM HeldRungsAreTracked == PlaybackSpec => []InflightIsTracked
<1>1. PlaybackInv => InflightIsTracked
  BY DEF PlaybackInv
<1> QED
  BY <1>1, PlaybackAlways, PTL

(* Any number of clients that ask for a rung have it encoded once, unless  *)
(* an order was repeated, redelivered or looked at again after an error.   *)
THEOREM RungsAreEncodedOnce == PlaybackSpec => []EncodedOnce
<1>1. PlaybackInv => EncodedOnce
  <2> SUFFICES ASSUME PlaybackInv, NEW r \in Rungs, r \notin twice PROVE ~(encodes[r] > 1)
    BY DEF EncodedOnce
  <2>1. encodes[r] = 0 \/ encodes[r] <= 1
    BY DEF PlaybackInv, RungInv, EncodedInv
  <2> QED
    BY <2>1, PlaybackTypeFacts
<1> QED
  BY <1>1, PlaybackAlways, PTL
================================================================================
