------------------------------ MODULE TrackMerge ------------------------------
(***************************************************************************)
(* Fragments of one object: a track that is lost and found again has a new *)
(* id. After a clip has been tracked, each fragment is joined to the       *)
(* earlier one of its class that ends where it begins, by union-find, and  *)
(* a joined set takes the id of its earliest member.                       *)
(***************************************************************************)
EXTENDS Integers, FiniteSets

CONSTANTS
    MaxTracks,   \* bound: tracks of a clip
    LastFrame,   \* bound: the last frame of a clip
    Classes,
    Overlaps,    \* values of the intersection over union
    MinOverlap,  \* oc_merge_min_iou
    MaxGap       \* oc_merge_max_gap

ASSUME TrackMergeAssumption ==
    /\ MaxTracks \in Nat \ {0} /\ LastFrame \in Nat /\ MaxGap \in Nat
    /\ Overlaps \subseteq Nat /\ MinOverlap \in Nat

Positions == 1..MaxTracks
Pairs == {p \in Positions \X Positions : p[1] < p[2]}
Intervals == {i \in [first : 0..LastFrame, last : 0..LastFrame] : i.first <= i.last}

VARIABLES
    tracks,   \* the fragments, ordered by first and then last frame
    class,    \* the class that most of a fragment's detections have
    tid,      \* the id that the tracker gave it
    overlap,  \* of the last box of a fragment with the first box of a later one
    parent,   \* the union-find forest
    merge,    \* where the loops stand
    canon     \* canonical fragment of each root; 0 where there is none yet

mergeInput == <<tracks, class, tid, overlap>>
mergeVars == <<mergeInput, parent, merge, canon>>

None == 0

(* Mutant: only the overlap decides.                                       *)
PrecedesAnyClass(a, b) ==
    /\ a < b
    /\ tracks[b].first - tracks[a].last \in 0..MaxGap
    /\ overlap[<<a, b>>] >= MinOverlap

(* Mutant: a fragment need not have ended.                                 *)
PrecedesRunning(a, b) ==
    /\ a < b
    /\ class[a] = class[b]
    /\ tracks[b].first - tracks[a].last <= MaxGap
    /\ overlap[<<a, b>>] >= MinOverlap

(* Fragment b may continue the earlier fragment a.                         *)
Precedes(a, b) ==
    /\ a < b
    /\ class[a] = class[b]
    /\ tracks[b].first - tracks[a].last \in 0..MaxGap
    /\ overlap[<<a, b>>] >= MinOverlap

(* The one that overlaps best; of several the latest in the order.         *)
Best(b) ==
    LET candidates == {a \in Positions : Precedes(a, b)}
    IN  IF candidates = {} THEN None
        ELSE CHOOSE a \in candidates :
                \A c \in candidates : \/ overlap[<<c, b>>] < overlap[<<a, b>>]
                                      \/ overlap[<<c, b>>] = overlap[<<a, b>>] /\ c <= a

-------------------------------------------------------------------------------
(* The loop over later fragments.                                          *)

PickBest ==
    LET a == Best(merge.at)
    IN  /\ merge.pc = "pick"
        /\ merge' = IF a # None THEN [merge EXCEPT !.pc = "find_a", !.x = a]
                    ELSE IF merge.at < MaxTracks THEN [merge EXCEPT !.at = @ + 1]
                    ELSE [merge EXCEPT !.pc = "canon", !.at = 1, !.x = 1]
        /\ UNCHANGED <<mergeInput, parent, canon>>

(* One turn of the loop in find, which halves the path that it walks.      *)
Walk ==
    /\ merge.pc \in {"find_a", "find_b", "canon"}
    /\ parent[merge.x] # merge.x
    /\ parent' = [parent EXCEPT ![merge.x] = parent[parent[merge.x]]]
    /\ merge' = [merge EXCEPT !.x = parent'[merge.x]]
    /\ UNCHANGED <<mergeInput, canon>>

RootOfA ==
    /\ merge.pc = "find_a" /\ parent[merge.x] = merge.x
    /\ merge' = [merge EXCEPT !.pc = "find_b", !.x = merge.at, !.root = merge.x]
    /\ UNCHANGED <<mergeInput, parent, canon>>

Link ==
    /\ merge.pc = "find_b" /\ parent[merge.x] = merge.x
    /\ parent' = [parent EXCEPT ![merge.x] = merge.root]
    /\ merge' = IF merge.at < MaxTracks THEN [merge EXCEPT !.pc = "pick", !.at = @ + 1]
                ELSE [merge EXCEPT !.pc = "canon", !.at = 1, !.x = 1]
    /\ UNCHANGED <<mergeInput, canon>>

(* Earliest start, then smallest id.                                       *)
Before(a, b) ==
    \/ tracks[a].first < tracks[b].first
    \/ tracks[a].first = tracks[b].first /\ tid[a] < tid[b]

(* Mutant: the last member gives the id.                                   *)
CanoniseLast ==
    /\ merge.pc = "canon" /\ parent[merge.x] = merge.x
    /\ canon' = [canon EXCEPT ![merge.x] = merge.at]
    /\ merge' = IF merge.at < MaxTracks THEN [merge EXCEPT !.at = @ + 1, !.x = merge.at + 1]
                ELSE [merge EXCEPT !.pc = "done"]
    /\ UNCHANGED <<mergeInput, parent>>

(* The loop that finds each set's canonical fragment.                      *)
Canonise ==
    /\ merge.pc = "canon" /\ parent[merge.x] = merge.x
    /\ canon' = [canon EXCEPT ![merge.x] =
                    IF @ = None \/ Before(merge.at, @) THEN merge.at ELSE @]
    /\ merge' = IF merge.at < MaxTracks THEN [merge EXCEPT !.at = @ + 1, !.x = merge.at + 1]
                ELSE [merge EXCEPT !.pc = "done"]
    /\ UNCHANGED <<mergeInput, parent>>

(* remap: every fragment has been found, so its parent is its root.        *)
Remap(i) == canon[parent[i]]

-------------------------------------------------------------------------------
Sorted(t) == \A i, j \in Positions :
    i < j => \/ t[i].first < t[j].first
             \/ t[i].first = t[j].first /\ t[i].last <= t[j].last
Increasing == [i \in Positions |-> i]
Decreasing == [i \in Positions |-> MaxTracks + 1 - i]

MergeInit ==
    /\ tracks \in {t \in [Positions -> Intervals] : Sorted(t)}
    /\ class \in [Positions -> Classes]
    /\ tid \in {Increasing, Decreasing}
    /\ overlap \in [Pairs -> Overlaps]
    /\ parent = [i \in Positions |-> i]
    /\ merge = [pc |-> "pick", at |-> 1, x |-> 1, root |-> 1]
    /\ canon = [i \in Positions |-> None]

MergeNext == PickBest \/ Walk \/ RootOfA \/ Link \/ Canonise
MergeSpec == MergeInit /\ [][MergeNext]_mergeVars

-------------------------------------------------------------------------------
MergeTypeOK ==
    /\ tracks \in [Positions -> Intervals]
    /\ class \in [Positions -> Classes]
    /\ tid \in {Increasing, Decreasing}
    /\ overlap \in [Pairs -> Overlaps]
    /\ parent \in [Positions -> Positions]
    /\ merge \in [pc : {"pick", "find_a", "find_b", "canon", "done"},
                  at : Positions, x : Positions, root : Positions]
    /\ canon \in [Positions -> Positions \cup {None}]

(* The forest stays flat: because fragments are joined in order, a root is *)
(* never joined again, find takes at most one turn, and a fragment's root  *)
(* is of its class and no later than it.                                   *)
FlatForest ==
    \A i \in Positions :
        /\ parent[parent[i]] = parent[i]
        /\ parent[i] <= i
        /\ class[parent[i]] = class[i]

(* Two fragments are the same object if a chain of best predecessors links *)
(* them: every set that is closed under them has both or neither.          *)
Chained(a, b) ==
    \A s \in SUBSET Positions :
        (\A j \in Positions : Best(j) # None => (j \in s <=> Best(j) \in s)) => (a \in s <=> b \in s)

(* Whatever the order of the unions, a joined set is exactly such a chain, *)
(* and its id is that of its earliest member.                              *)
MergedAsChained ==
    merge.pc = "done" =>
        \A a, b \in Positions :
            /\ Remap(a) = Remap(b) <=> Chained(a, b)
            /\ Chained(a, b) => ~Before(b, Remap(a))

(* A joined track is in two places in one frame only if two fragments      *)
(* continue the same one, or if one begins in the frame in which the other *)
(* ends: the code takes a gap of zero.                                     *)
Forked == \E i, j \in Positions : i # j /\ Best(i) = Best(j) /\ Best(i) # None
Touching == \E j \in Positions : Best(j) # None /\ tracks[j].first = tracks[Best(j)].last
InOnePlace ==
    merge.pc = "done" =>
        \A a, b \in Positions :
            a # b /\ Remap(a) = Remap(b)
                  /\ {tracks[a].first, tracks[a].last} \cap tracks[b].first..tracks[b].last # {}
                => Forked \/ Touching
===============================================================================
