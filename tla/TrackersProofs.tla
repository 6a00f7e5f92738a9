--------------------------- MODULE TrackersProofs ---------------------------
(***************************************************************************)
(* What Trackers guarantees for every set of trackers, lists, torrents,    *)
(* tasks and handlers.                                                     *)
(***************************************************************************)
EXTENDS Trackers, FiniteSetTheorems, WellFoundedInduction, TLAPS

\* What a fetched list adds are URLs of the list.
LEMMA CollectedType ==
    ASSUME TrackersAssumption, NEW lines \in Lists
    PROVE  Collected(lines) \subseteq Tracker
<1>1. lines \in Seq(Offered \cup {Junk})
  BY DEF TrackersAssumption
<1>2. \A n \in Read(lines) : lines[n] \in Offered \cup {Junk}
  BY <1>1 DEF Read
<1>3. QED
  BY <1>2 DEF Collected, Tracker

\* The two ways a list of torrents leaves a task or handler.
LEMMA SendType ==
    ASSUME TypeOK, NEW g \in Task \cup Adder, TorrentSet(g) \/ TorrentSetFails(g)
    PROVE  /\ ids' \in [Task \cup Adder -> SUBSET Torrent]
           /\ sent' \in [Task \cup Adder -> SUBSET Tracker]
           /\ list' \in [Torrent -> SUBSET Tracker]
           /\ tr' \subseteq ever' /\ ever' \subseteq Torrent
BY DEF TypeOK, TorrentSet, TorrentSetFails, trVars

\* Every variable has its type.
THEOREM TypeCorrect == TrackersAssumption => (Spec => []TypeOK)
<1> SUFFICES ASSUME TrackersAssumption PROVE Spec => []TypeOK
  OBVIOUS
<1>1. Init => TypeOK
  BY DEF Init, TypeOK
<1>2. TypeOK /\ [Next]_vars => TypeOK'
  <2> SUFFICES ASSUME TypeOK, [Next]_vars PROVE TypeOK'
    OBVIOUS
  <2> USE DEF taskVars, addVars, trVars, sendVars
  <2>1. ASSUME NEW k \in Task, Fetched(k) PROVE TypeOK'
    <3>1. PICK lines \in Lists : todo' = [todo EXCEPT ![k] = Collected(lines)]
      BY <2>1 DEF Fetched
    <3>2. todo' \in [Task -> SUBSET Tracker]
      BY <3>1, CollectedType DEF TypeOK
    <3>3. alone' \in BOOLEAN
      BY <2>1 DEF Fetched
    <3>4. QED
      BY <2>1, <3>2, <3>3 DEF TypeOK, Fetched, Go
  <2>2. ASSUME NEW k \in Task, FetchFails(k) PROVE TypeOK'
    BY <2>2 DEF TypeOK, FetchFails, Go
  <2>3. ASSUME NEW k \in Task, Load(k) PROVE TypeOK'
    BY <2>3 DEF TypeOK, Load, Go
  <2>4. ASSUME NEW k \in Task, Store(k) PROVE TypeOK'
    BY <2>4 DEF TypeOK, Store, Go
  <2>5. ASSUME NEW k \in Task, Rebuilt(k) PROVE TypeOK'
    BY <2>5 DEF TypeOK, Rebuilt, Go
  <2>6. ASSUME NEW k \in Task, Torrents(k) PROVE TypeOK'
    BY <2>6 DEF TypeOK, Torrents, Go
  <2>7. ASSUME NEW k \in Task, NoTorrents(k) PROVE TypeOK'
    BY <2>7 DEF TypeOK, NoTorrents, Go, Ends
  <2>8. ASSUME NEW k \in Task, SetAll(k) \/ SetAllFails(k) PROVE TypeOK'
    <3>1. TorrentSet(k) \/ TorrentSetFails(k)
      BY <2>8 DEF SetAll, SetAllFails
    <3>2. /\ at' = [at EXCEPT ![k] = "idle"] /\ serving' = TRUE
          /\ UNCHANGED <<trackers, todo, held, alone, add, wanted, added>>
      BY <2>8 DEF SetAll, SetAllFails, Go, Ends
    <3>3. at' \in [Task -> {"idle", "fetch", "load", "store", "torrents", "set"}]
      BY <3>2 DEF TypeOK
    <3>4. QED
      BY <3>1, <3>2, <3>3, SendType DEF TypeOK
  <2>9. ASSUME NEW k \in Task, Tick(k) PROVE TypeOK'
    BY <2>9 DEF TypeOK, Tick, Go
  <2>10. ASSUME NEW h \in Adder, AskAdd(h) PROVE TypeOK'
    BY <2>10 DEF TypeOK, AskAdd, Step
  <2>11. ASSUME NEW h \in Adder, AddOne(h) PROVE TypeOK'
    BY <2>11 DEF TypeOK, AddOne, Step
  <2>12. ASSUME NEW h \in Adder, AddFails(h) PROVE TypeOK'
    BY <2>12 DEF TypeOK, AddFails, Step
  <2>13. ASSUME NEW h \in Adder, AllAdded(h) PROVE TypeOK'
    BY <2>13 DEF TypeOK, AllAdded, Step
  <2>14. ASSUME NEW h \in Adder, SetAdded(h) PROVE TypeOK'
    <3>1. TorrentSet(h) \/ TorrentSetFails(h)
      BY <2>14 DEF SetAdded
    <3>2. /\ add' \in [Adder -> {"idle", "add", "set"}]
          /\ wanted' \in [Adder -> SUBSET Torrent]
          /\ added' \subseteq Torrent
          /\ UNCHANGED <<trackers, serving, at, todo, held, alone>>
      BY <2>14 DEF SetAdded, Step, TypeOK
    <3>3. QED
      BY <3>1, <3>2, SendType DEF TypeOK
  <2>15. ASSUME NEW t \in Torrent, Removed(t) \/ Appears(t) PROVE TypeOK'
    BY <2>15 DEF TypeOK, Removed, Appears
  <2>16. CASE UNCHANGED vars
    BY <2>16 DEF TypeOK, vars
  <2>17. QED
    BY <2>1, <2>2, <2>3, <2>4, <2>5, <2>6, <2>7, <2>8, <2>9, <2>10, <2>11, <2>12,
       <2>13, <2>14, <2>15, <2>16
       DEF Next, UpTrackerList, UpTorrentALL, Add
<1>3. QED
  BY <1>1, <1>2, PTL DEF Spec

-----------------------------------------------------------------------------

\* What a handler has added got into Transmission, and it sends only when it
\* has added everything that was asked of it.
AddInv ==
    /\ AddTruthful
    /\ \A h \in Adder : ids[h] \subseteq ever
    /\ \A h \in Adder : add[h] = "set" => wanted[h] \subseteq ids[h]

\* An answer without an error means that all the torrents got in.
THEOREM AnswersTruthful == TrackersAssumption => (Spec => []AddTruthful)
<1> SUFFICES ASSUME TrackersAssumption PROVE Spec => []AddTruthful
  OBVIOUS
<1>1. Init => AddInv
  BY DEF Init, AddInv, AddTruthful
<1>2. TypeOK /\ AddInv /\ [Next]_vars => AddInv'
  <2> SUFFICES ASSUME TypeOK, AddInv, [Next]_vars PROVE AddInv'
    OBVIOUS
  <2> USE DEF taskVars, addVars, trVars, sendVars
  <2>1. ASSUME NEW k \in Task, UpTrackerList(k) \/ UpTorrentALL(k) \/ Tick(k)
        PROVE  AddInv'
    <3>1. \A h \in Adder : h # k
      BY DEF TrackersAssumption
    <3>2. /\ UNCHANGED <<add, wanted, added, ever>>
          /\ \A h \in Adder : ids'[h] = ids[h]
      BY <2>1, <3>1 DEF UpTrackerList, UpTorrentALL, Tick, Fetched, FetchFails, Load,
         Store, Rebuilt, Torrents, NoTorrents, SetAll, SetAllFails, Ends, TorrentSet,
         TorrentSetFails, TypeOK
    <3>3. QED
      BY <3>2 DEF AddInv, AddTruthful
  <2>2. ASSUME NEW h \in Adder, AskAdd(h) PROVE AddInv'
    BY <2>2 DEF AskAdd, Step, AddInv, AddTruthful, TypeOK
  <2>3. ASSUME NEW h \in Adder, AddOne(h) PROVE AddInv'
    <3>1. PICK t \in wanted[h] \ ids[h] :
              /\ ever' = ever \cup {t}
              /\ ids' = [ids EXCEPT ![h] = @ \cup {t}]
      BY <2>3 DEF AddOne
    <3>2. add[h] = "add" /\ add' = [add EXCEPT ![h] = "add"]
      BY <2>3 DEF AddOne, Step
    <3>3. wanted' = wanted /\ added' = added
      BY <2>3 DEF AddOne
    <3>4. QED
      BY <3>1, <3>2, <3>3 DEF AddInv, AddTruthful, TypeOK
  <2>4. ASSUME NEW h \in Adder, AddFails(h) PROVE AddInv'
    BY <2>4 DEF AddFails, Step, AddInv, AddTruthful, TypeOK
  <2>5. ASSUME NEW h \in Adder, AllAdded(h) PROVE AddInv'
    BY <2>5 DEF AllAdded, Step, AddInv, AddTruthful, TypeOK
  <2>6. ASSUME NEW h \in Adder, SetAdded(h) PROVE AddInv'
    <3>1. wanted[h] \subseteq ever
      BY <2>6 DEF SetAdded, Step, AddInv
    <3>2. /\ add' = [add EXCEPT ![h] = "idle"]
          /\ wanted' = [wanted EXCEPT ![h] = {}]
          /\ added' = added \cup wanted[h]
          /\ ids' = [ids EXCEPT ![h] = {}]
          /\ ever' = ever
      BY <2>6 DEF SetAdded, Step, TorrentSet, TorrentSetFails
    <3>3. QED
      BY <3>1, <3>2 DEF AddInv, AddTruthful, TypeOK
  <2>7. ASSUME NEW t \in Torrent, Removed(t) \/ Appears(t) PROVE AddInv'
    BY <2>7 DEF Removed, Appears, AddInv, AddTruthful
  <2>8. CASE UNCHANGED vars
    BY <2>8 DEF vars, AddInv, AddTruthful
  <2>9. QED
    BY <2>1, <2>2, <2>3, <2>4, <2>5, <2>6, <2>7, <2>8 DEF Next, Add
<1>3. AddInv => AddTruthful
  BY DEF AddInv
<1>4. QED
  BY <1>1, <1>2, <1>3, TypeCorrect, PTL DEF Spec

-----------------------------------------------------------------------------
(* The list is bounded.  The lines a task reads are the first few of the   *)
(* list.  Before the last of them the bound was not reached, and a line    *)
(* adds at most one tracker.                                               *)

\* A set of positions in a list has a last one.
LEMMA LastOf ==
    ASSUME NEW n \in Nat, NEW R, R \subseteq 1 .. n, R # {}
    PROVE  \E m \in R : \A j \in R : j <= m
<1> DEFINE Before == {n - j : j \in R}
<1>1. Before \subseteq Nat /\ Before # {}
  <2>1. \A j \in R : n - j \in Nat
    OBVIOUS
  <2>2. QED
    BY <2>1
<1>2. \E x \in Before : \A y \in Before : ~(<<y, x>> \in OpToRel(<, Nat))
  BY <1>1, WFMin, NatLessThanWellFounded, Zenon
<1>3. PICK x \in Before : \A y \in Before : ~(y < x)
  BY <1>1, <1>2 DEF OpToRel
<1>4. PICK m \in R : x = n - m
  BY <1>3
<1>5. \A j \in R : n - j \in Before /\ n - j \in Int /\ j \in Int
  OBVIOUS
<1>6. \A j \in R : ~(n - j < n - m)
  BY <1>3, <1>4, <1>5
<1>7. QED
  BY <1>4, <1>5, <1>6

\* Lines in a set of positions hold at most as many trackers.
LEMMA LinesBound ==
    ASSUME NEW lines, NEW J, IsFiniteSet(J)
    PROVE  /\ IsFiniteSet({lines[j] : j \in J})
           /\ Cardinality({lines[j] : j \in J}) <= Cardinality(J)
<1> DEFINE f == [j \in J |-> lines[j]]
<1>1. f \in Surjection(J, {lines[j] : j \in J})
  BY DEF Surjection
<1>2. QED
  BY <1>1, FS_Surjection

\* What a task collects of a list is bounded, and holds the configured ones.
LEMMA CollectedSound ==
    ASSUME TrackersAssumption, NEW lines \in Lists
    PROVE  Sound(Collected(lines))
<1> DEFINE J == {n \in Read(lines) : lines[n] # Junk}
           A == {lines[n] : n \in Read(lines)} \ {Junk}
           D == Cardinality(Default)
<1>1. lines \in Seq(Offered \cup {Junk}) /\ Len(lines) \in Nat
  BY DEF TrackersAssumption
<1>2. A = {lines[n] : n \in J}
  OBVIOUS
<1>3. IsFiniteSet(Default) /\ D \in Nat /\ MaxSize \in Nat
  BY FS_CardinalityType DEF TrackersAssumption
<1>4. Collected(lines) = Default \cup A
  BY DEF Collected
<1>5. ASSUME IsFiniteSet(J)
      PROVE  /\ Cardinality(Collected(lines)) \in Nat
             /\ Cardinality(Collected(lines)) <= D + Cardinality(J)
  <2>1. IsFiniteSet(A) /\ Cardinality(A) <= Cardinality(J)
    BY <1>2, <1>5, LinesBound
  <2>2. IsFiniteSet(Default \cap A) /\ Cardinality(Default \cap A) \in Nat
    BY <1>3, FS_Subset, FS_CardinalityType
  <2>3. Cardinality(Default \cup A) = D + Cardinality(A) - Cardinality(Default \cap A)
    BY <1>3, <2>1, FS_Union
  <2>4. Cardinality(A) \in Nat /\ Cardinality(J) \in Nat
    BY <1>5, <2>1, FS_CardinalityType
  <2>5. Cardinality(Default \cup A) \in Nat
    BY <1>3, <2>1, FS_Union, FS_CardinalityType
  <2>6. QED
    BY <1>3, <1>4, <2>1, <2>2, <2>3, <2>4, <2>5
<1>6. CASE Read(lines) = {}
  <2>1. A = {}
    BY <1>6
  <2>2. Cardinality(Collected(lines)) = D
    BY <1>4, <2>1
  <2>3. QED
    BY <1>3, <1>4, <2>2 DEF Sound
<1>7. CASE Read(lines) # {}
  <2>1. Read(lines) \subseteq 1 .. Len(lines)
    BY DEF Read
  <2>2. PICK m \in Read(lines) : \A j \in Read(lines) : j <= m
    BY <1>1, <1>7, <2>1, LastOf
  <2>3. m \in Nat \ {0} /\ m - 1 \in Nat
    BY <1>1, <2>1, <2>2
  <2> DEFINE B == {j \in 1 .. m - 1 : lines[j] # Junk}
  <2>4. J \subseteq B \cup {m}
    BY <1>1, <2>1, <2>2, <2>3
  <2>5. IsFiniteSet(B) /\ Cardinality(B) <= m - 1 /\ Cardinality(B) \in Nat
    <3>1. IsFiniteSet(1 .. m - 1) /\ Cardinality(1 .. m - 1) = m - 1
      BY <2>3, FS_Interval
    <3>2. QED
      BY <3>1, FS_Subset, FS_CardinalityType
  <2>6. /\ IsFiniteSet(B \cup {m})
        /\ Cardinality(B \cup {m}) \in Nat
        /\ Cardinality(B \cup {m}) <= Cardinality(B) + 1
    <3>1. /\ IsFiniteSet(B \cup {m})
          /\ Cardinality(B \cup {m}) =
                 IF m \in B THEN Cardinality(B) ELSE Cardinality(B) + 1
      BY <2>5, FS_AddElement
    <3>2. QED
      BY <2>5, <3>1
  <2>7. IsFiniteSet(J) /\ Cardinality(J) \in Nat /\ Cardinality(J) <= Cardinality(B) + 1
    <3>1. IsFiniteSet(J) /\ Cardinality(J) <= Cardinality(B \cup {m})
      BY <2>4, <2>6, FS_Subset
    <3>2. QED
      BY <2>5, <2>6, <3>1, FS_CardinalityType
  <2>8. /\ Cardinality(Collected(lines)) \in Nat
        /\ Cardinality(Collected(lines)) <= D + Cardinality(B) + 1
    <3>1. /\ Cardinality(Collected(lines)) \in Nat
          /\ Cardinality(Collected(lines)) <= D + Cardinality(J)
      BY <1>5, <2>7
    <3>2. QED
      BY <1>3, <2>5, <2>7, <3>1
  <2>9. CASE m = 1
    BY <1>3, <1>4, <2>3, <2>5, <2>8, <2>9 DEF Sound
  <2>10. CASE m # 1
    <3>1. D + URLs(lines, m - 1) < MaxSize
      BY <2>2, <2>3, <2>10 DEF Read
    <3>2. URLs(lines, m - 1) = Cardinality(B)
      BY DEF URLs
    <3>3. Cardinality(Collected(lines)) <= MaxSize
      BY <1>3, <2>5, <2>8, <3>1, <3>2
    <3>4. Default \subseteq Collected(lines)
      BY <1>4
    <3>5. QED
      BY <3>3, <3>4 DEF Sound
  <2>11. QED
    BY <2>9, <2>10
<1>8. QED
  BY <1>6, <1>7

\* While nothing disturbs a rebuild, what is in the list and what is still to
\* be appended are sound together.
ListInv ==
    alone =>
        \/ Rebuilding = {} /\ (trackers = {} \/ Sound(trackers))
        \/ \E k \in Task :
               /\ Rebuilding = {k} /\ Sound(trackers \cup todo[k])
               /\ at[k] = "store" => held[k] = trackers

\* A task changes the list, and only the one that rebuilds it.
LEMMA TaskKeepsListInv ==
    ASSUME TrackersAssumption, TypeOK, ListInv,
           NEW k \in Task, UpTrackerList(k)
    PROVE  ListInv'
<1> USE DEF TypeOK
<1>1. CASE Fetched(k)
  <2>1. PICK lines \in Lists : todo' = [todo EXCEPT ![k] = Collected(lines)]
    BY <1>1 DEF Fetched
  <2>2. alone' => Rebuilding' = {k}
    BY <1>1 DEF Fetched, Go, Rebuilding
  <2>3. trackers' = {} /\ at'[k] = "load" /\ todo'[k] = Collected(lines)
    BY <1>1, <2>1 DEF Fetched, Go
  <2>4. Sound(Collected(lines)) /\ trackers' \cup todo'[k] = Collected(lines)
    BY <2>3, CollectedSound
  <2>5. Sound(trackers' \cup todo'[k])
    BY <2>4
  <2>6. QED
    BY <2>2, <2>3, <2>5 DEF ListInv, Sound
<1>2. CASE FetchFails(k)
  <2>1. Rebuilding' = Rebuilding
    BY <1>2 DEF FetchFails, Go, Rebuilding
  <2>2. \A j \in Task : at'[j] = "store" => at[j] = "store"
    BY <1>2 DEF FetchFails, Go
  <2>3. QED
    BY <1>2, <2>1, <2>2 DEF FetchFails, ListInv, Sound
<1>3. CASE Load(k)
  <2>1. Rebuilding' = Rebuilding /\ k \in Rebuilding
    BY <1>3 DEF Load, Go, Rebuilding
  <2>2. held'[k] = trackers
    BY <1>3 DEF Load
  <2>3. QED
    BY <1>3, <2>1, <2>2 DEF Load, ListInv, Sound
<1>4. CASE Store(k)
  <2>1. Rebuilding' = Rebuilding /\ k \in Rebuilding /\ at[k] = "store"
    BY <1>4 DEF Store, Go, Rebuilding
  <2>2. PICK u \in todo[k] :
            trackers' = held[k] \cup {u} /\ todo' = [todo EXCEPT ![k] = @ \ {u}]
    BY <1>4 DEF Store
  <2>3. at'[k] = "load" /\ alone' = alone
    BY <1>4 DEF Store, Go
  <2>4. ASSUME held[k] = trackers
        PROVE  trackers' \cup todo'[k] = trackers \cup todo[k]
    BY <2>2, <2>4
  <2>5. CASE alone
    <3>1. Rebuilding = {k} /\ Sound(trackers \cup todo[k]) /\ held[k] = trackers
      BY <2>1, <2>5 DEF ListInv
    <3>2. Sound(trackers' \cup todo'[k])
      BY <2>4, <3>1
    <3>3. QED
      BY <2>1, <2>3, <3>1, <3>2 DEF ListInv, Sound
  <2>6. QED
    BY <2>3, <2>5 DEF ListInv
<1>5. CASE Rebuilt(k)
  <2>1. k \in Rebuilding /\ Rebuilding' = Rebuilding \ {k}
    BY <1>5 DEF Rebuilt, Go, Rebuilding
  <2>2. trackers \cup todo[k] = trackers /\ trackers' = trackers /\ alone' = alone
    BY <1>5 DEF Rebuilt
  <2>3. CASE alone
    <3>1. Rebuilding = {k} /\ Sound(trackers \cup todo[k])
      <4>1. PICK j \in Task : Rebuilding = {j} /\ Sound(trackers \cup todo[j])
        BY <2>1, <2>3 DEF ListInv
      <4>2. j = k
        BY <2>1, <4>1
      <4>3. QED
        BY <4>1, <4>2
    <3>2. Rebuilding' = {}
      BY <2>1, <3>1
    <3>3. Sound(trackers) /\ Sound(trackers)'
      BY <2>2, <3>1 DEF Sound
    <3>4. QED
      BY <2>2, <3>2, <3>3 DEF ListInv
  <2>4. QED
    BY <2>2, <2>3 DEF ListInv
<1>6. QED
  BY <1>1, <1>2, <1>3, <1>4, <1>5 DEF UpTrackerList

\* An undisturbed rebuild leaves a list that is bounded and holds every
\* configured tracker, for any subscription and any number of tasks.
THEOREM ListIsSound == TrackersAssumption => (Spec => []ListSound)
<1> SUFFICES ASSUME TrackersAssumption PROVE Spec => []ListSound
  OBVIOUS
<1>1. Init => ListInv
  <2>1. Init => Rebuilding = {}
    BY DEF Init, Rebuilding
  <2>2. QED
    BY <2>1 DEF Init, ListInv
<1>2. TypeOK /\ ListInv /\ [Next]_vars => ListInv'
  <2> SUFFICES ASSUME TypeOK, ListInv, [Next]_vars PROVE ListInv'
    OBVIOUS
  <2>1. ASSUME NEW k \in Task, UpTrackerList(k) PROVE ListInv'
    BY <2>1, TaskKeepsListInv
  <2>2. ASSUME NEW k \in Task, UpTorrentALL(k) \/ Tick(k) PROVE ListInv'
    <3>1. Rebuilding' = Rebuilding /\ \A j \in Task : at'[j] = "store" => at[j] = "store"
      BY <2>2 DEF UpTorrentALL, Tick, Torrents, NoTorrents, SetAll, SetAllFails, Go,
         Rebuilding, TypeOK
    <3>2. UNCHANGED <<trackers, todo, held, alone>>
      BY <2>2 DEF UpTorrentALL, Tick, Torrents, NoTorrents, SetAll, SetAllFails, Ends
    <3>3. QED
      BY <3>1, <3>2 DEF ListInv, Sound
  <2>3. CASE UNCHANGED <<trackers, taskVars>>
    BY <2>3 DEF ListInv, Sound, Rebuilding, taskVars
  <2>4. ASSUME \/ \E h \in Adder : AskAdd(h) \/ Add(h)
               \/ \E t \in Torrent : Removed(t) \/ Appears(t)
               \/ UNCHANGED vars
        PROVE  UNCHANGED <<trackers, taskVars>>
    BY <2>4 DEF AskAdd, Add, AddOne, AddFails, AllAdded, SetAdded, Removed,
       Appears, vars
  <2>5. QED
    BY <2>1, <2>2, <2>3, <2>4 DEF Next
<1>3. ListInv => ListSound
  BY DEF ListInv, ListSound
<1>4. QED
  BY <1>1, <1>2, <1>3, TypeCorrect, PTL DEF Spec
=============================================================================
