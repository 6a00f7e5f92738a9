------------------------------ MODULE Trackers ------------------------------
(***************************************************************************)
(* The tracker lists of the torrents: TorrentUsecase.UpTrackerList,        *)
(* UpTorrentALLTrackerList and Add, with the task that runs the first two. *)
(*                                                                         *)
(* A task fetches the subscribed list, rebuilds uc.trackers IN PLACE, one  *)
(* append at a time, and sends it to every torrent.  The first task runs   *)
(* before the HTTP server starts; later ones on a goroutine per tick,      *)
(* without a lock and without waiting for the previous one, whose fetch    *)
(* has no timeout.  A handler of Add sends uc.trackers, as it finds it, to *)
(* the torrents it has added.                                              *)
(***************************************************************************)
EXTENDS Naturals, Sequences, FiniteSets

CONSTANTS
    Default,        \* the configured trackers that are URLs
    Offered,        \* trackers a subscription may list
    Junk,           \* a line that is no URL
    Lists,          \* the subscribed lists, as sequences of lines
    MaxSize,        \* trackerMaxSize
    Torrent,        \* torrents that may be added to Transmission
    Task,           \* tasks at work at a time
    Adder           \* handlers of Add at work at a time

Tracker == Default \cup Offered

ASSUME TrackersAssumption ==
    /\ MaxSize \in Nat /\ IsFiniteSet(Default)
    /\ Junk \notin Tracker
    /\ Task \cap Adder = {}
    /\ Lists \subseteq Seq(Offered \cup {Junk})

VARIABLES
    serving,    \* has the first task ended and the HTTP server started?
    trackers,   \* uc.trackers; the order and repeats do not matter
    at,         \* where each task is
    todo,       \* trackers it has yet to append
    held,       \* the slice it is about to append to
    ids,        \* the torrents a task or handler works on
    sent,       \* the list it is about to send to them
    add,        \* where each handler of Add is
    wanted,     \* the torrents of its request
    tr,         \* the torrents Transmission holds
    list,       \* their tracker lists, their own trackers left out
    added,      \* history: torrents of requests answered without an error
    ever,       \* history: torrents Transmission has ever held
    alone       \* history: nothing disturbed the last rebuild of uc.trackers

taskVars == <<serving, at, todo, held, alone>>
addVars == <<add, wanted, added>>
trVars == <<tr, list, ever>>
sendVars == <<ids, sent>>
vars == <<trackers, taskVars, addVars, trVars, sendVars>>

Init ==
    /\ serving = FALSE
    /\ trackers = {}
    /\ \E k \in Task : at = [j \in Task |-> IF j = k THEN "fetch" ELSE "idle"]
    /\ todo = [k \in Task |-> {}] /\ held = [k \in Task |-> {}]
    /\ ids = [g \in Task \cup Adder |-> {}]
    /\ sent = [g \in Task \cup Adder |-> {}]
    /\ add = [h \in Adder |-> "idle"]
    /\ wanted = [h \in Adder |-> {}]
    /\ tr \in SUBSET Torrent
    /\ list = [t \in Torrent |-> {}]
    /\ added = {} /\ ever = tr
    /\ alone = TRUE

-----------------------------------------------------------------------------
(* UpTrackerList.                                                          *)

\* How many of the first n lines are URLs.
URLs(lines, n) == Cardinality({j \in 1 .. n : lines[j] # Junk})

\* The lines looked at: the loop stops after the line that reaches MaxSize,
\* counting the defaults, so that one line is looked at in any case.
Read(lines) ==
    {n \in 1 .. Len(lines) :
        \A m \in 1 .. n - 1 : Cardinality(Default) + URLs(lines, m) < MaxSize}

\* Faulty variants: no bound; text that is no URL is kept.
CollectedAll(lines) == Default \cup ({lines[n] : n \in 1 .. Len(lines)} \ {Junk})
CollectedJunk(lines) == Default \cup {lines[n] : n \in Read(lines)}

Collected(lines) == Default \cup ({lines[n] : n \in Read(lines)} \ {Junk})

Go(k, from, to) == at[k] = from /\ at' = [at EXCEPT ![k] = to]

Rebuilding == {k \in Task : at[k] \in {"load", "store"}}

\* GetResponseLine answered: the slice is made anew ...
Fetched(k) ==
    /\ Go(k, "fetch", "load")
    /\ alone' = (Rebuilding = {})
    /\ \E lines \in Lists : todo' = [todo EXCEPT ![k] = Collected(lines)]
    /\ trackers' = {}
    /\ UNCHANGED <<serving, held, addVars, trVars, sendVars>>

\* ... or it failed: uc.trackers stays, and the task goes on all the same.
FetchFails(k) ==
    /\ Go(k, "fetch", "torrents")
    /\ UNCHANGED <<trackers, serving, todo, held, alone, addVars, trVars, sendVars>>

\* append reads the slice ...
Load(k) ==
    /\ todo[k] # {} /\ Go(k, "load", "store")
    /\ held' = [held EXCEPT ![k] = trackers]
    /\ UNCHANGED <<trackers, serving, todo, alone, addVars, trVars, sendVars>>

\* Faulty variant: the slice is replaced.
StoreOne(k) ==
    /\ Go(k, "store", "load")
    /\ \E u \in todo[k] :
           /\ trackers' = {u}
           /\ todo' = [todo EXCEPT ![k] = @ \ {u}]
    /\ held' = [held EXCEPT ![k] = {}]
    /\ UNCHANGED <<serving, alone, addVars, trVars, sendVars>>

\* ... and stores the longer one.
Store(k) ==
    /\ Go(k, "store", "load")
    /\ \E u \in todo[k] :
           /\ trackers' = held[k] \cup {u}
           /\ todo' = [todo EXCEPT ![k] = @ \ {u}]
    /\ held' = [held EXCEPT ![k] = {}]
    /\ UNCHANGED <<serving, alone, addVars, trVars, sendVars>>

Rebuilt(k) ==
    /\ todo[k] = {} /\ Go(k, "load", "torrents")
    /\ UNCHANGED <<trackers, serving, todo, held, alone, addVars, trVars, sendVars>>

-----------------------------------------------------------------------------
(* UpTorrentALLTrackerList.                                                *)

\* The end of a task: the first one lets the server start.
Ends(k) ==
    /\ serving' = TRUE
    /\ UNCHANGED <<trackers, todo, held, alone, addVars>>

\* GetTorrentAll, then the list to send is read.
Torrents(k) ==
    /\ tr # {} /\ Go(k, "torrents", "set")
    /\ ids' = [ids EXCEPT ![k] = tr]
    /\ sent' = [sent EXCEPT ![k] = trackers]
    /\ UNCHANGED <<trackers, serving, todo, held, alone, addVars, trVars>>

\* There is no torrent, or Transmission does not answer.
NoTorrents(k) ==
    /\ Go(k, "torrents", "idle") /\ Ends(k)
    /\ UNCHANGED <<trVars, sendVars>>

\* UpTracker replaces the lists of the torrents that are still there; whether
\* an empty list does is Transmission's affair.
TorrentSet(g) ==
    /\ \/ list' = [t \in Torrent |->
                      IF t \in ids[g] \cap tr THEN sent[g] ELSE list[t]]
       \/ sent[g] = {} /\ list' = list
    /\ ids' = [ids EXCEPT ![g] = {}] /\ sent' = [sent EXCEPT ![g] = {}]
    /\ UNCHANGED <<tr, ever>>

TorrentSetFails(g) ==
    /\ ids' = [ids EXCEPT ![g] = {}] /\ sent' = [sent EXCEPT ![g] = {}]
    /\ UNCHANGED trVars

\* The torrents get the list; re-announcing them changes nothing here.
SetAll(k) == Go(k, "set", "idle") /\ TorrentSet(k) /\ Ends(k)
SetAllFails(k) == Go(k, "set", "idle") /\ TorrentSetFails(k) /\ Ends(k)

-----------------------------------------------------------------------------
(* The ticker.                                                             *)

\* "go task()", whatever the tasks of earlier ticks are doing.
Tick(k) ==
    /\ serving /\ Go(k, "idle", "fetch")
    /\ UNCHANGED <<trackers, serving, todo, held, alone, addVars, trVars, sendVars>>

-----------------------------------------------------------------------------
(* Add, and what else happens in Transmission.                             *)

Step(h, from, to) == add[h] = from /\ add' = [add EXCEPT ![h] = to]

AskAdd(h) ==
    /\ serving /\ Step(h, "idle", "add")
    /\ \E S \in (SUBSET Torrent) \ {{}} : wanted' = [wanted EXCEPT ![h] = S]
    /\ UNCHANGED <<trackers, taskVars, added, trVars, sendVars>>

\* TorrentAdd of one; Transmission knows a torrent it holds already.
AddOne(h) ==
    /\ Step(h, "add", "add")
    /\ \E t \in wanted[h] \ ids[h] :
           /\ tr' = tr \cup {t} /\ ever' = ever \cup {t}
           /\ ids' = [ids EXCEPT ![h] = @ \cup {t}]
    /\ UNCHANGED <<trackers, taskVars, wanted, added, list, sent>>

\* Faulty variant: the torrent is left out and the request goes on.
AddFailsOn(h) ==
    /\ add[h] = "add"
    /\ \E t \in wanted[h] \ ids[h] : ids' = [ids EXCEPT ![h] = @ \cup {t}]
    /\ UNCHANGED <<trackers, taskVars, addVars, trVars, sent>>

\* TorrentAdd failed, or its answer was lost: AddTorrent dereferences the nil
\* ID, and the recovery middleware answers with an error.  The torrents added
\* so far stay, and so may the one whose answer was lost.
AddFails(h) ==
    /\ Step(h, "add", "idle")
    /\ \E t \in wanted[h] \ ids[h] :
           \/ tr' = tr \cup {t} /\ ever' = ever \cup {t}
           \/ tr' = tr /\ ever' = ever
    /\ ids' = [ids EXCEPT ![h] = {}]
    /\ wanted' = [wanted EXCEPT ![h] = {}]
    /\ UNCHANGED <<trackers, taskVars, added, list, sent>>

AllAdded(h) ==
    /\ wanted[h] \ ids[h] = {} /\ Step(h, "add", "set")
    /\ sent' = [sent EXCEPT ![h] = trackers]
    /\ UNCHANGED <<trackers, taskVars, wanted, added, trVars, ids>>

\* The answer is the same whether UpTracker worked or not.
SetAdded(h) ==
    /\ Step(h, "set", "idle")
    /\ TorrentSet(h) \/ TorrentSetFails(h)
    /\ added' = added \cup wanted[h]
    /\ wanted' = [wanted EXCEPT ![h] = {}]
    /\ UNCHANGED <<trackers, taskVars>>

\* A torrent is removed, and perhaps added again later with a new ID; a list
\* sent for the old ID may then reach it here, which only adds behaviours.
Removed(t) ==
    /\ t \in tr /\ tr' = tr \ {t}
    /\ list' = [list EXCEPT ![t] = {}]
    /\ UNCHANGED <<trackers, taskVars, addVars, ever, sendVars>>

\* One that this proxy did not add, or of an Add request it had given up.
Appears(t) ==
    /\ t \notin tr
    /\ tr' = tr \cup {t} /\ ever' = ever \cup {t}
    /\ UNCHANGED <<trackers, taskVars, addVars, list, sendVars>>

-----------------------------------------------------------------------------
UpTrackerList(k) == Fetched(k) \/ FetchFails(k) \/ Load(k) \/ Store(k) \/ Rebuilt(k)
UpTorrentALL(k) == Torrents(k) \/ NoTorrents(k) \/ SetAll(k) \/ SetAllFails(k)
Add(h) == AddOne(h) \/ AddFails(h) \/ AllAdded(h) \/ SetAdded(h)

Next ==
    \/ \E k \in Task : UpTrackerList(k) \/ UpTorrentALL(k) \/ Tick(k)
    \/ \E h \in Adder : AskAdd(h) \/ Add(h)
    \/ \E t \in Torrent : Removed(t) \/ Appears(t)

Spec == Init /\ [][Next]_vars

\* Goroutines keep running, the ticker keeps ticking, and a fetch ends, be it
\* with an error.
FairSpec ==
    /\ Spec
    /\ \A k \in Task :
           WF_vars(UpTrackerList(k)) /\ WF_vars(UpTorrentALL(k)) /\ WF_vars(Tick(k))
    /\ \A h \in Adder : WF_vars(Add(h))

\* Transmission does not fail every time ...
OfflineSpec ==
    /\ FairSpec
    /\ SF_vars(\E k \in Task : Torrents(k))
    /\ SF_vars(\E k \in Task : SetAll(k))

\* ... and neither does the subscription.
OnlineSpec == OfflineSpec /\ SF_vars(\E k \in Task : Fetched(k))

-----------------------------------------------------------------------------
(* Properties.                                                             *)

\* Every variable has its type.
TypeOK ==
    /\ serving \in BOOLEAN /\ alone \in BOOLEAN
    /\ trackers \subseteq Tracker
    /\ at \in [Task -> {"idle", "fetch", "load", "store", "torrents", "set"}]
    /\ todo \in [Task -> SUBSET Tracker] /\ held \in [Task -> SUBSET Tracker]
    /\ ids \in [Task \cup Adder -> SUBSET Torrent]
    /\ sent \in [Task \cup Adder -> SUBSET Tracker]
    /\ add \in [Adder -> {"idle", "add", "set"}]
    /\ wanted \in [Adder -> SUBSET Torrent]
    /\ tr \subseteq ever /\ ever \subseteq Torrent /\ added \subseteq Torrent
    /\ list \in [Torrent -> SUBSET Tracker]

\* Every configured tracker, and no more than MaxSize in all, or one more than
\* the configured ones where those are as many already.
Sound(S) ==
    /\ Default \subseteq S
    /\ \/ Cardinality(S) <= MaxSize
       \/ Cardinality(S) <= Cardinality(Default) + 1

\* Once rebuilt with no other task's rebuild in between, the list is sound:
\* it holds what is configured, and is bounded.
ListSound == alone /\ Rebuilding = {} /\ trackers # {} => Sound(trackers)

\* A request to add torrents is answered without an error only if every one
\* of them got into Transmission.
AddTruthful == added \subseteq ever

\* A torrent that stays in Transmission gets all the configured trackers, if
\* from some time on no task begins before the previous one has ended.
TrackersArrive ==
    <>[](Cardinality({k \in Task : at[k] # "idle"}) <= 1) =>
        \A t \in Torrent : t \in tr ~> (Default \subseteq list[t] \/ t \notin tr)

\* The configured trackers are added to the torrents, whatever becomes of the
\* subscribed list.
DefaultsUsed ==
    \A t \in Torrent : t \in tr ~> (Default \subseteq list[t] \/ t \notin tr)
=============================================================================
