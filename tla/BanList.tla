------------------------------ MODULE BanList ------------------------------
(***************************************************************************)
(* The ban path of the proxy: AppUsecase (internal/domain/app.go), its     *)
(* record of banned addresses (internal/data/banip.go) and the nftables    *)
(* connection it shares (internal/data/infra.go).                          *)
(*                                                                         *)
(* HTTP handlers run concurrently.  They share two unlocked maps           *)
(* (banlistIPV4, banlistIPV6) and ONE nftables.Conn.  The connection       *)
(* buffers messages; Flush sends the whole buffer, whoever queued it, as   *)
(* one all-or-nothing batch, empties the buffer whatever the outcome, and  *)
(* returns nil at once when the buffer is already empty.  The sets live in *)
(* the kernel and survive a crash of the process.                          *)
(***************************************************************************)
EXTENDS Naturals, Sequences

CONSTANTS
    Handler,        \* concurrent HTTP requests being served
    V4, V6,         \* addresses, in the canonical form of net.IP.String
    NoIP,           \* what net.ParseIP returns for text that is no address
    Addr,           \* the spellings clients send
    IPOf,           \* net.ParseIP: from a spelling to its address, or NoIP
    Requests,       \* the lists of spellings a client may send, as sets
    Ops,            \* use-case operations in use
    MayRefuse       \* whether the kernel may refuse a well-formed batch

IP == V4 \cup V6

ASSUME AddressAssumption ==
    /\ V4 \cap V6 = {}
    /\ NoIP \notin IP
    /\ IPOf \in [Addr -> IP \cup {NoIP}]
    /\ Requests \subseteq SUBSET Addr

ASSUME OpsAssumption ==
    /\ Ops \subseteq {"ban", "unban", "update"}
    /\ MayRefuse \in BOOLEAN

VARIABLES
    up,             \* is the process running?
    banlistIPV4,    \* keys of banIPDao.banlistIPV4 (the ban times: PeerView)
    banlistIPV6,    \* keys of banIPDao.banlistIPV6
    kernel,         \* elements of the kernel sets trp_black_ipv4 and _ipv6
    staged,         \* what the sets would hold once the buffer is applied
    batch,          \* the buffer of nftables.Conn: see Batch
    pc,             \* where each handler is
    op,             \* the use-case operation it runs
    want,           \* the valid addresses of its request
    todo,           \* the repository calls it still has to make
    acked,          \* addresses reported to a client as banned
    lost            \* history: addresses whose messages were discarded when
                    \* another request's flush was refused, until the kernel
                    \* gets them after all

vars == <<up, banlistIPV4, banlistIPV6, kernel, staged, batch,
          pc, op, want, todo, acked, lost>>
record == <<banlistIPV4, banlistIPV6>>
nft == <<kernel, staged, batch, lost>>
request == <<op, want>>

\* "refused": the buffer holds a message the kernel is bound to refuse.
Batch == {"empty", "queued", "refused"}

Call == [repo : {"ban", "unban", "clear"}, ips : SUBSET IP]

Init ==
    /\ up = TRUE
    /\ banlistIPV4 = {} /\ banlistIPV6 = {}
    /\ kernel = {} /\ staged = {} /\ batch = "empty"
    /\ pc = [h \in Handler |-> "idle"]
    /\ op = [h \in Handler |-> "ban"]
    /\ want = [h \in Handler |-> {}]
    /\ todo = [h \in Handler |-> <<>>]
    /\ acked = {} /\ lost = {}

-----------------------------------------------------------------------------
(* The use-case operations.                                                *)

\* Faulty variant: text that is no address is kept.
ParseKeepsJunk(req) == {IPOf[a] : a \in req}

Parse(req) == {IPOf[a] : a \in req} \ {NoIP}

\* One repository call, or none when there is no address for it.
CallIf(repo, S) == IF S = {} THEN <<>> ELSE <<[repo |-> repo, ips |-> S]>>

\* BanIP keeps the addresses that are not recorded, UnbanIP those that are.
Filter(o, S, recorded) == IF o = "ban" THEN S \ recorded ELSE S \cap recorded

\* A request arrives; the handler sorts its addresses into v4 and v6.
Receive(h, o, req) ==
    /\ up /\ pc[h] = "idle"
    /\ op' = [op EXCEPT ![h] = o]
    /\ want' = [want EXCEPT ![h] = Parse(req)]
    /\ pc' = [pc EXCEPT ![h] = IF o = "update" THEN "forget" ELSE "status4"]
    /\ UNCHANGED <<up, record, nft, todo, acked>>

\* The qBittorrent preferences may carry addresses, too (banned_IPs): the same
\* BanIP, after the listen port has been set.
SetPreferences(h, req) ==
    /\ up /\ pc[h] = "idle" /\ "ban" \in Ops
    /\ op' = [op EXCEPT ![h] = "ban"]
    /\ want' = [want EXCEPT ![h] = Parse(req)]
    /\ pc' = [pc EXCEPT ![h] = "port"]
    /\ UNCHANGED <<up, record, nft, todo, acked>>

\* Transmission takes the port; or it does not, and the request ends with an
\* error before any address is looked at.
SetPort(h) ==
    /\ pc[h] = "port"
    /\ pc' = [pc EXCEPT ![h] = "status4"]
    /\ UNCHANGED <<up, record, nft, request, todo, acked>>

SetPortFails(h) ==
    /\ pc[h] = "port"
    /\ pc' = [pc EXCEPT ![h] = "idle"]
    /\ UNCHANGED <<up, record, nft, request, todo, acked>>

Status4(h) ==
    /\ pc[h] = "status4"
    /\ todo' = [todo EXCEPT
           ![h] = CallIf(op[h], Filter(op[h], want[h] \cap V4, banlistIPV4))]
    /\ pc' = [pc EXCEPT ![h] = "status6"]
    /\ UNCHANGED <<up, record, nft, request, acked>>

\* Faulty variant: the v6 list overwrites the v4 one.
Status6Overwrites(h) ==
    /\ pc[h] = "status6"
    /\ todo' = [todo EXCEPT
           ![h] = CallIf(op[h], Filter(op[h], want[h] \cap V6, banlistIPV6))]
    /\ pc' = [pc EXCEPT ![h] = "queue"]
    /\ UNCHANGED <<up, record, nft, request, acked>>

Status6(h) ==
    /\ pc[h] = "status6"
    /\ todo' = [todo EXCEPT
           ![h] = @ \o CallIf(op[h], Filter(op[h], want[h] \cap V6, banlistIPV6))]
    /\ pc' = [pc EXCEPT ![h] = "queue"]
    /\ UNCHANGED <<up, record, nft, request, acked>>

\* UpBanIPList starts with ClearBanList, which forgets before it flushes.
Forget(h) ==
    /\ pc[h] = "forget"
    /\ banlistIPV4' = {} /\ banlistIPV6' = {}
    /\ todo' = [todo EXCEPT ![h] =
           <<[repo |-> "clear", ips |-> {}],
             [repo |-> "ban", ips |-> want[h] \cap V4],
             [repo |-> "ban", ips |-> want[h] \cap V6]>>]
    /\ pc' = [pc EXCEPT ![h] = "queue"]
    /\ UNCHANGED <<up, nft, request, acked>>

-----------------------------------------------------------------------------
(* One repository call: append to the shared buffer, flush it, record.     *)

\* Faulty variant: the batch replaces the set instead of adding to it.
StageReplace(S) ==
    /\ staged' = S
    /\ batch' = IF batch = "refused" THEN "refused" ELSE "queued"

StageAdd(S) ==
    /\ staged' = staged \cup S
    /\ batch' = IF batch = "refused" THEN "refused" ELSE "queued"

\* Deleting an element that is not in the set fails the whole batch.
StageDelete(S) ==
    /\ staged' = staged \ S
    /\ batch' = IF batch = "refused" \/ ~ S \subseteq staged
                THEN "refused" ELSE "queued"

\* ClearBanList deletes sets the drop rules look up: the kernel refuses.
StageClear ==
    /\ staged' = staged
    /\ batch' = "refused"

\* Faulty variant: the ban is recorded before it is flushed.
QueueRecords(h) ==
    /\ pc[h] = "queue" /\ todo[h] # <<>>
    /\ LET c == Head(todo[h]) IN
           /\ c.repo = "ban" /\ StageAdd(c.ips)
           /\ banlistIPV4' = banlistIPV4 \cup c.ips
    /\ pc' = [pc EXCEPT ![h] = "flush"]
    /\ UNCHANGED <<up, banlistIPV6, kernel, lost, todo, request, acked>>

Queue(h) ==
    /\ pc[h] = "queue" /\ todo[h] # <<>>
    /\ LET c == Head(todo[h]) IN
           \/ c.repo = "ban" /\ StageAdd(c.ips)
           \/ c.repo = "unban" /\ StageDelete(c.ips)
           \/ c.repo = "clear" /\ StageClear
    /\ pc' = [pc EXCEPT ![h] = "flush"]
    /\ UNCHANGED <<up, record, kernel, lost, todo, request, acked>>

\* Flush returns nil: the batch was applied, or there was nothing to send
\* (an empty buffer has staged = kernel), whoever sent or lost it.
FlushOk(h) ==
    /\ pc[h] = "flush"
    /\ batch # "refused"
    /\ kernel' = staged /\ lost' = lost \ kernel'
    /\ batch' = "empty"
    /\ pc' = [pc EXCEPT ![h] = "record"]
    /\ UNCHANGED <<up, record, staged, todo, request, acked>>

Refused == batch = "refused" \/ (batch = "queued" /\ MayRefuse)

\* The addresses other handlers have queued for a ban and not yet flushed.
OthersBans(h) ==
    UNION {Head(todo[g]).ips :
               g \in {f \in Handler \ {h} : pc[f] = "flush" /\ Head(todo[f]).repo = "ban"}}

\* Faulty variant: the buffer survives the error.
FlushErrKeepsBuffer(h) ==
    /\ pc[h] = "flush" /\ Refused
    /\ pc' = [pc EXCEPT ![h] = "idle"]
    /\ todo' = [todo EXCEPT ![h] = <<>>]
    /\ UNCHANGED <<up, record, nft, request, acked>>

\* Flush returns an error: the buffer is emptied all the same, the messages
\* of other handlers included, and the request is answered with the error.
FlushErr(h) ==
    /\ pc[h] = "flush" /\ Refused
    /\ staged' = kernel
    /\ batch' = "empty"
    /\ lost' = lost \cup (OthersBans(h) \ kernel)
    /\ pc' = [pc EXCEPT ![h] = "idle"]
    /\ todo' = [todo EXCEPT ![h] = <<>>]
    /\ UNCHANGED <<up, record, kernel, request, acked>>

\* All four of BanIPV4/6 and UnbanIPV4/6 store a time in banlistIPV4.
Record(h) ==
    /\ pc[h] = "record"
    /\ banlistIPV4' = banlistIPV4 \cup Head(todo[h]).ips
    /\ todo' = [todo EXCEPT ![h] = Tail(@)]
    /\ pc' = [pc EXCEPT ![h] = "queue"]
    /\ UNCHANGED <<up, banlistIPV6, nft, request, acked>>

\* Faulty variant: success is reported after the first call.
AnswerEarly(h) ==
    /\ pc[h] = "queue"
    /\ acked' = acked \cup want[h]
    /\ pc' = [pc EXCEPT ![h] = "idle"]
    /\ UNCHANGED <<up, record, nft, request, todo>>

\* Every call returned nil: the client is told its request succeeded.
Answer(h) ==
    /\ pc[h] = "queue" /\ todo[h] = <<>>
    /\ acked' = CASE op[h] = "ban"    -> acked \cup want[h]
                  [] op[h] = "unban"  -> acked \ want[h]
                  [] op[h] = "update" -> want[h]
    /\ pc' = [pc EXCEPT ![h] = "idle"]
    /\ UNCHANGED <<up, record, nft, request, todo>>

-----------------------------------------------------------------------------
(* Life and death of the process.                                          *)

\* The process is gone: its maps and buffer with it, the kernel sets not.
Die ==
    /\ up' = FALSE
    /\ banlistIPV4' = {} /\ banlistIPV6' = {}
    /\ batch' = "empty"
    /\ staged' = kernel' /\ lost' = lost \cap acked'
    /\ pc' = [h \in Handler |-> "idle"]
    /\ todo' = [h \in Handler |-> <<>>]
    /\ UNCHANGED request

Crash ==
    /\ up
    /\ UNCHANGED <<kernel, acked>>
    /\ Die

\* The maps have no lock.  Two handlers at the same map, one of them writing,
\* may make the Go runtime kill the process; the other outcome, one access
\* after the other, is the ordinary interleaving.
TouchesMap(h) == pc[h] \in {"status4", "record"}
MapRace ==
    /\ up
    /\ \E h, g \in Handler : h # g /\ pc[h] = "record" /\ TouchesMap(g)
    /\ UNCHANGED <<kernel, acked>>
    /\ Die

\* SIGTERM: the clean-up function of NewInfra deletes chains, sets, tables.
Stop ==
    /\ up
    /\ \/ batch # "refused" /\ kernel' = {}
       \/ (batch = "refused" \/ MayRefuse) /\ kernel' = kernel
    /\ acked' = {}
    /\ Die

\* Faulty variant: NewInfra recreates the sets it finds.
StartRecreates ==
    /\ ~up
    /\ up' = TRUE
    /\ kernel' = {} /\ staged' = {}
    /\ UNCHANGED <<record, batch, lost, pc, request, todo, acked>>

\* NewInfra finds the sets of an earlier run or creates them empty;
\* NewBanIPDao starts with empty maps.
Start ==
    /\ ~up
    /\ up' = TRUE
    /\ UNCHANGED <<record, nft, pc, request, todo, acked>>

-----------------------------------------------------------------------------
Step(h) ==
    \/ SetPort(h) \/ SetPortFails(h) \/ Status4(h) \/ Status6(h) \/ Forget(h)
    \/ Queue(h) \/ FlushOk(h) \/ FlushErr(h) \/ Record(h) \/ Answer(h)

Next ==
    \/ \E h \in Handler, o \in Ops, req \in Requests : Receive(h, o, req)
    \/ \E h \in Handler, req \in Requests : SetPreferences(h, req)
    \/ \E h \in Handler : Step(h)
    \/ Crash \/ MapRace \/ Stop \/ Start

Spec == Init /\ [][Next]_vars

\* A goroutine that can run does; a kernel that refuses a well-formed batch
\* does not refuse every batch with a given address forever.
FlushOkFor(h, ip) ==
    todo[h] # <<>> /\ ip \in Head(todo[h]).ips /\ FlushOk(h)
Fairness ==
    \A h \in Handler :
        /\ WF_vars(Step(h))
        /\ \A ip \in IP : SF_vars(FlushOkFor(h, ip))

FairSpec == Spec /\ Fairness

-----------------------------------------------------------------------------
(* Properties.                                                             *)

\* Every variable has its type; a request holds parsed addresses only.
TypeOK ==
    /\ up \in BOOLEAN
    /\ banlistIPV4 \subseteq IP /\ banlistIPV6 \subseteq IP
    /\ {kernel, staged, acked, lost} \subseteq SUBSET IP
    /\ batch \in Batch
    /\ pc \in [Handler -> {"idle", "port", "status4", "status6", "forget",
                           "queue", "flush", "record"}]
    /\ op \in [Handler -> {"ban", "unban", "update"}]
    /\ want \in [Handler -> SUBSET IP]
    /\ todo \in [Handler -> Seq(Call)]

\* BanIP skips the addresses that are recorded (app.go:62), so a record of
\* an address the kernel does not drop makes it unbannable for good.  There is
\* one way to such a record: the address was in a batch of several requests
\* that the kernel refused, and its own request did not hear of it.
RecordedOrLost == banlistIPV4 \ kernel \subseteq lost

\* An address reported as banned is dropped by the kernel, across requests
\* that share the buffer, crashes and restarts, unless it was lost that way.
AckedOrLost == acked \ kernel \subseteq lost

\* BanIPV4 and BanIPV6 ban the addresses they are given (domain.go:27): what a
\* client was told is banned is dropped.
AckedIsDropped == acked \subseteq kernel

\* Whatever a request queued is sent or discarded before it is answered:
\* no message waits in the buffer for an unrelated request to send it.
NothingLeftQueued ==
    (\A h \in Handler : pc[h] # "flush") => batch = "empty" /\ staged = kernel

\* The kernel stops dropping an address only because a request in flight
\* asked to unban it, or because the proxy shuts down.
Unbanning(h, ip) ==
    /\ pc[h] = "flush"
    /\ Head(todo[h]).repo = "unban"
    /\ ip \in Head(todo[h]).ips
OnlyUnbanLifts ==
    [][\A ip \in kernel : ip \in kernel'
           \/ ~up'
           \/ \E h \in Handler : Unbanning(h, ip)]_vars

\* A client that keeps asking for an address to be banned, as PeerBanHelper
\* does, gets it dropped for good even if the kernel refuses now and then; or
\* its ban was lost and is on record all the same, and no retry will help.
Asked(ip) == \E h \in Handler : pc[h] = "status4" /\ ip \in want[h]
RetriesConverge ==
    \A ip \in IP : (<>[]up /\ []<>Asked(ip)) => <>[](ip \in kernel \cup (lost \cap banlistIPV4))

\* What a handler's request still has to do, from the look-up of the statuses to
\* the answer.
Ips(calls) == UNION {calls[i].ips : i \in 1..Len(calls)}
Calling(h) == pc[h] \in {"queue", "flush", "record"}
Wanted(h) == IF Calling(h) THEN want[h] ELSE {}
Flushed(h) == IF pc[h] = "record" THEN Head(todo[h]).ips ELSE {}
Queued(h) == IF Calling(h) THEN Ips(todo[h]) \ Flushed(h) ELSE {}

\* The ban requests of one life of the process.
Life == INSTANCE BanRequests WITH
    Banner <- Handler,
    recorded <- banlistIPV4,
    wanted <- [h \in Handler |-> Wanted(h)],
    queued <- [h \in Handler |-> Queued(h)],
    flushed <- [h \in Handler |-> Flushed(h)]

\* From each start of the process to its end, ban requests do to the kernel and
\* the record what those who read the record rely on: a request records what it
\* has flushed, and all it was asked for before it succeeds.
FeedsRecord ==
    /\ Life!BanInit
    /\ [][up' => IF up THEN [Life!BanNext]_(Life!banVars) ELSE Life!BanInit']_vars

\* The ban path keeps the promise of BanContract.
Contract == INSTANCE BanContract WITH dropped <- kernel
KeepsContract == Contract!Spec
-----------------------------------------------------------------------------
(* Conditions and strengthenings, for the proofs in BanListProofs.         *)

\* A handler that looks statuses up runs BanIP or UnbanIP.
StatusOps ==
    \A h \in Handler :
        pc[h] \in {"port", "status4", "status6"} => op[h] # "update"

\* A handler between Queue and Record has a call in hand.
CallInHand ==
    \A h \in Handler : pc[h] \in {"flush", "record"} => todo[h] # <<>>

\* An address staged for removal belongs to an unban request in flight.
LostOnlyByUnban ==
    /\ batch = "empty" => staged = kernel
    /\ \A ip \in kernel \ staged : \E h \in Handler : Unbanning(h, ip)

\* The proxy as it is wired: no handler calls UnbanIP or UpBanIPList.
Wired == Ops = {"ban"}
=============================================================================
