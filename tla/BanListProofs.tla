--------------------------- MODULE BanListProofs ---------------------------
(***************************************************************************)
(* Proofs about BanList, for every set of handlers and addresses.          *)
(***************************************************************************)
EXTENDS BanList, TLAPS

\* Parsing yields addresses of the two families only.
LEMMA ParseType ==
    ASSUME NEW req \in Requests
    PROVE  Parse(req) \in SUBSET IP
BY AddressAssumption DEF Parse, IP

\* CallIf yields a sequence of at most one call.
LEMMA CallIfType ==
    ASSUME NEW repo \in {"ban", "unban", "clear"}, NEW S \in SUBSET IP
    PROVE  CallIf(repo, S) \in Seq(Call)
<1>1. CASE S = {}
  BY <1>1 DEF CallIf
<1>2. CASE S # {}
  <2>1. [repo |-> repo, ips |-> S] \in Call
    BY DEF Call
  <2>2. <<[repo |-> repo, ips |-> S]>> \in Seq(Call)
    BY <2>1
  <2> QED BY <1>2, <2>2 DEF CallIf
<1> QED BY <1>1, <1>2

\* The filters of BanIP and UnbanIP only remove addresses.
LEMMA FilterType ==
    ASSUME NEW o, NEW S \in SUBSET IP, NEW R \in SUBSET IP
    PROVE  Filter(o, S, R) \in SUBSET IP
BY DEF Filter

\* Types are kept by every step, together with the operation a handler that
\* looks statuses up can be running.
TypeInv == TypeOK /\ StatusOps /\ CallInHand

\* Handlers queue addresses.
LEMMA OthersBansType ==
    ASSUME TypeInv, NEW h \in Handler
    PROVE  OthersBans(h) \subseteq IP
<1>1. ASSUME NEW g \in Handler, pc[g] = "flush"
      PROVE  Head(todo[g]).ips \subseteq IP
  <2>1. todo[g] \in Seq(Call) /\ todo[g] # <<>>
    BY <1>1 DEF TypeInv, TypeOK, CallInHand
  <2>2. Head(todo[g]) \in Call
    BY <2>1
  <2> QED BY <2>2 DEF Call
<1> QED BY <1>1 DEF OthersBans

\* Every step keeps the types.
LEMMA TypeStep == TypeInv /\ [Next]_vars => TypeInv'
<1> SUFFICES ASSUME TypeInv, [Next]_vars PROVE TypeInv'
  OBVIOUS
<1> USE DEF TypeInv, TypeOK, StatusOps, CallInHand, record, nft, request
<1>1. ASSUME NEW h \in Handler, NEW o \in Ops, NEW req \in Requests,
             Receive(h, o, req)
      PROVE  TypeInv'
  BY <1>1, ParseType, OpsAssumption DEF Receive
<1>a. ASSUME NEW h \in Handler, NEW req \in Requests, SetPreferences(h, req)
      PROVE  TypeInv'
  BY <1>a, ParseType DEF SetPreferences
<1>b. ASSUME NEW h \in Handler, SetPort(h) \/ SetPortFails(h) PROVE TypeInv'
  BY <1>b DEF SetPort, SetPortFails
<1>2. ASSUME NEW h \in Handler, Status4(h) PROVE TypeInv'
  <2>1. op[h] \in {"ban", "unban", "clear"}
    BY <1>2 DEF Status4
  <2>2. CallIf(op[h], Filter(op[h], want[h] \cap V4, banlistIPV4)) \in Seq(Call)
    BY <2>1, CallIfType, FilterType
  <2> QED BY <1>2, <2>2 DEF Status4
<1>3. ASSUME NEW h \in Handler, Status6(h) PROVE TypeInv'
  <2>1. op[h] \in {"ban", "unban", "clear"}
    BY <1>3 DEF Status6
  <2>2. CallIf(op[h], Filter(op[h], want[h] \cap V6, banlistIPV6)) \in Seq(Call)
    BY <2>1, CallIfType, FilterType
  <2>3. todo[h] \o CallIf(op[h], Filter(op[h], want[h] \cap V6, banlistIPV6))
          \in Seq(Call)
    BY <2>2
  <2> QED BY <1>3, <2>3 DEF Status6
<1>4. ASSUME NEW h \in Handler, Forget(h) PROVE TypeInv'
  <2>1. /\ [repo |-> "clear", ips |-> {}] \in Call
        /\ [repo |-> "ban", ips |-> want[h] \cap V4] \in Call
        /\ [repo |-> "ban", ips |-> want[h] \cap V6] \in Call
    BY DEF Call
  <2>2. <<[repo |-> "clear", ips |-> {}],
          [repo |-> "ban", ips |-> want[h] \cap V4],
          [repo |-> "ban", ips |-> want[h] \cap V6]>> \in Seq(Call)
    BY <2>1
  <2> QED BY <1>4, <2>2 DEF Forget
<1>5. ASSUME NEW h \in Handler, Queue(h) PROVE TypeInv'
  <2>1. Head(todo[h]).ips \in SUBSET IP
    <3>1. Head(todo[h]) \in Call
      BY <1>5 DEF Queue
    <3> QED BY <3>1 DEF Call
  <2>2. staged' \in SUBSET IP /\ batch' \in Batch
    BY <1>5, <2>1 DEF Queue, StageAdd, StageDelete, StageClear, Batch
  <2> QED BY <1>5, <2>2 DEF Queue
<1>6. ASSUME NEW h \in Handler, FlushOk(h) PROVE TypeInv'
  BY <1>6 DEF FlushOk, Batch
<1>7. ASSUME NEW h \in Handler, FlushErr(h) PROVE TypeInv'
  BY <1>7, OthersBansType DEF FlushErr, Batch
<1>8. ASSUME NEW h \in Handler, Record(h) PROVE TypeInv'
  <2>1. Head(todo[h]).ips \in SUBSET IP /\ Tail(todo[h]) \in Seq(Call)
    <3>1. Head(todo[h]) \in Call /\ Tail(todo[h]) \in Seq(Call)
      BY <1>8 DEF Record
    <3> QED BY <1>8, <3>1 DEF Call
  <2> QED BY <1>8, <2>1 DEF Record
<1>9. ASSUME NEW h \in Handler, Answer(h) PROVE TypeInv'
  BY <1>9 DEF Answer
<1>10. ASSUME Die, kernel' \in SUBSET IP, acked' \in SUBSET IP PROVE TypeInv'
  <2>1. todo' \in [Handler -> Seq(Call)]
    <3>1. <<>> \in Seq(Call)
      OBVIOUS
    <3> QED BY <1>10, <3>1 DEF Die
  <2>2. /\ up' \in BOOLEAN /\ batch' \in Batch
        /\ banlistIPV4' \subseteq IP /\ banlistIPV6' \subseteq IP
        /\ staged' \subseteq IP
    BY <1>10 DEF Die, Batch
  <2>3. pc' \in [Handler -> {"idle", "port", "status4", "status6", "forget",
                            "queue", "flush", "record"}]
    BY <1>10 DEF Die
  <2>4. \A h \in Handler : pc'[h] = "idle"
    BY <1>10 DEF Die
  <2> QED BY <1>10, <2>1, <2>2, <2>3, <2>4 DEF Die
<1>11. ASSUME Crash \/ MapRace \/ Stop PROVE TypeInv'
  <2>1. Die /\ kernel' \in SUBSET IP /\ acked' \in SUBSET IP
    BY <1>11 DEF Crash, MapRace, Stop
  <2> QED BY <2>1, <1>10
<1>12. ASSUME Start PROVE TypeInv'
  BY <1>12 DEF Start
<1>13. ASSUME UNCHANGED vars PROVE TypeInv'
  BY <1>13 DEF vars
<1> QED BY <1>1, <1>a, <1>b, <1>2, <1>3, <1>4, <1>5, <1>6, <1>7, <1>8, <1>9,
           <1>11, <1>12, <1>13 DEF Next, Step

\* The type invariant holds for every value of the constants: whatever the
\* operations and however many handlers, only parsed addresses are handled.
THEOREM TypeCorrect == Spec => []TypeOK
<1>1. Init => TypeInv
  BY DEF Init, TypeInv, TypeOK, Batch, StatusOps, CallInHand
<1>2. TypeInv => TypeOK
  BY DEF TypeInv
<1> QED BY <1>1, <1>2, TypeStep, PTL DEF Spec

\* So they hold always.
LEMMA TypeAlways == Spec => []TypeInv
<1>1. Init => TypeInv
  BY DEF Init, TypeInv, TypeOK, Batch, StatusOps, CallInHand
<1> QED BY <1>1, TypeStep, PTL DEF Spec

-----------------------------------------------------------------------------
(* The shared buffer, for every value of the constants.                    *)

\* A step of one handler that is not at its flush and leaves the connection
\* alone.
Elsewhere(h) ==
    /\ UNCHANGED nft
    /\ pc[h] # "flush" /\ pc'[h] # "flush"
    /\ \A g \in Handler \ {h} : pc'[g] = pc[g] /\ todo'[g] = todo[g]

\* These are the steps that are neither a Queue nor a flush.
LEMMA ElsewhereSteps ==
    ASSUME TypeInv, NEW h \in Handler,
           \/ \E o \in Ops, req \in Requests : Receive(h, o, req)
           \/ \E req \in Requests : SetPreferences(h, req)
           \/ SetPort(h) \/ SetPortFails(h)
           \/ Status4(h) \/ Status6(h) \/ Forget(h) \/ Record(h) \/ Answer(h)
    PROVE  Elsewhere(h) /\ up' = up
BY DEF TypeInv, TypeOK, Elsewhere, Receive, SetPreferences, SetPort,
       SetPortFails, Status4, Status6, Forget, Record,
       Answer, nft, record, request

\* Only an unban stages the removal of an address, and no other request's flush
\* ends it.
LEMMA LostStep ==
    TypeInv /\ LostOnlyByUnban /\ [Next]_vars => LostOnlyByUnban'
<1> SUFFICES ASSUME TypeInv, LostOnlyByUnban, [Next]_vars
             PROVE  LostOnlyByUnban'
  OBVIOUS
<1>1. ASSUME NEW h \in Handler, Elsewhere(h) PROVE LostOnlyByUnban'
  <2>1. \A g \in Handler, ip \in IP :
            Unbanning(g, ip) => g # h /\ Unbanning(g, ip)'
    BY <1>1 DEF Elsewhere, Unbanning
  <2>2. kernel' \ staged' = kernel \ staged /\ kernel \subseteq IP
    BY <1>1 DEF Elsewhere, nft, TypeInv, TypeOK
  <2> QED BY <1>1, <2>1, <2>2 DEF LostOnlyByUnban, Elsewhere, nft
<1>2. ASSUME NEW h \in Handler, Queue(h) PROVE LostOnlyByUnban'
  <2>1. batch' # "empty"
    BY <1>2 DEF Queue, StageAdd, StageDelete, StageClear
  <2>2. /\ pc[h] = "queue" /\ pc'[h] = "flush"
        /\ todo' = todo /\ kernel' = kernel
        /\ \A g \in Handler \ {h} : pc'[g] = pc[g]
    BY <1>2 DEF Queue, TypeInv, TypeOK
  <2>3. ASSUME NEW ip \in kernel' \ staged'
        PROVE  \E g \in Handler : Unbanning(g, ip)'
    <3>1. CASE ip \in kernel \ staged
      <4>1. PICK g \in Handler : Unbanning(g, ip)
        BY <3>1 DEF LostOnlyByUnban
      <4> QED BY <4>1, <2>2 DEF Unbanning
    <3>2. CASE ip \in staged
      <4>1. Head(todo[h]).repo = "unban" /\ ip \in Head(todo[h]).ips
        BY <1>2, <2>3, <3>2 DEF Queue, StageAdd, StageDelete, StageClear
      <4> QED BY <4>1, <2>2 DEF Unbanning
    <3> QED BY <3>1, <3>2, <2>2, <2>3
  <2> QED BY <2>1, <2>3 DEF LostOnlyByUnban
<1>3. ASSUME staged' = kernel' PROVE LostOnlyByUnban'
  BY <1>3 DEF LostOnlyByUnban
<1>4. ASSUME NEW h \in Handler, FlushOk(h) \/ FlushErr(h)
      PROVE  staged' = kernel'
  BY <1>4 DEF FlushOk, FlushErr
<1>5. ASSUME Crash \/ MapRace \/ Stop PROVE staged' = kernel'
  BY <1>5 DEF Crash, MapRace, Stop, Die
<1>6. ASSUME Start \/ UNCHANGED vars PROVE LostOnlyByUnban'
  BY <1>6 DEF Start, vars, nft, LostOnlyByUnban, Unbanning
<1> QED BY <1>1, <1>2, <1>3, <1>4, <1>5, <1>6, ElsewhereSteps DEF Next, Step

\* For every set of handlers and every mix of operations: what is staged lacks
\* an address of the kernel only while an unban that asked for it is in flight.
THEOREM LostInvariant == Spec => []LostOnlyByUnban
<1>1. Init => LostOnlyByUnban
  BY DEF Init, LostOnlyByUnban
<1> QED BY <1>1, LostStep, TypeAlways, PTL DEF Spec

\* For every set of handlers and every mix of operations, failing flushes
\* included: the kernel stops dropping an address only because a request in
\* flight unbans it, or because the process shuts down.
THEOREM UnbanOnly == Spec => OnlyUnbanLifts
<1>1. TypeInv /\ LostOnlyByUnban /\ [Next]_vars
        => [\A ip \in kernel : ip \in kernel'
               \/ ~up'
               \/ \E h \in Handler : Unbanning(h, ip)]_vars
  <2> SUFFICES ASSUME TypeInv, LostOnlyByUnban, Next, NEW ip \in kernel,
                      ip \notin kernel'
               PROVE  ~up' \/ \E h \in Handler : Unbanning(h, ip)
    OBVIOUS
  <2>1. CASE \E h \in Handler : FlushOk(h)
    BY <2>1 DEF FlushOk, LostOnlyByUnban
  <2>2. CASE Crash \/ MapRace \/ Stop
    BY <2>2 DEF Crash, MapRace, Stop, Die
  <2>3. CASE \E h \in Handler : Elsewhere(h)
    BY <2>3 DEF Elsewhere, nft
  <2>4. CASE Start \/ \E h \in Handler : Queue(h) \/ FlushErr(h)
    BY <2>4 DEF Start, Queue, FlushErr, nft
  <2> QED BY <2>1, <2>2, <2>3, <2>4, ElsewhereSteps DEF Next, Step
<1> QED BY <1>1, LostInvariant, TypeAlways, PTL DEF Spec, OnlyUnbanLifts

\* For every value of the constants, no message is left behind in the shared
\* buffer once every request that queued one has been answered.
THEOREM BufferDrained == Spec => []NothingLeftQueued
<1>1. Init => NothingLeftQueued
  BY DEF Init, NothingLeftQueued
<1>2. TypeInv /\ NothingLeftQueued /\ [Next]_vars => NothingLeftQueued'
  <2> SUFFICES ASSUME TypeInv, NothingLeftQueued, [Next]_vars
               PROVE  NothingLeftQueued'
    OBVIOUS
  <2>1. CASE \E h \in Handler : Elsewhere(h)
    BY <2>1 DEF Elsewhere, nft, NothingLeftQueued
  <2>2. CASE \E h \in Handler : Queue(h)
    BY <2>2 DEF Queue, NothingLeftQueued, TypeInv, TypeOK
  <2>3. CASE \E h \in Handler : FlushOk(h) \/ FlushErr(h)
    BY <2>3 DEF FlushOk, FlushErr, NothingLeftQueued
  <2>4. CASE Crash \/ MapRace \/ Stop
    BY <2>4 DEF Crash, MapRace, Stop, Die, NothingLeftQueued
  <2>5. CASE Start \/ UNCHANGED vars
    BY <2>5 DEF Start, vars, nft, NothingLeftQueued
  <2> QED BY <2>1, <2>2, <2>3, <2>4, <2>5, ElsewhereSteps DEF Next, Step
<1> QED BY <1>1, <1>2, TypeAlways, PTL DEF Spec

-----------------------------------------------------------------------------
(* The record and the answers, for the proxy as it is wired.               *)

AllBans(calls) == \A i \in 1..Len(calls) : calls[i].repo = "ban"

\* What has been made of the bans so far: they are in the kernel, or lost.
Made == kernel \cup lost

\* A handler's request is about bans only.  What it has been asked for is made,
\* or in a call still to be made; what it has queued is staged, unless another
\* request has sent it or lost it.
Committed(h) ==
    /\ AllBans(todo[h])
    /\ pc[h] # "forget"
    /\ pc[h] = "status6" => want[h] \cap V4 \subseteq Made \cup Ips(todo[h])
    /\ pc[h] \in {"queue", "flush", "record"}
           => want[h] \subseteq Made \cup Ips(todo[h])
    /\ pc[h] = "flush" => Head(todo[h]).ips \subseteq staged \cup lost
    /\ pc[h] = "record" => Head(todo[h]).ips \subseteq Made

\* An address is in the kernel, staged or lost before anything says it is
\* banned.
BanInv ==
    /\ TypeOK
    /\ batch # "refused"
    /\ batch = "empty" => staged = kernel
    /\ kernel \subseteq staged
    /\ banlistIPV6 = {}
    /\ RecordedOrLost
    /\ AckedOrLost
    /\ \A h \in Handler : op[h] = "ban" /\ Committed(h)

\* A call is for the addresses it is made for.
LEMMA IpsOfCallIf ==
    ASSUME NEW repo, NEW S
    PROVE  Ips(CallIf(repo, S)) = S
<1>1. CASE S = {}
  BY <1>1 DEF Ips, CallIf
<1>2. CASE S # {}
  <2>1. CallIf(repo, S) = <<[repo |-> repo, ips |-> S]>>
    BY <1>2 DEF CallIf
  <2>2. Len(CallIf(repo, S)) = 1 /\ CallIf(repo, S)[1].ips = S
    BY <2>1
  <2> QED BY <2>2 DEF Ips
<1> QED BY <1>1, <1>2

\* Calls are for the addresses of the first ones and of the others.
LEMMA IpsOfConcat ==
    ASSUME NEW s \in Seq(Call), NEW t \in Seq(Call)
    PROVE  Ips(s \o t) = Ips(s) \cup Ips(t)
<1>1. ASSUME NEW ip \in Ips(s \o t) PROVE ip \in Ips(s) \cup Ips(t)
  <2>1. PICK i \in 1..Len(s \o t) : ip \in (s \o t)[i].ips
    BY <1>1 DEF Ips
  <2>2. CASE i <= Len(s)
    BY <2>1, <2>2 DEF Ips
  <2>3. CASE i > Len(s)
    <3>1. i - Len(s) \in 1..Len(t) /\ (s \o t)[i] = t[i - Len(s)]
      BY <2>1, <2>3
    <3> QED BY <3>1, <2>1 DEF Ips
  <2> QED BY <2>1, <2>2, <2>3
<1>2. ASSUME NEW ip \in Ips(s) PROVE ip \in Ips(s \o t)
  <2>1. PICK i \in 1..Len(s) : ip \in s[i].ips
    BY <1>2 DEF Ips
  <2>2. i \in 1..Len(s \o t) /\ (s \o t)[i] = s[i]
    BY <2>1
  <2> QED BY <2>1, <2>2 DEF Ips
<1>3. ASSUME NEW ip \in Ips(t) PROVE ip \in Ips(s \o t)
  <2>1. PICK i \in 1..Len(t) : ip \in t[i].ips
    BY <1>3 DEF Ips
  <2>2. /\ i + Len(s) \in 1..Len(s \o t)
        /\ (s \o t)[i + Len(s)] = t[i]
    BY <2>1
  <2> QED BY <2>1, <2>2 DEF Ips
<1> QED BY <1>1, <1>2, <1>3

\* Calls are for the addresses of the next one and of the rest.
LEMMA IpsOfTail ==
    ASSUME NEW s \in Seq(Call), s # <<>>
    PROVE  Ips(s) \subseteq Head(s).ips \cup Ips(Tail(s))
<1> SUFFICES ASSUME NEW ip \in Ips(s), ip \notin Head(s).ips
             PROVE  ip \in Ips(Tail(s))
  OBVIOUS
<1>1. PICK i \in 1..Len(s) : ip \in s[i].ips
  BY DEF Ips
<1>2. i # 1
  BY <1>1
<1>3. i - 1 \in 1..Len(Tail(s)) /\ Tail(s)[i - 1] = s[i]
  BY <1>1, <1>2
<1> QED BY <1>1, <1>3 DEF Ips

\* A call of BanIP is a ban.
LEMMA AllBansCallIf ==
    ASSUME NEW S
    PROVE  AllBans(CallIf("ban", S))
BY DEF AllBans, CallIf

\* Bans followed by bans.
LEMMA AllBansConcat ==
    ASSUME NEW s \in Seq(Call), NEW t \in Seq(Call), AllBans(s), AllBans(t)
    PROVE  AllBans(s \o t)
<1> SUFFICES ASSUME NEW i \in 1..Len(s \o t) PROVE (s \o t)[i].repo = "ban"
  BY DEF AllBans
<1>1. CASE i <= Len(s)
  BY <1>1 DEF AllBans
<1>2. CASE i > Len(s)
  <2>1. i - Len(s) \in 1..Len(t) /\ (s \o t)[i] = t[i - Len(s)]
    BY <1>2
  <2> QED BY <2>1 DEF AllBans
<1> QED BY <1>1, <1>2

\* The next call is a ban, and so are the rest.
LEMMA AllBansTail ==
    ASSUME NEW s \in Seq(Call), s # <<>>, AllBans(s)
    PROVE  Head(s).repo = "ban" /\ AllBans(Tail(s))
<1>1. Head(s).repo = "ban"
  BY DEF AllBans
<1>2. ASSUME NEW i \in 1..Len(Tail(s)) PROVE Tail(s)[i].repo = "ban"
  <2>1. i + 1 \in 1..Len(s) /\ Tail(s)[i] = s[i + 1]
    BY <1>2
  <2> QED BY <2>1 DEF AllBans
<1> QED BY <1>1, <1>2 DEF AllBans

\* A step that undoes nothing of what is made or staged keeps what the other
\* handlers are committed to.
LEMMA OthersCommitted ==
    ASSUME BanInv, NEW h \in Handler, NEW g \in Handler \ {h},
           Made \subseteq Made', staged \cup lost \subseteq (staged \cup lost)',
           UNCHANGED <<pc[g], todo[g], want[g], op[g]>>
    PROVE  op'[g] = "ban" /\ Committed(g)'
<1>1. op[g] = "ban" /\ Committed(g)
  BY DEF BanInv
<1> QED BY <1>1 DEF Committed

\* Every step keeps the invariant: what makes something true of the record or an
\* answer is a flush that came before.
LEMMA BanStep ==
    ASSUME Wired, TypeInv, TypeInv', BanInv, [Next]_vars
    PROVE  BanInv'
<1> USE DEF TypeInv, TypeOK, request, record, nft
<1>o. Ops = {"ban"}
  BY DEF Wired
<1>1. ASSUME NEW h \in Handler, NEW o \in Ops, NEW req \in Requests,
             Receive(h, o, req)
      PROVE  BanInv'
  <2>1. /\ pc'[h] = "status4" /\ op'[h] = "ban"
        /\ UNCHANGED <<todo, nft, record, acked>>
    BY <1>1, <1>o DEF Receive
  <2>2. Committed(h)'
    BY <2>1 DEF Committed, BanInv
  <2>3. \A g \in Handler \ {h} : op'[g] = "ban" /\ Committed(g)'
    BY <1>1, OthersCommitted DEF Receive, Made
  <2> QED BY <2>1, <2>2, <2>3 DEF BanInv, RecordedOrLost, AckedOrLost
<1>a. ASSUME NEW h \in Handler,
             \/ \E req \in Requests : SetPreferences(h, req)
             \/ SetPort(h) \/ SetPortFails(h)
      PROVE  BanInv'
  <2>1. /\ pc'[h] \in {"port", "status4", "idle"} /\ op'[h] = "ban"
        /\ UNCHANGED <<todo, nft, record, acked>>
        /\ pc[h] \in {"idle", "port"}
    BY <1>a DEF SetPreferences, SetPort, SetPortFails, BanInv
  <2>2. Committed(h)'
    BY <2>1 DEF Committed, BanInv
  <2>3. \A g \in Handler \ {h} : op'[g] = "ban" /\ Committed(g)'
    <3> SUFFICES ASSUME NEW g \in Handler \ {h}
                 PROVE  op'[g] = "ban" /\ Committed(g)'
      OBVIOUS
    <3>1. UNCHANGED <<pc[g], todo[g], want[g], op[g], kernel, staged, lost>>
      BY <1>a DEF SetPreferences, SetPort, SetPortFails
    <3> QED BY <3>1, OthersCommitted DEF Made
  <2> QED BY <2>1, <2>2, <2>3 DEF BanInv, RecordedOrLost, AckedOrLost
<1>2. ASSUME NEW h \in Handler, Status4(h) PROVE BanInv'
  <2> DEFINE S == (want[h] \cap V4) \ banlistIPV4
  <2>1. /\ todo'[h] = CallIf("ban", S) /\ pc'[h] = "status6"
        /\ op'[h] = "ban"
        /\ UNCHANGED <<want, nft, record, acked>>
    BY <1>2 DEF Status4, BanInv, Filter
  <2>2. AllBans(todo'[h]) /\ Ips(todo'[h]) = S
    BY <2>1, AllBansCallIf, IpsOfCallIf
  <2>3. want[h] \cap V4 \subseteq Made \cup S
    BY DEF BanInv, RecordedOrLost, Made
  <2>4. Committed(h)'
    BY <2>1, <2>2, <2>3 DEF Committed, Made
  <2>5. \A g \in Handler \ {h} : op'[g] = "ban" /\ Committed(g)'
    BY <1>2, OthersCommitted DEF Status4, Made
  <2> QED BY <2>1, <2>4, <2>5 DEF BanInv, RecordedOrLost, AckedOrLost
<1>3. ASSUME NEW h \in Handler, Status6(h) PROVE BanInv'
  <2> DEFINE S == (want[h] \cap V6) \ banlistIPV6
             C == CallIf("ban", S)
  <2>1. /\ todo'[h] = todo[h] \o C /\ pc'[h] = "queue"
        /\ op'[h] = "ban"
        /\ UNCHANGED <<want, nft, record, acked>>
    BY <1>3 DEF Status6, BanInv, Filter
  <2>2. C \in Seq(Call) /\ todo[h] \in Seq(Call) /\ AllBans(todo[h])
    BY CallIfType DEF BanInv, Committed
  <2>3. AllBans(todo'[h]) /\ Ips(todo'[h]) = Ips(todo[h]) \cup S
    <3> HIDE DEF C
    <3>1. AllBans(C) /\ Ips(C) = S
      BY AllBansCallIf, IpsOfCallIf DEF C
    <3> QED BY <2>1, <2>2, <3>1, AllBansConcat, IpsOfConcat
  <2>4. want[h] \cap V4 \subseteq Made \cup Ips(todo[h])
    BY <1>3 DEF Status6, BanInv, Committed
  <2>5. want[h] \subseteq Made \cup Ips(todo'[h])
    BY <2>3, <2>4 DEF BanInv, IP
  <2>6. Committed(h)'
    BY <2>1, <2>3, <2>5 DEF Committed, Made
  <2>7. \A g \in Handler \ {h} : op'[g] = "ban" /\ Committed(g)'
    BY <1>3, OthersCommitted DEF Status6, Made
  <2> QED BY <2>1, <2>6, <2>7 DEF BanInv, RecordedOrLost, AckedOrLost
<1>4. ASSUME NEW h \in Handler, Forget(h) PROVE BanInv'
  BY <1>4 DEF Forget, BanInv, Committed
<1>5. ASSUME NEW h \in Handler, Queue(h) PROVE BanInv'
  <2>1. Head(todo[h]).repo = "ban"
    BY <1>5, AllBansTail DEF Queue, BanInv, Committed
  <2>2. /\ staged' = staged \cup Head(todo[h]).ips /\ batch' = "queued"
        /\ pc'[h] = "flush" /\ pc[h] = "queue"
        /\ UNCHANGED <<todo, want, op, kernel, lost, record, acked>>
    BY <1>5, <2>1 DEF Queue, StageAdd, BanInv
  <2>3. op'[h] = "ban" /\ Committed(h)'
    BY <2>2 DEF BanInv, Committed, Made
  <2>4. \A g \in Handler \ {h} : op'[g] = "ban" /\ Committed(g)'
    BY <1>5, <2>2, OthersCommitted DEF Queue, Made
  <2> QED BY <2>2, <2>3, <2>4 DEF BanInv, RecordedOrLost, AckedOrLost
<1>6. ASSUME NEW h \in Handler, FlushOk(h) PROVE BanInv'
  <2>1. /\ kernel' = staged /\ staged' = staged /\ batch' = "empty"
        /\ kernel \subseteq kernel' /\ lost' = lost \ kernel'
        /\ pc[h] = "flush" /\ pc'[h] = "record"
        /\ UNCHANGED <<todo, want, op, record, acked>>
    BY <1>6 DEF FlushOk, BanInv
  <2>2. op'[h] = "ban" /\ Committed(h)'
    BY <2>1 DEF BanInv, Committed, Made
  <2>3. \A g \in Handler \ {h} : op'[g] = "ban" /\ Committed(g)'
    BY <1>6, <2>1, OthersCommitted DEF FlushOk, Made
  <2> QED BY <2>1, <2>2, <2>3 DEF BanInv, RecordedOrLost, AckedOrLost
<1>7. ASSUME NEW h \in Handler, FlushErr(h) PROVE BanInv'
  <2>1. /\ staged' = kernel /\ batch' = "empty" /\ pc'[h] = "idle"
        /\ lost' = lost \cup (OthersBans(h) \ kernel)
        /\ todo'[h] = <<>> /\ op'[h] = "ban"
        /\ UNCHANGED <<kernel, record, acked>>
    BY <1>7 DEF FlushErr, BanInv
  <2>2. Committed(h)'
    BY <2>1 DEF Committed, AllBans
  <2>3. ASSUME NEW g \in Handler \ {h} PROVE op'[g] = "ban" /\ Committed(g)'
    <3>1. /\ UNCHANGED <<pc[g], todo[g], want, op>> /\ Made \subseteq Made'
          /\ op[g] = "ban" /\ Committed(g)
      BY <1>7, <2>1 DEF FlushErr, Made, BanInv
    <3>2. CASE pc[g] # "flush"
      BY <3>1, <3>2 DEF Committed
    <3>3. CASE pc[g] = "flush"
      <4>1. Head(todo[g]).repo = "ban"
        BY <3>1, <3>3, AllBansTail DEF CallInHand, Committed
      <4>2. Head(todo[g]).ips \subseteq OthersBans(h)
        BY <3>3, <4>1 DEF OthersBans
      <4>3. Head(todo[g]).ips \subseteq Made'
        BY <2>1, <4>2 DEF Made
      <4> QED BY <2>1, <3>1, <3>3, <4>3 DEF Committed, Made
    <3> QED BY <3>2, <3>3
  <2> QED BY <2>1, <2>2, <2>3 DEF BanInv, RecordedOrLost, AckedOrLost
<1>8. ASSUME NEW h \in Handler, Record(h) PROVE BanInv'
  <2> DEFINE c == Head(todo[h])
  <2>1. /\ banlistIPV4' = banlistIPV4 \cup c.ips
        /\ todo'[h] = Tail(todo[h]) /\ todo[h] # <<>>
        /\ pc[h] = "record" /\ pc'[h] = "queue"
        /\ UNCHANGED <<want, op, nft, banlistIPV6, acked>>
    BY <1>8 DEF Record, CallInHand
  <2>2. /\ c.ips \subseteq Made
        /\ want[h] \subseteq Made \cup Ips(todo[h])
        /\ AllBans(todo[h])
    BY <2>1 DEF BanInv, Committed
  <2>3. AllBans(todo'[h]) /\ want[h] \subseteq Made \cup Ips(todo'[h])
    BY <2>1, <2>2, AllBansTail, IpsOfTail
  <2>4. op'[h] = "ban" /\ Committed(h)'
    BY <2>1, <2>3 DEF BanInv, Committed, Made
  <2>5. \A g \in Handler \ {h} : op'[g] = "ban" /\ Committed(g)'
    BY <1>8, OthersCommitted DEF Record, Made
  <2> QED BY <2>1, <2>2, <2>4, <2>5
          DEF BanInv, RecordedOrLost, AckedOrLost, Made
<1>9. ASSUME NEW h \in Handler, Answer(h) PROVE BanInv'
  <2>1. /\ acked' = acked \cup want[h] /\ op'[h] = "ban"
        /\ todo[h] = <<>> /\ pc[h] = "queue" /\ pc'[h] = "idle"
        /\ UNCHANGED <<todo, want, nft, record>>
    BY <1>9 DEF Answer, BanInv
  <2>2. want[h] \subseteq Made
    BY <2>1 DEF BanInv, Committed, Ips
  <2>3. Committed(h)'
    BY <2>1 DEF BanInv, Committed
  <2>4. \A g \in Handler \ {h} : op'[g] = "ban" /\ Committed(g)'
    BY <1>9, OthersCommitted DEF Answer, Made
  <2> QED BY <2>1, <2>2, <2>3, <2>4
          DEF BanInv, RecordedOrLost, AckedOrLost, Made
<1>10. ASSUME Crash \/ MapRace \/ Stop PROVE BanInv'
  <2>1. /\ staged' = kernel' /\ batch' = "empty"
        /\ banlistIPV4' = {} /\ banlistIPV6' = {} /\ op' = op
        /\ \A g \in Handler : pc'[g] = "idle" /\ todo'[g] = <<>>
    BY <1>10 DEF Crash, MapRace, Stop, Die
  <2>2. acked' \ kernel' \subseteq lost'
    BY <1>10 DEF Crash, MapRace, Stop, Die, BanInv, AckedOrLost
  <2>3. \A g \in Handler : Committed(g)'
    BY <2>1 DEF Committed, AllBans
  <2> QED BY <2>1, <2>2, <2>3 DEF BanInv, RecordedOrLost, AckedOrLost
<1>11. ASSUME Start \/ UNCHANGED vars PROVE BanInv'
  BY <1>11 DEF Start, vars, BanInv, RecordedOrLost, AckedOrLost, Committed, Made
<1> QED BY <1>1, <1>a, <1>2, <1>3, <1>4, <1>5, <1>6, <1>7, <1>8, <1>9, <1>10,
           <1>11 DEF Next, Step

\* It holds at the start.
LEMMA BanInit == Init => BanInv
BY DEF Init, BanInv, TypeOK, Batch, RecordedOrLost, AckedOrLost,
       Committed, AllBans, IP

\* The inductive invariant of the ban path.
THEOREM BanInvariant == Wired => (Spec => []BanInv)
<1> SUFFICES ASSUME Wired PROVE Spec => []BanInv
  OBVIOUS
<1>1. TypeInv /\ TypeInv' /\ BanInv /\ [Next]_vars => BanInv'
  BY BanStep
<1> QED BY <1>1, BanInit, TypeAlways, PTL DEF Spec

\* With any number of concurrent requests, over a kernel that may refuse any
\* batch: an address the proxy has on record, and will therefore skip when asked
\* to ban it, is dropped, or it was in the buffer when another request's flush
\* was refused and has not reached the kernel since.
THEOREM RecordSound == Wired => (Spec => []RecordedOrLost)
<1>1. BanInv => RecordedOrLost
  BY DEF BanInv
<1> QED BY <1>1, BanInvariant, PTL

\* The same of an address reported to a client as banned, until the proxy shuts
\* down: that is the only way an answer can be wrong.
THEOREM AnswersSound == Wired => (Spec => []AckedOrLost)
<1>1. BanInv => AckedOrLost
  BY DEF BanInv
<1> QED BY <1>1, BanInvariant, PTL

\* The ban path implements BanContract: every step drops addresses, loses some
\* with a batch the kernel refuses, acknowledges dropped or lost ones, withdraws
\* at shutdown, is a crash, or is invisible to the clients.
THEOREM Implements == Wired => (Spec => KeepsContract)
<1> SUFFICES ASSUME Wired PROVE Spec => KeepsContract
  OBVIOUS
<1>1. Init => Contract!Init
  BY DEF Init, Contract!Init
<1>2. TypeInv /\ BanInv /\ BanInv' /\ [Next]_vars
        => [Contract!Next]_(Contract!contractVars)
  <2> SUFFICES ASSUME TypeInv, BanInv, BanInv', [Next]_vars
               PROVE  Contract!Next \/ UNCHANGED Contract!contractVars
    OBVIOUS
  <2> USE DEF Contract!contractVars, nft
  <2>1. CASE \E h \in Handler : FlushOk(h)
    <3>1. /\ kernel' = kernel \cup staged /\ lost' = lost \ kernel'
          /\ UNCHANGED acked
      BY <2>1 DEF FlushOk, BanInv
    <3>2. staged \in SUBSET IP
      BY DEF TypeInv, TypeOK
    <3> QED BY <3>1, <3>2 DEF Contract!Next, Contract!Drop
  <2>2. ASSUME NEW h \in Handler, FlushErr(h)
        PROVE  Contract!Next
    <3>1. /\ lost' = lost \cup (OthersBans(h) \ kernel)
          /\ UNCHANGED <<kernel, acked>>
      BY <2>2 DEF FlushErr
    <3>2. OthersBans(h) \ kernel \in SUBSET (IP \ kernel)
      BY OthersBansType
    <3> QED BY <3>1, <3>2 DEF Contract!Next, Contract!Lose
  <2>3. ASSUME NEW h \in Handler, Answer(h)
        PROVE  Contract!Next
    <3>1. acked' = acked \cup want[h] /\ UNCHANGED <<kernel, lost>>
      BY <2>3 DEF Answer, BanInv
    <3>2. want[h] \in SUBSET (kernel \cup lost)
      BY <3>1 DEF BanInv, AckedOrLost
    <3> QED BY <3>1, <3>2 DEF Contract!Next, Contract!Acknowledge
  <2>4. CASE Stop
    <3>1. kernel' \in {{}, kernel} /\ acked' = {} /\ lost' = {}
      BY <2>4 DEF Stop, Die
    <3> QED BY <3>1 DEF Contract!Next, Contract!Withdraw
  <2>5. CASE Crash \/ MapRace
    BY <2>5 DEF Crash, MapRace, Die, Contract!Next, Contract!Crash
  <2>6. CASE Start \/ UNCHANGED vars
    BY <2>6 DEF Start, vars
  <2>7. CASE \E h \in Handler : Queue(h)
    BY <2>7 DEF Queue
  <2>8. ASSUME NEW h \in Handler,
               \/ \E o \in Ops, req \in Requests : Receive(h, o, req)
               \/ \E req \in Requests : SetPreferences(h, req)
               \/ SetPort(h) \/ SetPortFails(h)
               \/ Status4(h) \/ Status6(h) \/ Forget(h) \/ Record(h)
        PROVE  UNCHANGED Contract!contractVars
    BY <2>8 DEF Receive, SetPreferences, SetPort, SetPortFails, Status4, Status6, Forget, Record
  <2> QED BY <2>1, <2>2, <2>3, <2>4, <2>5, <2>6, <2>7, <2>8 DEF Next, Step
<1> QED BY <1>1, <1>2, BanInvariant, TypeAlways, PTL
        DEF Spec, KeepsContract, Contract!Spec

\* It takes both to lose a ban, a kernel that refuses a well-formed batch and a
\* second request: when one of them is missing, whatever a client was told is
\* banned is dropped.
THEOREM LossTakesBoth ==
    /\ Wired
    /\ MayRefuse => \A g, h \in Handler : g = h
    => (Spec => []AckedIsDropped)
<1> SUFFICES ASSUME Wired, MayRefuse => \A g, h \in Handler : g = h
             PROVE  Spec => []AckedIsDropped
  OBVIOUS
<1> DEFINE NothingLost == lost = {}
<1>1. Init => NothingLost
  BY DEF Init
<1>2. TypeInv /\ BanInv /\ NothingLost /\ [Next]_vars => NothingLost'
  <2> SUFFICES ASSUME TypeInv, BanInv, NothingLost, [Next]_vars
               PROVE  lost' = {}
    OBVIOUS
  <2>1. CASE \E h \in Handler : FlushErr(h)
    <3>1. PICK h \in Handler : FlushErr(h)
      BY <2>1
    <3>2. \A g \in Handler : g = h
      BY <3>1 DEF FlushErr, Refused, BanInv
    <3>3. OthersBans(h) = {}
      BY <3>2 DEF OthersBans
    <3> QED BY <3>1, <3>3 DEF FlushErr
  <2>2. CASE \E h \in Handler : Elsewhere(h) \/ Queue(h) \/ FlushOk(h)
    BY <2>2 DEF Elsewhere, nft, Queue, FlushOk
  <2>3. CASE Crash \/ MapRace \/ Stop
    BY <2>3 DEF Crash, MapRace, Stop, Die
  <2>4. CASE Start \/ UNCHANGED vars
    BY <2>4 DEF Start, nft, vars
  <2> QED BY <2>1, <2>2, <2>3, <2>4, ElsewhereSteps DEF Next, Step
<1>3. BanInv /\ NothingLost => AckedIsDropped
  BY DEF BanInv, AckedOrLost, AckedIsDropped
<1> QED BY <1>1, <1>2, <1>3, BanInvariant, TypeAlways, PTL DEF Spec

-----------------------------------------------------------------------------
(* What the readers of the record rely on, for the proxy as it is wired.   *)

\* No call is empty, and no address is in two of them.
Tidy(calls) ==
    /\ \A i \in 1..Len(calls) : calls[i].ips # {}
    /\ \A i, j \in 1..Len(calls) : i # j => calls[i].ips \cap calls[j].ips = {}

\* The calls of a request are those for the addresses not on record.
Split(h) ==
    /\ Tidy(todo[h])
    /\ pc[h] = "status6" =>
           /\ Ips(todo[h]) \subseteq want[h] \cap V4
           /\ want[h] \cap V4 \subseteq banlistIPV4 \cup Ips(todo[h])
    /\ Calling(h) => Ips(todo[h]) \subseteq want[h]

\* What is staged and not in the kernel is about to be flushed by a request; a
\* process that is gone serves none and has nothing on record.
RequestInv ==
    /\ ~up => banlistIPV4 = {} /\ \A h \in Handler : pc[h] = "idle"
    /\ \A ip \in staged \ kernel :
           \E h \in Handler : pc[h] = "flush" /\ ip \in Head(todo[h]).ips
    /\ \A h \in Handler : Split(h)

\* One call, or none.
LEMMA TidyCallIf ==
    ASSUME NEW repo, NEW S
    PROVE  Tidy(CallIf(repo, S))
BY DEF Tidy, CallIf

\* Calls for different addresses.
LEMMA TidyConcat ==
    ASSUME NEW s \in Seq(Call), NEW t \in Seq(Call), Tidy(s), Tidy(t),
           Ips(s) \cap Ips(t) = {}
    PROVE  Tidy(s \o t)
<1>1. ASSUME NEW i \in 1..Len(s \o t)
      PROVE  \/ i \in 1..Len(s) /\ (s \o t)[i] = s[i]
             \/ /\ i - Len(s) \in 1..Len(t) /\ (s \o t)[i] = t[i - Len(s)]
                /\ i \notin 1..Len(s)
  OBVIOUS
<1>2. ASSUME NEW i \in 1..Len(s), NEW j \in 1..Len(t)
      PROVE  s[i].ips \cap t[j].ips = {}
  BY DEF Ips
<1>3. ASSUME NEW i \in 1..Len(s \o t), NEW j \in 1..Len(s \o t), i # j
      PROVE  (s \o t)[i].ips \cap (s \o t)[j].ips = {}
  <2>1. CASE i \in 1..Len(s) /\ j \in 1..Len(s)
    BY <1>1, <1>3, <2>1 DEF Tidy
  <2>2. CASE i \in 1..Len(s) /\ j \notin 1..Len(s)
    BY <1>1, <1>2, <2>2
  <2>3. CASE i \notin 1..Len(s) /\ j \in 1..Len(s)
    BY <1>1, <1>2, <2>3
  <2>4. CASE i \notin 1..Len(s) /\ j \notin 1..Len(s)
    <3>1. i - Len(s) # j - Len(s)
      BY <1>3
    <3> QED BY <1>1, <2>4, <3>1 DEF Tidy
  <2> QED BY <2>1, <2>2, <2>3, <2>4
<1>4. ASSUME NEW i \in 1..Len(s \o t) PROVE (s \o t)[i].ips # {}
  BY <1>1 DEF Tidy
<1> QED BY <1>3, <1>4 DEF Tidy

\* The first call is for some addresses, the others for the rest.
LEMMA TidyTail ==
    ASSUME NEW s \in Seq(Call), s # <<>>, Tidy(s)
    PROVE  /\ Head(s).ips # {} /\ Head(s).ips \subseteq Ips(s)
           /\ Tidy(Tail(s))
           /\ Ips(Tail(s)) = Ips(s) \ Head(s).ips
<1>1. 1 \in 1..Len(s) /\ Head(s) = s[1]
  OBVIOUS
<1>2. \A i \in 1..Len(Tail(s)) :
          i + 1 \in 1..Len(s) /\ i + 1 # 1 /\ Tail(s)[i] = s[i + 1]
  OBVIOUS
<1>3. Tidy(Tail(s))
  <2>1. ASSUME NEW i \in 1..Len(Tail(s)), NEW j \in 1..Len(Tail(s)), i # j
        PROVE  Tail(s)[i].ips \cap Tail(s)[j].ips = {}
    <3>1. i + 1 # j + 1
      BY <2>1
    <3> QED BY <1>2, <3>1 DEF Tidy
  <2>2. \A i \in 1..Len(Tail(s)) : Tail(s)[i].ips # {}
    BY <1>2 DEF Tidy
  <2> QED BY <2>1, <2>2 DEF Tidy
<1>4. Ips(Tail(s)) \subseteq Ips(s) \ Head(s).ips
  <2> SUFFICES ASSUME NEW ip \in Ips(Tail(s))
               PROVE  ip \in Ips(s) /\ ip \notin Head(s).ips
    OBVIOUS
  <2>1. PICK i \in 1..Len(Tail(s)) : ip \in Tail(s)[i].ips
    BY DEF Ips
  <2>2. ip \in s[i + 1].ips /\ s[i + 1].ips \cap s[1].ips = {}
    BY <1>1, <1>2, <2>1 DEF Tidy
  <2> QED BY <1>1, <1>2, <2>2 DEF Ips
<1>5. Head(s).ips # {} /\ Head(s).ips \subseteq Ips(s)
  BY <1>1 DEF Tidy, Ips
<1> QED BY <1>3, <1>4, <1>5, IpsOfTail

\* A step of one handler leaves the requests of the others alone.
Alone(h) ==
    \A g \in Handler \ {h} :
        pc'[g] = pc[g] /\ todo'[g] = todo[g] /\ want'[g] = want[g]

\* Such is every step of a handler.
LEMMA StepsAlone ==
    ASSUME TypeInv, NEW h \in Handler,
           \/ \E o \in Ops, req \in Requests : Receive(h, o, req)
           \/ \E req \in Requests : SetPreferences(h, req)
           \/ Step(h)
    PROVE  Alone(h) /\ up' = up
BY DEF TypeInv, TypeOK, Alone, Step, Receive, SetPreferences, SetPort, SetPortFails,
       Status4, Status6, Forget, Queue, FlushOk, FlushErr, Record, Answer, request

\* A step of one handler that takes nothing off the record keeps the calls of
\* the others split.
LEMMA OthersSplit ==
    ASSUME RequestInv, NEW h \in Handler, Alone(h), banlistIPV4 \subseteq banlistIPV4',
           NEW g \in Handler \ {h}
    PROVE  Split(g)'
BY DEF RequestInv, Split, Alone, Calling

\* Each request splits its addresses into calls, and each batch holds what
\* requests that are at their flush have queued.
LEMMA RequestStep ==
    ASSUME Wired, TypeInv, BanInv, RequestInv, [Next]_vars
    PROVE  RequestInv'
<1> USE DEF TypeInv, TypeOK, request, record, nft
<1>1. ASSUME NEW h \in Handler, Elsewhere(h), Alone(h), up' = up, Split(h)',
             pc[h] # "idle" \/ up, banlistIPV4 \subseteq banlistIPV4',
             up \/ banlistIPV4' = banlistIPV4
      PROVE  RequestInv'
  <2>1. \A g \in Handler : Split(g)'
    BY <1>1, OthersSplit
  <2>2. ASSUME NEW ip \in staged' \ kernel'
        PROVE  \E g \in Handler : pc'[g] = "flush" /\ ip \in Head(todo'[g]).ips
    BY <1>1, <2>2 DEF Elsewhere, RequestInv
  <2>3. ~up' => FALSE
    BY <1>1 DEF RequestInv
  <2> QED BY <2>1, <2>2, <2>3 DEF RequestInv
<1>2. ASSUME NEW h \in Handler, pc[h] # "idle" PROVE up
  BY <1>2 DEF RequestInv
<1>3. ASSUME NEW h \in Handler, NEW o \in Ops, NEW req \in Requests, Receive(h, o, req)
      PROVE  RequestInv'
  <2>1. Split(h)'
    BY <1>3 DEF Receive, RequestInv, Split, Calling
  <2> QED BY <1>1, <1>3, <2>1, ElsewhereSteps, StepsAlone DEF Receive
<1>4. ASSUME NEW h \in Handler,
             \/ \E req \in Requests : SetPreferences(h, req)
             \/ SetPort(h) \/ SetPortFails(h)
      PROVE  RequestInv'
  <2>1. Split(h)'
    BY <1>4 DEF SetPreferences, SetPort, SetPortFails, RequestInv, Split, Calling
  <2>2. up /\ banlistIPV4' = banlistIPV4
    BY <1>4, <1>2 DEF SetPreferences, SetPort, SetPortFails
  <2> QED BY <1>1, <1>4, <2>1, <2>2, ElsewhereSteps, StepsAlone DEF Step
<1>5. ASSUME NEW h \in Handler, Status4(h) PROVE RequestInv'
  <2> DEFINE S == (want[h] \cap V4) \ banlistIPV4
  <2>1. /\ todo'[h] = CallIf("ban", S) /\ pc'[h] = "status6"
        /\ UNCHANGED <<want, record>>
    BY <1>5 DEF Status4, BanInv, Filter
  <2>2. Tidy(todo'[h]) /\ Ips(todo'[h]) = S
    BY <2>1, TidyCallIf, IpsOfCallIf
  <2>3. Split(h)'
    BY <2>1, <2>2 DEF Split, Calling
  <2> QED BY <1>1, <1>2, <1>5, <2>3, ElsewhereSteps, StepsAlone DEF Step, Status4
<1>6. ASSUME NEW h \in Handler, Status6(h) PROVE RequestInv'
  <2> DEFINE S == (want[h] \cap V6) \ banlistIPV6
             C == CallIf("ban", S)
  <2>1. /\ todo'[h] = todo[h] \o C /\ pc'[h] = "queue"
        /\ UNCHANGED <<want, record>>
    BY <1>6 DEF Status6, BanInv, Filter
  <2>2. C \in Seq(Call) /\ todo[h] \in Seq(Call)
    BY CallIfType
  <2>3. Tidy(todo[h]) /\ Ips(todo[h]) \subseteq want[h] \cap V4
    BY <1>6 DEF Status6, RequestInv, Split
  <2>4. Tidy(C) /\ Ips(C) = S
    BY TidyCallIf, IpsOfCallIf
  <2>5. Ips(todo[h]) \cap S = {}
    BY <2>3, AddressAssumption
  <2> HIDE DEF C, S
  <2>6. Tidy(todo'[h]) /\ Ips(todo'[h]) = Ips(todo[h]) \cup S
    BY <2>1, <2>2, <2>3, <2>4, <2>5, TidyConcat, IpsOfConcat
  <2>7. Split(h)'
    BY <2>1, <2>3, <2>6 DEF Split, Calling, S
  <2> QED BY <1>1, <1>2, <1>6, <2>7, ElsewhereSteps, StepsAlone DEF Step, Status6
<1>7. ASSUME NEW h \in Handler, Forget(h) PROVE RequestInv'
  BY <1>7 DEF Forget, BanInv, Committed
<1>8. ASSUME NEW h \in Handler, Queue(h) PROVE RequestInv'
  <2>1. Head(todo[h]).repo = "ban"
    BY <1>8, AllBansTail DEF Queue, BanInv, Committed
  <2>2. /\ staged' = staged \cup Head(todo[h]).ips
        /\ pc[h] = "queue" /\ pc' = [pc EXCEPT ![h] = "flush"]
        /\ UNCHANGED <<up, todo, want, kernel, record>>
    BY <1>8, <2>1 DEF Queue, StageAdd
  <2>3. Split(h)'
    BY <2>2 DEF RequestInv, Split, Calling
  <2>4. \A g \in Handler : Split(g)'
    BY <1>8, <2>2, <2>3, OthersSplit, StepsAlone DEF Step
  <2>5. ASSUME NEW ip \in staged' \ kernel'
        PROVE  \E g \in Handler : pc'[g] = "flush" /\ ip \in Head(todo'[g]).ips
    BY <2>2 DEF RequestInv
  <2> QED BY <1>2, <2>2, <2>4, <2>5 DEF RequestInv
<1>9. ASSUME NEW h \in Handler, FlushOk(h) \/ FlushErr(h) PROVE RequestInv'
  <2>1. /\ staged' = kernel' /\ pc[h] = "flush" /\ UNCHANGED <<up, want, record>>
        /\ \/ pc'[h] = "record" /\ todo'[h] = todo[h]
           \/ pc'[h] = "idle" /\ todo'[h] = <<>>
    BY <1>9 DEF FlushOk, FlushErr
  <2>2. Tidy(<<>>)
    BY DEF Tidy
  <2>3. Split(h)'
    <3>1. Split(h)
      BY DEF RequestInv
    <3>2. CASE pc'[h] = "record" /\ todo'[h] = todo[h]
      BY <2>1, <3>1, <3>2 DEF Split, Calling
    <3>3. CASE pc'[h] = "idle" /\ todo'[h] = <<>>
      BY <2>2, <3>3 DEF Split, Calling
    <3> QED BY <2>1, <3>2, <3>3
  <2>4. \A g \in Handler : Split(g)'
    BY <1>9, <2>1, <2>3, OthersSplit, StepsAlone DEF Step
  <2> QED BY <1>2, <2>1, <2>4 DEF RequestInv
<1>10. ASSUME NEW h \in Handler, Record(h) PROVE RequestInv'
  <2>1. /\ banlistIPV4 \subseteq banlistIPV4' /\ want' = want
        /\ todo'[h] = Tail(todo[h]) /\ todo[h] # <<>>
        /\ pc[h] = "record" /\ pc'[h] = "queue"
    BY <1>10 DEF Record, CallInHand
  <2>2. Tidy(todo'[h]) /\ Ips(todo'[h]) \subseteq want[h]
    BY <2>1, TidyTail DEF RequestInv, Split, Calling
  <2>3. Split(h)'
    BY <2>1, <2>2 DEF Split
  <2> QED BY <1>1, <1>2, <1>10, <2>1, <2>3, ElsewhereSteps, StepsAlone DEF Step
<1>11. ASSUME NEW h \in Handler, Answer(h) PROVE RequestInv'
  <2>1. Split(h)'
    BY <1>11 DEF Answer, RequestInv, Split, Calling
  <2> QED BY <1>1, <1>2, <1>11, <2>1, ElsewhereSteps, StepsAlone DEF Step, Answer
<1>12. ASSUME Crash \/ MapRace \/ Stop PROVE RequestInv'
  <2>1. /\ staged' = kernel' /\ banlistIPV4' = {}
        /\ \A g \in Handler : pc'[g] = "idle" /\ todo'[g] = <<>>
    BY <1>12 DEF Crash, MapRace, Stop, Die
  <2> QED BY <2>1 DEF RequestInv, Split, Tidy, Calling
<1>13. ASSUME Start \/ UNCHANGED vars PROVE RequestInv'
  BY <1>13 DEF Start, vars, RequestInv, Split, Calling
<1> QED BY <1>3, <1>4, <1>5, <1>6, <1>7, <1>8, <1>9, <1>10, <1>11, <1>12, <1>13
        DEF Next, Step

\* Nothing is requested at the start.
LEMMA RequestInit == Init => RequestInv
BY DEF Init, RequestInv, Split, Tidy, Calling

\* What a step of one handler leaves to the others, in the terms of BanRequests.
LEMMA OthersRequests ==
    ASSUME NEW h \in Handler, Alone(h), NEW g \in Handler \ {h}
    PROVE  Wanted(g)' = Wanted(g) /\ Queued(g)' = Queued(g) /\ Flushed(g)' = Flushed(g)
BY DEF Alone, Wanted, Queued, Flushed, Calling

\* So a step of h changes the three functions at h only.
LEMMA RequestsChange ==
    ASSUME NEW h \in Handler, Alone(h)
    PROVE  /\ [g \in Handler |-> Wanted(g)]'
                = [[g \in Handler |-> Wanted(g)] EXCEPT ![h] = Wanted(h)']
           /\ [g \in Handler |-> Queued(g)]'
                = [[g \in Handler |-> Queued(g)] EXCEPT ![h] = Queued(h)']
           /\ [g \in Handler |-> Flushed(g)]'
                = [[g \in Handler |-> Flushed(g)] EXCEPT ![h] = Flushed(h)']
BY OthersRequests

\* The statuses are looked up, and the request has its calls to make.
LEMMA AskedOrNot ==
    ASSUME TypeInv, BanInv, RequestInv, RequestInv', NEW h \in Handler, Status6(h)
    PROVE  [Life!BanNext]_(Life!banVars)
<1> USE DEF TypeInv, TypeOK, request, record, nft
<1> DEFINE S == (want[h] \cap V6) \ banlistIPV6
           C == CallIf("ban", S)
<1>1. Alone(h)
  BY StepsAlone DEF Step
<1>2. /\ todo'[h] = todo[h] \o C /\ pc[h] = "status6" /\ pc'[h] = "queue"
      /\ UNCHANGED <<want, record, kernel>>
  BY DEF Status6, BanInv, Filter
<1>3. Ips(todo'[h]) = Ips(todo[h]) \cup S
  <2>1. C \in Seq(Call) /\ todo[h] \in Seq(Call) /\ Ips(C) = S
    BY CallIfType, IpsOfCallIf
  <2> HIDE DEF C, S
  <2> QED BY <1>2, <2>1, IpsOfConcat
<1>4. /\ Ips(todo'[h]) \subseteq want[h]
      /\ want[h] \ Ips(todo'[h]) \subseteq banlistIPV4
  BY <1>2, <1>3 DEF BanInv, RequestInv, Split, IP
<1>5. /\ Wanted(h) = {} /\ Queued(h) = {} /\ Flushed(h) = {}
      /\ Wanted(h)' = want[h] /\ Queued(h)' = Ips(todo'[h]) /\ Flushed(h)' = {}
  BY <1>2 DEF Wanted, Queued, Flushed, Calling
<1> DEFINE Q == [g \in Handler |-> Queued(g)]
           F == [g \in Handler |-> Flushed(g)]
           W == [g \in Handler |-> Wanted(g)]
<1>6. /\ W' = [W EXCEPT ![h] = want[h]] /\ Q' = [Q EXCEPT ![h] = Ips(todo'[h])]
      /\ F' = F
  <2>1. W' = [W EXCEPT ![h] = want[h]]
    BY <1>1, <1>5, RequestsChange
  <2>2. Q' = [Q EXCEPT ![h] = Ips(todo'[h])]
    BY <1>1, <1>5, RequestsChange
  <2>3. F' = F
    <3>1. Flushed(h)' = Flushed(h)
      BY <1>5
    <3> QED BY <1>1, <3>1, RequestsChange
  <2> QED BY <2>1, <2>2, <2>3
<1>7. CASE want[h] = {}
  <2>1. W' = W /\ Q' = Q
    <3>1. W[h] = want[h] /\ Q[h] = Ips(todo'[h])
      BY <1>4, <1>5, <1>7
    <3>2. W' = W
      BY <1>6, <3>1
    <3>3. Q' = Q
      BY <1>6, <3>1
    <3> QED BY <3>2, <3>3
  <2>2. UNCHANGED <<kernel, banlistIPV4, W, Q, F>>
    BY <1>2, <1>6, <2>1
  <2> QED BY <2>2 DEF Life!banVars
<1>8. CASE want[h] # {}
  <2>1. W[h] = {} /\ want[h] \in (SUBSET IP) \ {{}} /\ Ips(todo'[h]) \in SUBSET want[h]
    <3>1. W[h] = {}
      BY <1>5
    <3>2. want[h] \in (SUBSET IP) \ {{}}
      BY <1>8
    <3>3. Ips(todo'[h]) \in SUBSET want[h]
      BY <1>4
    <3> QED BY <3>1, <3>2, <3>3
  <2>2. Life!BanAsked(h)
    BY <1>2, <1>4, <1>6, <2>1 DEF Life!BanAsked
  <2> QED BY <2>2 DEF Life!BanNext
<1> QED BY <1>7, <1>8

\* The batch is sent: the call of this request, and those of others.
LEMMA FlushIsOne ==
    ASSUME TypeInv, BanInv, RequestInv, NEW h \in Handler, FlushOk(h)
    PROVE  Life!BanFlushed(h)
<1> USE DEF TypeInv, TypeOK, request, record, nft
<1> DEFINE c == Head(todo[h])
<1>1. Alone(h)
  BY StepsAlone DEF Step
<1>2. /\ pc[h] = "flush" /\ pc'[h] = "record" /\ todo'[h] = todo[h]
      /\ kernel' = staged /\ UNCHANGED <<want, record>>
  BY DEF FlushOk
<1>3. c.ips \subseteq Ips(todo[h]) /\ kernel \subseteq staged
  <2>1. todo[h] # <<>> /\ Tidy(todo[h])
    BY <1>2 DEF CallInHand, RequestInv, Split
  <2> QED BY <2>1, TidyTail DEF BanInv
<1>4. /\ Wanted(h)' = Wanted(h) /\ Queued(h) = Ips(todo[h]) /\ Flushed(h) = {}
      /\ Queued(h)' = Queued(h) \ c.ips /\ Flushed(h)' = c.ips
  BY <1>2 DEF Wanted, Queued, Flushed, Calling
<1>5. staged \ kernel \subseteq UNION {Queued(g) : g \in Handler}
  <2> SUFFICES ASSUME NEW ip \in staged \ kernel
               PROVE  \E g \in Handler : ip \in Queued(g)
    OBVIOUS
  <2>1. PICK g \in Handler : pc[g] = "flush" /\ ip \in Head(todo[g]).ips
    BY DEF RequestInv
  <2>2. todo[g] # <<>> /\ Tidy(todo[g])
    BY <2>1 DEF CallInHand, RequestInv, Split
  <2>3. ip \in Ips(todo[g])
    BY <2>1, <2>2, TidyTail
  <2> QED BY <2>1, <2>3 DEF Queued, Flushed, Calling
<1> DEFINE Q == [g \in Handler |-> Queued(g)]
           F == [g \in Handler |-> Flushed(g)]
           W == [g \in Handler |-> Wanted(g)]
<1>6. /\ F' = [F EXCEPT ![h] = c.ips] /\ Q' = [Q EXCEPT ![h] = @ \ c.ips] /\ W' = W
  BY <1>1, <1>4, RequestsChange
<1>7. /\ F[h] = {} /\ c.ips \in SUBSET Q[h]
      /\ staged \ kernel \in SUBSET (UNION {Q[g] : g \in Handler})
  BY <1>3, <1>4, <1>5
<1>8. kernel' = kernel \cup (staged \ kernel)
  BY <1>2, <1>3
<1> QED BY <1>2, <1>6, <1>7, <1>8 DEF Life!BanFlushed

\* It is refused: this request ends.
LEMMA RefusalIsOne ==
    ASSUME TypeInv, RequestInv, NEW h \in Handler, FlushErr(h)
    PROVE  Life!BanRefused(h)
<1> USE DEF TypeInv, TypeOK, request, record, nft
<1>1. Alone(h)
  BY StepsAlone DEF Step
<1>2. /\ pc[h] = "flush" /\ pc'[h] = "idle" /\ UNCHANGED <<kernel, record>>
  BY DEF FlushErr
<1>3. Ips(todo[h]) # {}
  <2>1. todo[h] # <<>> /\ Tidy(todo[h])
    BY <1>2 DEF CallInHand, RequestInv, Split
  <2> QED BY <2>1, TidyTail
<1>4. /\ Queued(h) # {} /\ Flushed(h) = {}
      /\ Wanted(h)' = {} /\ Queued(h)' = {} /\ Flushed(h)' = Flushed(h)
  BY <1>2, <1>3 DEF Wanted, Queued, Flushed, Calling
<1> QED BY <1>1, <1>2, <1>4, RequestsChange DEF Life!BanRefused

\* What the call was for is on record.
LEMMA RecordIsOne ==
    ASSUME TypeInv, RequestInv, NEW h \in Handler, Record(h)
    PROVE  Life!BanRecorded(h)
<1> USE DEF TypeInv, TypeOK, request, record, nft
<1> DEFINE c == Head(todo[h])
<1>1. Alone(h)
  BY StepsAlone DEF Step
<1>2. /\ pc[h] = "record" /\ pc'[h] = "queue" /\ UNCHANGED <<kernel, want>>
      /\ todo'[h] = Tail(todo[h]) /\ banlistIPV4' = banlistIPV4 \cup c.ips
  BY DEF Record
<1>3. c.ips # {} /\ Ips(todo'[h]) = Ips(todo[h]) \ c.ips
  <2>1. todo[h] # <<>> /\ Tidy(todo[h])
    BY <1>2 DEF CallInHand, RequestInv, Split
  <2> QED BY <1>2, <2>1, TidyTail
<1>4. /\ Flushed(h) = c.ips /\ Flushed(h)' = {}
      /\ Wanted(h)' = Wanted(h) /\ Queued(h)' = Queued(h)
  BY <1>2, <1>3 DEF Wanted, Queued, Flushed, Calling
<1> QED BY <1>1, <1>2, <1>3, <1>4, RequestsChange DEF Life!BanRecorded

\* A request that has made all its calls succeeds.
LEMMA AnsweredOrNot ==
    ASSUME TypeInv, NEW h \in Handler, Answer(h)
    PROVE  [Life!BanNext]_(Life!banVars)
<1> USE DEF TypeInv, TypeOK, request, record, nft
<1>1. Alone(h)
  BY StepsAlone DEF Step
<1>2. /\ pc[h] = "queue" /\ pc'[h] = "idle" /\ todo[h] = <<>>
      /\ UNCHANGED <<kernel, record>>
  BY DEF Answer
<1>3. Ips(<<>>) = {}
  BY DEF Ips
<1>4. /\ Wanted(h) = want[h] /\ Queued(h) = {} /\ Flushed(h) = {}
      /\ Wanted(h)' = {} /\ Queued(h)' = {} /\ Flushed(h)' = {}
  BY <1>2, <1>3 DEF Wanted, Queued, Flushed, Calling
<1> DEFINE Q == [g \in Handler |-> Queued(g)]
           F == [g \in Handler |-> Flushed(g)]
           W == [g \in Handler |-> Wanted(g)]
<1>5. W' = [W EXCEPT ![h] = {}] /\ Q' = Q /\ F' = F
  <2>1. W' = [W EXCEPT ![h] = {}]
    BY <1>1, <1>4, RequestsChange
  <2>2. Q' = Q /\ F' = F
    <3>1. Queued(h)' = Queued(h) /\ Flushed(h)' = Flushed(h)
      BY <1>4
    <3> QED BY <1>1, <3>1, RequestsChange
  <2> QED BY <2>1, <2>2
<1>6. CASE want[h] = {}
  <2>1. W' = W
    BY <1>4, <1>5, <1>6
  <2> QED BY <1>2, <1>5, <2>1 DEF Life!banVars
<1>7. CASE want[h] # {}
  <2>1. W[h] # {} /\ Q[h] = {} /\ F[h] = {}
    BY <1>4, <1>7
  <2>2. Life!BanAnswered(h)
    BY <1>2, <1>5, <2>1 DEF Life!BanAnswered
  <2> QED BY <2>2 DEF Life!BanNext
<1> QED BY <1>6, <1>7

\* No other step is seen by those who read the record.
LEMMA UnseenSteps ==
    ASSUME TypeInv, BanInv, NEW h \in Handler,
           \/ \E o \in Ops, req \in Requests : Receive(h, o, req)
           \/ \E req \in Requests : SetPreferences(h, req)
           \/ SetPort(h) \/ SetPortFails(h) \/ Status4(h) \/ Queue(h)
    PROVE  UNCHANGED Life!banVars
<1> USE DEF TypeInv, TypeOK, request, record, nft
<1>1. Alone(h)
  BY StepsAlone DEF Step
<1>2. UNCHANGED <<kernel, banlistIPV4>>
  BY DEF Receive, SetPreferences, SetPort, SetPortFails, Status4, Queue
<1>3. Wanted(h)' = Wanted(h) /\ Queued(h)' = Queued(h) /\ Flushed(h)' = Flushed(h)
  BY DEF Receive, SetPreferences, SetPort, SetPortFails, Status4, Queue, Wanted, Queued,
     Flushed, Calling
<1> QED BY <1>1, <1>2, <1>3, RequestsChange DEF Life!banVars

\* Between a start of the process and its end, ban requests do to the kernel and
\* the record what PeerView builds on, for any handlers, addresses and requests.
THEOREM RecordFed == Wired => (Spec => FeedsRecord)
<1> SUFFICES ASSUME Wired PROVE Spec => FeedsRecord
  OBVIOUS
<1>1. Init => Life!BanInit
  BY DEF Init, Life!BanInit, Wanted, Queued, Flushed, Calling
<1>2. ASSUME TypeInv, BanInv, RequestInv, RequestInv', [Next]_vars
      PROVE  [up' => IF up THEN [Life!BanNext]_(Life!banVars) ELSE Life!BanInit']_vars
  <2> USE <1>2
  <2>1. CASE Crash \/ MapRace \/ Stop
    BY <2>1 DEF Crash, MapRace, Stop, Die
  <2>2. CASE Start
    <3>1. /\ up' /\ ~up /\ kernel' = kernel /\ pc' = pc /\ banlistIPV4' = banlistIPV4
      BY <2>2 DEF Start, record, nft
    <3>2. \A h \in Handler : Wanted(h)' = {} /\ Queued(h)' = {} /\ Flushed(h)' = {}
      BY <3>1 DEF RequestInv, Wanted, Queued, Flushed, Calling
    <3>3. banlistIPV4' = {} /\ kernel' \in SUBSET IP
      BY <3>1 DEF RequestInv, TypeInv, TypeOK
    <3> QED BY <3>1, <3>2, <3>3 DEF Life!BanInit
  <2>3. ASSUME NEW h \in Handler,
               \/ \E o \in Ops, req \in Requests : Receive(h, o, req)
               \/ \E req \in Requests : SetPreferences(h, req)
               \/ SetPort(h) \/ SetPortFails(h) \/ Status4(h) \/ Queue(h)
        PROVE  UNCHANGED Life!banVars /\ up' = up
    BY <2>3, UnseenSteps, StepsAlone DEF Step
  <2>4. ASSUME NEW h \in Handler, Status6(h) \/ Answer(h)
        PROVE  [Life!BanNext]_(Life!banVars) /\ up' = up
    BY <2>4, AskedOrNot, AnsweredOrNot, StepsAlone DEF Step
  <2>5. ASSUME NEW h \in Handler, FlushOk(h) \/ FlushErr(h) \/ Record(h)
        PROVE  Life!BanNext /\ up' = up
    BY <2>5, FlushIsOne, RefusalIsOne, RecordIsOne, StepsAlone DEF Step, Life!BanNext
  <2>6. ASSUME NEW h \in Handler, Forget(h) PROVE FALSE
    BY <2>6 DEF Forget, BanInv, Committed
  <2>7. ASSUME NEW h \in Handler, up' = up, [Life!BanNext]_(Life!banVars)
        PROVE  up' => IF up THEN [Life!BanNext]_(Life!banVars) ELSE Life!BanInit'
    <3>1. CASE up
      BY <2>7, <3>1
    <3>2. CASE ~up
      BY <2>7, <3>2
    <3> QED BY <3>1, <3>2
  <2> QED BY <2>1, <2>2, <2>3, <2>4, <2>5, <2>6, <2>7 DEF Next, Step
<1>3. TypeInv /\ BanInv /\ RequestInv /\ [Next]_vars => RequestInv'
  BY RequestStep
<1> QED BY <1>1, <1>2, <1>3, RequestInit, BanInvariant, TypeAlways, PTL
        DEF Spec, FeedsRecord
=============================================================================
